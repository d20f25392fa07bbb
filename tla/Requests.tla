---- MODULE Requests ----
(***************************************************************************)
(* The request bodies that the server accepts: the fields of each DTO.     *)
(* The global validation pipe works with a whitelist, so a field that the  *)
(* DTO does not declare is dropped without an error.                       *)
(***************************************************************************)

CreateAgendaDto == {"color", "description", "isActive", "name", "ownerId", "ownerName",
                    "services", "workingHours"}

CreateAppointmentDto == {"contactId", "description", "endAt", "leadId", "notes", "service",
                         "startAt", "status", "title"}

UpdateAgendaDto == {"color", "description", "isActive", "name", "ownerName", "services",
                    "workingHours"}

UpdateAppSettingsDto == {"signupEnabled", "systemChannelConfigId", "trialDays"}

ForgotPasswordDto == {"email"}

VerifyCodeDto == {"code", "email"}

ResetPasswordDto == {"newPassword", "resetToken"}

LoginDto == {"email", "password"}

CreateAutomationDto == {"active", "name", "pipelineId", "stageId", "steps", "triggerType"}

UpdateAutomationDto == CreateAutomationDto

CheckoutDto == {"planSlug"}

CheckNumberDto == {"phone"}

TypingDto == {"chatId", "type"}

MarkReadDto == {"chatId"}

SyncChatDto == {"chatId", "count"}

CreateChannelDto == {"config", "name", "type"}

CreateCompanyDto == {"additionalAccessUserIds", "bairro", "categoria", "celular", "cep",
                     "cidade", "cnpj", "complemento", "descricao", "email", "estado",
                     "facebook", "fax", "instagram", "linkedin", "name", "numero", "origem",
                     "pais", "pessoaIds", "privacy", "produtos", "ramal", "ranking",
                     "razaoSocial", "responsibleId", "rua", "setor", "skype", "telefone",
                     "twitter", "website", "whatsapp"}

UpdateCompanyDto == CreateCompanyDto

CreateContactActivityDto == {"body", "scheduledAt", "type"}

UpdateContactActivityDto == {"body", "scheduledAt"}

CreateContactDto == {"additionalAccessUserIds", "bairro", "birthDay", "birthYear", "categoria",
                     "celular", "channelOrigin", "cidade", "company", "complemento", "cpf",
                     "descricao", "email", "estado", "facebook", "fax", "instagram",
                     "linkedin", "name", "numero", "origem", "pais", "phone", "privacy",
                     "produtos", "ramal", "responsibleId", "role", "rua", "skype", "twitter",
                     "website", "whatsapp", "zipCode"}

UpdateContactDto == CreateContactDto \cup {"origin"}

QualifyDto == {"assignedToId", "name", "pipelineId", "stageId", "type"}

CreateCustomerCategoryDto == {"name"}

UpdateCustomerCategoryDto == CreateCustomerCategoryDto

CreateCustomerOriginDto == CreateCustomerCategoryDto

UpdateCustomerOriginDto == CreateCustomerCategoryDto

CreateLabelDto == {"color", "name"}

UpdateLabelDto == {"color", "name", "position"}

CreateLeadActivityDto == {"body", "createdById", "scheduledAt", "type"}

UpdateLeadActivityDto == UpdateContactActivityDto

ClassifyLeadDto == {"email", "name", "phone"}

CreateLeadDto == {"additionalAccessUserIds", "assignedToId", "companyId", "conclusionDate",
                  "contactId", "customerOriginId", "externalName", "externalPhone", "items",
                  "notes", "pipelineId", "privacy", "stageId", "startDate", "title", "value"}

MoveLeadDto == {"stageId"}

SetLeadScoreDto == {"score"}

UpdateLeadStatusDto == {"freezeReason", "frozenReturnDate", "lossReason", "status"}

UpdateLeadDto == {"additionalAccessUserIds", "assignedToId", "companyId", "conclusionDate",
                  "contactId", "customerOriginId", "items", "notes", "privacy", "ranking",
                  "startDate", "title", "value"}

CreateLossReasonDto == {"label"}

UpdateLossReasonDto == CreateLossReasonDto

SendMessageDto == {"body", "channelConfigId", "conversationId"}

SendMediaDto == {"base64", "body", "channelConfigId", "conversationId", "mediaCaption",
                 "mediaFileName", "mediaMimeType", "mediaType", "mediaUrl"}

ReactMessageDto == {"channelConfigId", "emoji", "messageId"}

DeleteMessageDto == {"channelConfigId", "messageId"}

TranscribeDto == {"audioUrl"}

CreatePipelineDto == {"isDefault", "kind", "name", "sigla"}

UpdatePipelineDto == {"isDefault", "name", "sigla"}

UpdateWorkspaceDto == {"name", "planSlug", "subscriptionStatus", "trialEndsAt"}

BroadcastDto == {"active", "body", "endsAt", "severity", "startsAt", "title"}

UpdateBroadcastDto == BroadcastDto

UpsertFlagDto == {"enabled", "key", "metadata", "workspaceId"}

CreateProductDto == {"active", "name", "price", "type"}

UpdateProductDto == CreateProductDto

CreateQuickReplyDto == {"body", "category", "shortcut", "title"}

UpdateQuickReplyDto == CreateQuickReplyDto

ScheduleMessageDto == {"body", "channelConfigId", "conversationId", "scheduledAt"}

CreateSectorDto == CreateCustomerCategoryDto

UpdateSectorDto == CreateCustomerCategoryDto

SignupStartDto == {"email", "name", "password", "phone", "workspaceName"}

SignupVerifyDto == {"code", "otpId"}

SignupResendDto == {"otpId"}

CreateStageRequiredFieldDto == {"fieldKey", "question", "targetType"}

UpdateStageRequiredFieldDto == {"question"}

CreateStageDto == {"color", "name", "position", "timeLimitDays"}

UpdateStageDto == CreateStageDto

SubscribeDto == CheckoutDto

CreatePlanDto == {"active", "description", "features", "highlight", "name",
                  "priceMonthlyCents", "slug", "sortOrder", "stripePriceId", "stripeProductId"}

UpdatePlanDto == CreatePlanDto

CreateTaskDto == {"attachments", "description", "dueDate", "location", "responsibleIds",
                  "targetId", "targetLabel", "targetType", "type"}

UpdateTaskDto == {"attachments", "description", "dueDate", "responsibleIds", "targetId",
                  "targetLabel", "targetType", "type"}

CreateTemplateDto == {"body", "name"}

ChangeEmailDto == {"email", "otpToken"}

ChangePasswordDto == {"newPassword", "otpToken"}

CreateUserDto == {"email", "name", "password", "role"}

SendProfileOtpDto == {"purpose"}

VerifyProfileOtpDto == {"code", "purpose"}

UpdateProfileDto == CreateCustomerCategoryDto
====
