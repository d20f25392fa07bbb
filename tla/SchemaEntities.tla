--------------------------- MODULE SchemaEntities ---------------------------
(* What the code takes the tables to be: each entity's table, its columns, the
   values of its enumerated columns, and the sets of columns it declares unique. *)
Entity(table, columns, enums, uniques) ==
    [table |-> table, columns |-> columns, enums |-> enums, uniques |-> uniques]

Agenda == Entity("agendas",
    {"id", "workspaceId", "name", "description", "ownerId", "ownerName", "color", "services",
     "workingHours", "isActive", "createdAt", "updatedAt"},
    {}, {})

Appointment == Entity("appointments",
    {"id", "workspaceId", "agendaId", "contactId", "leadId", "title", "description", "service",
     "startAt", "endAt", "status", "notes", "createdById", "metadata", "createdAt", "updatedAt"},
    {<<"status", {"pending", "confirmed", "cancelled", "completed"}>>}, {})

WorkspaceAiUsage == Entity("workspace_ai_usage",
    {"id", "workspaceId", "month", "tokensUsed", "monthlyBudgetTokens", "createdAt", "updatedAt"},
    {}, {{"workspaceId", "month"}})

AppSetting == Entity("app_settings",
    {"id", "systemChannelConfigId", "signupEnabled", "trialDays", "updatedAt"},
    {}, {})

AuditLog == Entity("audit_logs",
    {"id", "workspaceId", "userId", "action", "resourceType", "resourceId", "changes",
     "ipAddress", "userAgent", "requestId", "createdAt"},
    {}, {})

AutomationExecution == Entity("automation_executions",
    {"id", "workspaceId", "automationId", "leadId", "status", "currentStepPosition",
     "startedAt", "updatedAt"},
    {}, {{"automationId", "leadId"}})

AutomationStep == Entity("automation_steps",
    {"id", "automationId", "position", "type", "config", "createdAt"},
    {}, {})

Automation == Entity("automations",
    {"id", "workspaceId", "name", "triggerType", "pipelineId", "stageId", "active",
     "createdAt", "updatedAt"},
    {}, {})

ChannelConfig == Entity("channel_configs",
    {"id", "workspaceId", "name", "type", "config", "status", "active", "createdAt", "updatedAt"},
    {}, {})

Company == Entity("companies",
    {"id", "workspaceId", "name", "cnpj", "razaoSocial", "categoria", "origem", "setor",
     "descricao", "responsibleId", "privacy", "additionalAccessUserIds", "email", "whatsapp",
     "telefone", "celular", "fax", "ramal", "website", "cep", "pais", "estado", "cidade",
     "bairro", "rua", "numero", "complemento", "produtos", "pessoaIds", "facebook", "twitter",
     "linkedin", "skype", "instagram", "ranking", "avatarUrl", "avatarKey", "createdAt",
     "updatedAt", "deletedAt"},
    {<<"privacy", {"all", "restricted"}>>}, {})

ContactActivity == Entity("contact_activities",
    {"id", "workspaceId", "contactId", "companyId", "type", "body", "createdById",
     "scheduledAt", "completedAt", "createdAt", "updatedAt"},
    {<<"type", {"note", "email", "call", "whatsapp", "meeting", "visit", "proposal"}>>}, {})

Contact == Entity("contacts",
    {"id", "workspaceId", "name", "phone", "email", "channelOrigin", "origin", "company",
     "role", "website", "zipCode", "categoria", "responsibleId", "cpf", "birthDay",
     "birthYear", "origem", "descricao", "whatsapp", "celular", "fax", "ramal", "pais",
     "estado", "cidade", "bairro", "rua", "numero", "complemento", "produtos", "facebook",
     "twitter", "linkedin", "skype", "instagram", "avatarUrl", "avatarKey", "privacy",
     "additionalAccessUserIds", "createdAt", "updatedAt", "deletedAt"},
    {<<"privacy", {"all", "restricted"}>>}, {})

Conversation == Entity("conversations",
    {"id", "workspaceId", "leadId", "channelType", "externalId", "fromName", "fromAvatarUrl",
     "lastReadAt", "archivedAt", "pinnedAt", "createdAt", "updatedAt"},
    {}, {})

CustomerCategory == Entity("customer_categories",
    {"id", "workspaceId", "name", "createdAt"},
    {}, {{"workspaceId", "name"}})

CustomerOrigin == Entity("customer_origins",
    {"id", "workspaceId", "name", "createdAt"},
    {}, {{"workspaceId", "name"}})

UserIntegration == Entity("user_integrations",
    {"id", "userId", "provider", "accessToken", "refreshToken", "expiresAt", "accountEmail",
     "createdAt", "updatedAt"},
    {}, {{"userId", "provider"}})

Label == Entity("labels",
    {"id", "workspaceId", "name", "color", "position", "createdAt", "updatedAt"},
    {}, {})

LeadActivity == Entity("lead_activities",
    {"id", "workspaceId", "leadId", "type", "body", "createdById", "scheduledAt",
     "completedAt", "createdAt", "updatedAt"},
    {<<"type", {"note", "call", "whatsapp", "meeting", "visit", "proposal"}>>}, {})

Lead == Entity("leads",
    {"id", "workspaceId", "contactId", "companyId", "externalName", "externalPhone", "stageId",
     "pipelineId", "assignedToId", "createdById", "customerOriginId", "ranking", "title",
     "status", "lossReason", "freezeReason", "frozenReturnDate", "startDate", "conclusionDate",
     "stageEnteredAt", "value", "notes", "archivedAt", "privacy", "score",
     "additionalAccessUserIds", "items", "createdAt", "updatedAt", "deletedAt"},
    {<<"status", {"active", "won", "lost", "frozen"}>>, <<"privacy", {"all", "restricted"}>>}, {})

LossReason == Entity("loss_reasons",
    {"id", "workspaceId", "label", "createdAt"},
    {}, {{"workspaceId", "label"}})

Message == Entity("messages",
    {"id", "workspaceId", "conversationId", "body", "direction", "type", "status",
     "externalMessageId", "mediaUrl", "mediaMimeType", "mediaCaption", "mediaFileName",
     "reaction", "sentAt", "createdAt", "deletedAt"},
    {}, {{"externalMessageId"}})

Pipeline == Entity("pipelines",
    {"id", "workspaceId", "name", "sigla", "isDefault", "kind", "createdAt", "updatedAt"},
    {}, {})

FeatureFlag == Entity("feature_flags",
    {"id", "key", "workspaceId", "enabled", "metadata", "createdAt", "updatedAt"},
    {}, {{"key", "workspaceId"}})

PlatformAuditLog == Entity("platform_audit_logs",
    {"id", "actorEmail", "actorUserId", "action", "targetWorkspaceId", "targetUserId",
     "metadata", "createdAt"},
    {}, {})

PlatformBroadcast == Entity("platform_broadcasts",
    {"id", "title", "body", "severity", "active", "startsAt", "endsAt", "createdByEmail",
     "createdAt", "updatedAt"},
    {}, {})

Product == Entity("products",
    {"id", "workspaceId", "name", "type", "price", "active", "createdAt", "updatedAt",
     "deletedAt"},
    {}, {{"workspaceId", "name"}})

QuickReply == Entity("quick_replies",
    {"id", "workspaceId", "title", "shortcut", "body", "category", "createdById", "createdAt",
     "updatedAt"},
    {}, {})

ScheduledMessage == Entity("scheduled_messages",
    {"id", "workspaceId", "conversationId", "body", "channelConfigId", "scheduledAt", "status",
     "createdById", "bullJobId", "createdAt"},
    {}, {})

Sector == Entity("sectors",
    {"id", "workspaceId", "name", "createdAt"},
    {}, {{"workspaceId", "name"}})

OtpVerification == Entity("otp_verifications",
    {"id", "phone", "codeHash", "purpose", "payload", "attempts", "expiresAt", "consumedAt",
     "createdAt"},
    {}, {})

StageRequiredField == Entity("stage_required_fields",
    {"id", "workspaceId", "stageId", "targetType", "fieldKey", "question", "position",
     "createdAt"},
    {}, {})

Stage == Entity("stages",
    {"id", "workspaceId", "name", "position", "color", "timeLimitDays", "pipelineId",
     "createdAt"},
    {}, {})

Plan == Entity("plans",
    {"id", "slug", "name", "description", "priceMonthlyCents", "features", "highlight",
     "active", "sortOrder", "stripePriceId", "stripeProductId", "createdAt", "updatedAt"},
    {}, {{"slug"}})

Task == Entity("tasks",
    {"id", "workspaceId", "type", "description", "dueDate", "status", "responsibleIds",
     "targetType", "targetId", "targetLabel", "location", "attachments", "createdById",
     "completedAt", "googleEventIds", "createdAt", "updatedAt"},
    {<<"type", {"email", "call", "whatsapp", "proposal", "meeting", "visit"}>>,
     <<"status", {"pending", "completed", "cancelled"}>>,
     <<"targetType", {"contact", "lead", "company"}>>}, {})

MessageTemplate == Entity("message_templates",
    {"id", "workspaceId", "name", "body", "createdById", "createdAt"},
    {}, {})

UserPreference == Entity("user_preferences",
    {"id", "userId", "key", "value", "updatedAt"},
    {}, {{"userId", "key"}})

User == Entity("users",
    {"id", "workspaceId", "name", "email", "passwordHash", "phone", "phoneVerified",
     "avatarUrl", "avatarKey", "role", "active", "scheduledDeletionAt", "createdAt", "updatedAt"},
    {<<"role", {"owner", "manager", "seller", "agent"}>>}, {})

Workspace == Entity("workspaces",
    {"id", "name", "ownerUserId", "trialStartedAt", "trialEndsAt", "subscriptionStatus",
     "planSlug", "stripeCustomerId", "stripeSubscriptionId", "currentPeriodEnd",
     "cancelAtPeriodEnd", "defaultLeadPrivacy", "widgetConfig", "createdAt", "updatedAt"},
    {}, {})

Entities ==
    {Agenda, Appointment, WorkspaceAiUsage, AppSetting, AuditLog, AutomationExecution,
     AutomationStep, Automation, ChannelConfig, Company, ContactActivity, Contact,
     Conversation, CustomerCategory, CustomerOrigin, UserIntegration, Label, LeadActivity,
     Lead, LossReason, Message, Pipeline, FeatureFlag, PlatformAuditLog, PlatformBroadcast,
     Product, QuickReply, ScheduledMessage, Sector, OtpVerification, StageRequiredField, Stage,
     Plan, Task, MessageTemplate, UserPreference, User, Workspace}
=============================================================================
