---- MODULE Endpoints ----
(***************************************************************************)
(* The HTTP interface of the server: for every route of the controllers    *)
(* its guards, the body it validates and the rows it touches.  Parameters  *)
(* of a path are all written :id.  The routes of the message providers'    *)
(* webhooks, the health check and the uploaded files are not called by the *)
(* screens and are left out.                                               *)
(***************************************************************************)
EXTENDS Services, Requests, Sequences

\* The guards of a route.  AllRoles are the values of UserRole.
AllRoles == {"owner", "manager", "seller", "agent"}
Anyone == [open |-> TRUE, roles |-> AllRoles, admin |-> FALSE, feature |-> FALSE]
Members == [Anyone EXCEPT !.open = FALSE]
Only(roles) == [Members EXCEPT !.roles = roles]
PlatformAdmins == [Members EXCEPT !.admin = TRUE]
WithFeature(guard) == [guard EXCEPT !.feature = TRUE]

\* A body is validated against a DTO, or is declared inline and taken as it comes.
Body(fields) == [checked |-> TRUE, fields |-> fields]
AnyBody == [checked |-> FALSE, fields |-> {}]

Route(verb, path, guard, body, rows) ==
    [verb |-> verb, path |-> path, guard |-> guard, body |-> body, rows |-> rows]

Both(services) ==
    Rows(UNION {services[i].reads : i \in DOMAIN services},
         UNION {services[i].writes : i \in DOMAIN services},
         UNION {services[i].events : i \in DOMAIN services})

StageRequiredFieldsController == {
    Route("GET", "/stages/:id/required-fields", Members, AnyBody,
          StageRequiredFieldsService.findByStage),
    Route("POST", "/stages/:id/required-fields", Only({"owner"}), Body(CreateStageRequiredFieldDto),
          StageRequiredFieldsService.create),
    Route("PATCH", "/stages/:id/required-fields/:id", Only({"owner"}), Body(UpdateStageRequiredFieldDto),
          StageRequiredFieldsService.update),
    Route("DELETE", "/stages/:id/required-fields/:id", Only({"owner"}), AnyBody,
          StageRequiredFieldsService.remove)}

AiController == {
    Route("POST", "/conversations/:id/ai/summary", WithFeature(Members), AnyBody,
          ConversationSummaryService.summarize)}

CompaniesController == {
    Route("POST", "/companies", Members, Body(CreateCompanyDto),
          CompaniesService.create),
    Route("GET", "/companies", Members, AnyBody,
          CompaniesService.findAll),
    Route("GET", "/companies/:id", Members, AnyBody,
          CompaniesService.findOne),
    Route("PATCH", "/companies/:id", Members, Body(UpdateCompanyDto),
          CompaniesService.update),
    Route("DELETE", "/companies/:id", Members, AnyBody,
          CompaniesService.remove),
    Route("POST", "/companies/:id/avatar", Members, AnyBody,
          CompaniesService.updateAvatar),
    Route("DELETE", "/companies/:id/avatar", Members, AnyBody,
          CompaniesService.removeAvatar)}

CustomerCategoriesController == {
    Route("GET", "/customer-categories", Members, AnyBody,
          CustomerCategoriesService.findAll),
    Route("POST", "/customer-categories", Only({"owner"}), Body(CreateCustomerCategoryDto),
          CustomerCategoriesService.create),
    Route("PATCH", "/customer-categories/:id", Only({"owner"}), Body(UpdateCustomerCategoryDto),
          CustomerCategoriesService.update),
    Route("DELETE", "/customer-categories/:id", Only({"owner"}), AnyBody,
          CustomerCategoriesService.remove)}

AgendasController == {
    Route("POST", "/agendas", Members, Body(CreateAgendaDto),
          AgendasService.create),
    Route("GET", "/agendas", Members, AnyBody,
          AgendasService.findAll),
    Route("GET", "/agendas/:id", Members, AnyBody,
          AgendasService.findOne),
    Route("PATCH", "/agendas/:id", Members, Body(UpdateAgendaDto),
          AgendasService.update),
    Route("DELETE", "/agendas/:id", Members, AnyBody,
          AgendasService.remove),
    Route("GET", "/agendas/:id/slots", Members, AnyBody,
          AgendasService.getAvailableSlots),
    Route("POST", "/agendas/:id/appointments", Members, Body(CreateAppointmentDto),
          AgendasService.createAppointment),
    Route("GET", "/agendas/:id/appointments", Members, AnyBody,
          AgendasService.listAppointments),
    Route("PATCH", "/agendas/:id/appointments/:id", Members, Body(CreateAppointmentDto),
          AgendasService.updateAppointment),
    Route("DELETE", "/agendas/:id/appointments/:id", Members, AnyBody,
          AgendasService.cancelAppointment)}

LeadActivitiesController == {
    Route("GET", "/leads/:id/activities", Members, AnyBody,
          LeadActivitiesService.findByLead),
    Route("POST", "/leads/:id/activities", Members, Body(CreateLeadActivityDto),
          LeadActivitiesService.create),
    Route("PATCH", "/leads/:id/activities/:id", Members, Body(UpdateLeadActivityDto),
          LeadActivitiesService.update),
    Route("PATCH", "/leads/:id/activities/:id/complete", Members, AnyBody,
          LeadActivitiesService.complete),
    Route("DELETE", "/leads/:id/activities/:id", Members, AnyBody,
          LeadActivitiesService.remove)}

UserPreferencesController == {
    Route("GET", "/me/preferences", Members, AnyBody,
          UserPreferencesService.getAll),
    Route("PUT", "/me/preferences/:id", Members, AnyBody,
          UserPreferencesService.set),
    Route("DELETE", "/me/preferences/:id", Members, AnyBody,
          UserPreferencesService.remove)}

UsersController == {
    Route("GET", "/users/me", Members, AnyBody,
          UsersService.getProfile),
    Route("PATCH", "/users/me", Members, Body(UpdateProfileDto),
          UsersService.updateProfile),
    Route("POST", "/users/me/avatar", Members, AnyBody,
          UsersService.updateAvatar),
    Route("DELETE", "/users/me/avatar", Members, AnyBody,
          UsersService.removeAvatar),
    Route("POST", "/users/me/otp/send", Members, Body(SendProfileOtpDto),
          Both(<<UsersService.getProfile, OtpService.send>>)),
    Route("POST", "/users/me/otp/verify", Members, Body(VerifyProfileOtpDto),
          NoRows),
    Route("PATCH", "/users/me/email", Members, Body(ChangeEmailDto),
          UsersService.setEmail),
    Route("PATCH", "/users/me/password", Members, Body(ChangePasswordDto),
          UsersService.setPassword),
    Route("POST", "/users", Only({"owner"}), Body(CreateUserDto),
          UsersService.create),
    Route("GET", "/users/members", Members, AnyBody,
          UsersService.findMembers),
    Route("GET", "/users", Only({"owner"}), AnyBody,
          UsersService.findAll),
    Route("PATCH", "/users/:id/role", Only({"owner"}), AnyBody,
          UsersService.updateRole),
    Route("PATCH", "/users/:id/active", Only({"owner"}), AnyBody,
          UsersService.setActive),
    Route("DELETE", "/users/:id", Only({"owner"}), AnyBody,
          UsersService.remove)}

AuthController == {
    Route("POST", "/auth/login", Anyone, Body(LoginDto),
          AuthService.login),
    Route("GET", "/auth/me", Members, AnyBody,
          AuthService.me),
    Route("POST", "/auth/forgot-password", Anyone, Body(ForgotPasswordDto),
          AuthService.forgotPassword),
    Route("POST", "/auth/verify-reset-code", Anyone, Body(VerifyCodeDto),
          AuthService.verifyResetCode),
    Route("POST", "/auth/reset-password", Anyone, Body(ResetPasswordDto),
          AuthService.resetPassword),
    Route("POST", "/auth/impersonate/:id", Only({"owner"}), AnyBody,
          AuthService.impersonate)}

QuickRepliesController == {
    Route("GET", "/quick-replies", Members, AnyBody,
          QuickRepliesService.findAll),
    Route("POST", "/quick-replies", Members, Body(CreateQuickReplyDto),
          QuickRepliesService.create),
    Route("PUT", "/quick-replies/:id", Members, Body(UpdateQuickReplyDto),
          QuickRepliesService.update),
    Route("DELETE", "/quick-replies/:id", Members, AnyBody,
          QuickRepliesService.remove)}

LossReasonsController == {
    Route("GET", "/loss-reasons", Members, AnyBody,
          LossReasonsService.findAll),
    Route("POST", "/loss-reasons", Only({"owner"}), Body(CreateLossReasonDto),
          LossReasonsService.create),
    Route("PATCH", "/loss-reasons/:id", Only({"owner"}), Body(UpdateLossReasonDto),
          LossReasonsService.update),
    Route("DELETE", "/loss-reasons/:id", Only({"owner"}), AnyBody,
          LossReasonsService.remove)}

TasksController == {
    Route("POST", "/tasks", Members, Body(CreateTaskDto),
          TasksService.create),
    Route("GET", "/tasks", Members, AnyBody,
          TasksService.findAll),
    Route("GET", "/tasks/:id", Members, AnyBody,
          TasksService.findOne),
    Route("PATCH", "/tasks/:id", Members, Body(UpdateTaskDto),
          TasksService.update),
    Route("PATCH", "/tasks/:id/complete", Members, AnyBody,
          TasksService.complete),
    Route("PATCH", "/tasks/:id/cancel", Members, AnyBody,
          TasksService.cancel),
    Route("PATCH", "/tasks/:id/reopen", Members, AnyBody,
          TasksService.reopen),
    Route("DELETE", "/tasks/:id", Members, AnyBody,
          TasksService.remove)}

WorkspacesController == {
    Route("GET", "/workspace/me", Members, AnyBody,
          WorkspacesService.findOneWithTrial),
    Route("PATCH", "/workspace/me/settings", Only({"owner"}), AnyBody,
          WorkspacesService.updateSettings),
    Route("DELETE", "/workspace/me", Only({"owner"}), AnyBody,
          WorkspacesService.deleteWorkspaceAndAllData)}

PipelinesController == {
    Route("POST", "/pipelines", Only({"owner"}), Body(CreatePipelineDto),
          PipelinesService.create),
    Route("GET", "/pipelines", Members, AnyBody,
          PipelinesService.findAll),
    Route("GET", "/pipelines/:id", Members, AnyBody,
          PipelinesService.findOne),
    Route("PATCH", "/pipelines/:id", Only({"owner"}), Body(UpdatePipelineDto),
          PipelinesService.update),
    Route("POST", "/pipelines/:id/stages", Only({"owner"}), Body(CreateStageDto),
          StagesService.create),
    Route("DELETE", "/pipelines/:id", Only({"owner"}), AnyBody,
          PipelinesService.remove),
    Route("PATCH", "/pipelines/:id/stages/:id", Only({"owner"}), Body(UpdateStageDto),
          StagesService.update),
    Route("DELETE", "/pipelines/:id/stages/:id", Only({"owner"}), AnyBody,
          StagesService.remove)}

ConversationsController == {
    Route("GET", "/conversations/inbox", WithFeature(Members), AnyBody,
          ConversationsService.findInbox),
    Route("GET", "/conversations", Members, AnyBody,
          ConversationsService.findByLead),
    Route("GET", "/conversations/:id", Members, AnyBody,
          ConversationsService.findOne),
    Route("POST", "/conversations/:id/read", Members, AnyBody,
          ConversationsService.markAsRead),
    Route("POST", "/conversations/:id/qualify", Members, Body(QualifyDto),
          ConversationsService.qualify),
    Route("PATCH", "/conversations/:id/archive", Members, AnyBody,
          ConversationsService.setArchived),
    Route("PATCH", "/conversations/:id/pin", Members, AnyBody,
          ConversationsService.setPin)}

ChannelsController == {
    Route("POST", "/channels", WithFeature(Only({"owner"})), Body(CreateChannelDto),
          ChannelsService.create),
    Route("GET", "/channels", WithFeature(Members), AnyBody,
          ChannelsService.findAll),
    Route("GET", "/channels/:id", WithFeature(Members), AnyBody,
          ChannelsService.findById),
    Route("DELETE", "/channels/:id", WithFeature(Only({"owner"})), AnyBody,
          ChannelsService.remove),
    Route("POST", "/channels/:id/provision", WithFeature(Only({"owner"})), AnyBody,
          ChannelsService.provisionInstance),
    Route("POST", "/channels/:id/refresh-webhook", WithFeature(Only({"owner"})), AnyBody,
          ChannelsService.refreshWebhook),
    Route("POST", "/channels/:id/check-number", WithFeature(Members), Body(CheckNumberDto),
          ChannelsService.checkNumber),
    Route("GET", "/channels/:id/wa-limits", WithFeature(Members), AnyBody,
          ChannelsService.getWaLimits),
    Route("POST", "/channels/:id/typing", WithFeature(Members), Body(TypingDto),
          ChannelsService.sendTyping),
    Route("POST", "/channels/:id/mark-read", WithFeature(Members), Body(MarkReadDto),
          ChannelsService.markRead),
    Route("POST", "/channels/:id/sync-chat", WithFeature(Members), Body(SyncChatDto),
          ChannelsService.syncChatHistory),
    Route("GET", "/channels/:id/qr", WithFeature(Members), AnyBody,
          ChannelsService.getQrCode)}

MeController == {
    Route("GET", "/me/data-export", Members, AnyBody,
          MeService.exportData),
    Route("DELETE", "/me/account", Members, AnyBody,
          MeService.scheduleAccountDeletion),
    Route("POST", "/me/account/restore", Members, AnyBody,
          MeService.cancelAccountDeletion)}

SearchController == {
    Route("GET", "/search", Members, AnyBody,
          SearchService.search)}

LabelsController == {
    Route("GET", "/labels", Members, AnyBody,
          LabelsService.findAll),
    Route("POST", "/labels", Members, Body(CreateLabelDto),
          LabelsService.create),
    Route("PATCH", "/labels/:id", Members, Body(UpdateLabelDto),
          LabelsService.update),
    Route("DELETE", "/labels/:id", Members, AnyBody,
          LabelsService.remove),
    Route("POST", "/labels/leads/:id/:id", Members, AnyBody,
          LabelsService.addToLead),
    Route("DELETE", "/labels/leads/:id/:id", Members, AnyBody,
          LabelsService.removeFromLead),
    Route("POST", "/labels/conversations/:id/:id", Members, AnyBody,
          LabelsService.addToConversation),
    Route("DELETE", "/labels/conversations/:id/:id", Members, AnyBody,
          LabelsService.removeFromConversation)}

SchedulerController == {
    Route("POST", "/scheduled-messages", Members, Body(ScheduleMessageDto),
          SchedulerService.schedule),
    Route("GET", "/scheduled-messages", Members, AnyBody,
          Both(<<SchedulerService.findByConversation, SchedulerService.findAll>>)),
    Route("DELETE", "/scheduled-messages/:id", Members, AnyBody,
          SchedulerService.cancel)}

SectorsController == {
    Route("GET", "/sectors", Members, AnyBody,
          SectorsService.findAll),
    Route("POST", "/sectors", Only({"owner"}), Body(CreateSectorDto),
          SectorsService.create),
    Route("PATCH", "/sectors/:id", Only({"owner"}), Body(UpdateSectorDto),
          SectorsService.update),
    Route("DELETE", "/sectors/:id", Only({"owner"}), AnyBody,
          SectorsService.remove)}

TemplatesController == {
    Route("POST", "/templates", WithFeature(Members), Body(CreateTemplateDto),
          TemplatesService.create),
    Route("GET", "/templates", WithFeature(Members), AnyBody,
          TemplatesService.findAll),
    Route("DELETE", "/templates/:id", WithFeature(Members), AnyBody,
          TemplatesService.remove)}

LeadsController == {
    Route("POST", "/leads", Members, Body(CreateLeadDto),
          LeadsService.create),
    Route("GET", "/leads", Members, AnyBody,
          Both(<<LeadsService.findAll, LeadsService.findByPipeline>>)),
    Route("GET", "/leads/:id", Members, AnyBody,
          LeadsService.findOneAccessible),
    Route("PATCH", "/leads/:id", Members, Body(UpdateLeadDto),
          LeadsService.update),
    Route("PATCH", "/leads/:id/status", Members, Body(UpdateLeadStatusDto),
          LeadsService.updateStatus),
    Route("PATCH", "/leads/:id/move", Members, Body(MoveLeadDto),
          LeadsService.move),
    Route("PATCH", "/leads/:id/assign/:id", Members, AnyBody,
          LeadsService.assign),
    Route("PATCH", "/leads/:id/archive", Members, AnyBody,
          LeadsService.archive),
    Route("PATCH", "/leads/:id/unarchive", Members, AnyBody,
          LeadsService.unarchive),
    Route("POST", "/leads/:id/classify", Members, Body(ClassifyLeadDto),
          LeadsService.classify),
    Route("PATCH", "/leads/:id/score", Members, Body(SetLeadScoreDto),
          LeadsService.setScore),
    Route("POST", "/leads/:id/score/recalculate", Members, AnyBody,
          LeadsService.recalculateScore),
    Route("DELETE", "/leads/:id", Only({"owner"}), AnyBody,
          LeadsService.remove)}

ContactsController == {
    Route("POST", "/contacts", Members, Body(CreateContactDto),
          ContactsService.create),
    Route("GET", "/contacts", Members, AnyBody,
          ContactsService.findAll),
    Route("POST", "/contacts/import", Only({"owner"}), AnyBody,
          ContactsService.bulkCreate),
    Route("GET", "/contacts/:id", Members, AnyBody,
          ContactsService.findOne),
    Route("PATCH", "/contacts/:id", Members, Body(UpdateContactDto),
          ContactsService.update),
    Route("DELETE", "/contacts/:id", Members, AnyBody,
          ContactsService.remove),
    Route("POST", "/contacts/:id/avatar", Members, AnyBody,
          ContactsService.updateAvatar),
    Route("DELETE", "/contacts/:id/avatar", Members, AnyBody,
          ContactsService.removeAvatar)}

BillingController == {
    Route("GET", "/billing/me", Members, AnyBody,
          BillingService.getMyBilling),
    Route("POST", "/billing/checkout", Only({"owner"}), Body(CheckoutDto),
          BillingService.createCheckoutSession),
    Route("POST", "/billing/portal", Only({"owner"}), AnyBody,
          BillingService.createPortalSession),
    Route("POST", "/billing/webhook", Anyone, AnyBody,
          BillingService.handleWebhook)}

IntegrationsController == {
    Route("GET", "/integrations/google/auth-url", Members, AnyBody,
          NoRows),
    Route("GET", "/integrations/google/callback", Anyone, AnyBody,
          GoogleCalendarService.handleCallback),
    Route("GET", "/integrations/google/status", Members, AnyBody,
          GoogleCalendarService.getStatus),
    Route("DELETE", "/integrations/google", Members, AnyBody,
          GoogleCalendarService.disconnect)}

ContactActivitiesController == {
    Route("GET", "/contact-activities", Members, AnyBody,
          ContactActivitiesService.findAll),
    Route("GET", "/contacts/:id/activities", Members, AnyBody,
          ContactActivitiesService.findByContact),
    Route("POST", "/contacts/:id/activities", Members, Body(CreateContactActivityDto),
          ContactActivitiesService.create),
    Route("GET", "/companies/:id/activities", Members, AnyBody,
          ContactActivitiesService.findByCompany),
    Route("POST", "/companies/:id/activities", Members, Body(CreateContactActivityDto),
          ContactActivitiesService.create),
    Route("PATCH", "/contact-activities/:id", Members, Body(UpdateContactActivityDto),
          ContactActivitiesService.update),
    Route("PATCH", "/contact-activities/:id/complete", Members, AnyBody,
          ContactActivitiesService.complete),
    Route("DELETE", "/contact-activities/:id", Members, AnyBody,
          ContactActivitiesService.remove)}

SignupController == {
    Route("POST", "/signup/start", Anyone, Body(SignupStartDto),
          SignupService.start),
    Route("POST", "/signup/verify", Anyone, Body(SignupVerifyDto),
          SignupService.verify),
    Route("POST", "/signup/resend", Anyone, Body(SignupResendDto),
          SignupService.resend)}

CaptureController == {
    Route("GET", "/public/capture/:id/config", Anyone, AnyBody,
          CaptureService.getPublicConfig),
    Route("POST", "/public/capture/:id", Anyone, AnyBody,
          CaptureService.capture),
    Route("PATCH", "/workspaces/widget-config", Only({"manager", "owner"}), AnyBody,
          CaptureService.updateConfig),
    Route("GET", "/workspaces/widget-config", Members, AnyBody,
          CaptureService.getPrivateConfig)}

ProductsController == {
    Route("GET", "/products", Members, AnyBody,
          ProductsService.findAll),
    Route("POST", "/products", Members, Body(CreateProductDto),
          ProductsService.create),
    Route("PATCH", "/products/:id", Members, Body(UpdateProductDto),
          ProductsService.update),
    Route("DELETE", "/products/:id", Members, AnyBody,
          ProductsService.remove)}

MessagesController == {
    Route("GET", "/messages", Members, AnyBody,
          MessagesService.findByConversation),
    Route("POST", "/messages/send", Members, Body(SendMessageDto),
          Both(<<ConversationsService.findOne, MessagesService.saveOutbound, ChannelsService.send, MessagesService.updateOutboundResult, MessagesService.markOutboundFailed>>)),
    Route("POST", "/messages/send-media", Members, Body(SendMediaDto),
          Both(<<ConversationsService.findOne, MessagesService.saveOutbound, ChannelsService.send, MessagesService.updateOutboundResult, MessagesService.markOutboundFailed>>)),
    Route("POST", "/messages/react", Members, Body(ReactMessageDto),
          ChannelsService.reactToMessage),
    Route("POST", "/messages/transcribe", Members, Body(TranscribeDto),
          NoRows),
    Route("DELETE", "/messages/:id", Members, Body(DeleteMessageDto),
          Both(<<ChannelsService.deleteMessage, MessagesService.softDelete>>))}

TrashController == {
    Route("GET", "/trash", Only({"manager", "owner"}), AnyBody,
          TrashService.listAll),
    Route("GET", "/trash/:id", Only({"manager", "owner"}), AnyBody,
          TrashService.list),
    Route("POST", "/trash/:id/:id/restore", Only({"manager", "owner"}), AnyBody,
          TrashService.restore),
    Route("DELETE", "/trash/:id/:id", Only({"manager", "owner"}), AnyBody,
          TrashService.purgeOne)}

PlatformAdminController == {
    Route("GET", "/platform/workspaces", PlatformAdmins, AnyBody,
          PlatformAdminService.listWorkspaces),
    Route("GET", "/platform/workspaces/:id", PlatformAdmins, AnyBody,
          PlatformAdminService.getWorkspace),
    Route("PATCH", "/platform/workspaces/:id", PlatformAdmins, Body(UpdateWorkspaceDto),
          PlatformAdminService.updateWorkspace),
    Route("POST", "/platform/workspaces/:id/impersonate", PlatformAdmins, AnyBody,
          PlatformAdminService.impersonate),
    Route("GET", "/platform/channels", PlatformAdmins, AnyBody,
          PlatformAdminService.listChannels),
    Route("GET", "/platform/signups", PlatformAdmins, AnyBody,
          PlatformAdminService.listSignups),
    Route("GET", "/platform/signups/funnel", PlatformAdmins, AnyBody,
          PlatformAdminService.signupFunnel),
    Route("GET", "/platform/metrics", PlatformAdmins, AnyBody,
          PlatformAdminService.metrics),
    Route("GET", "/platform/broadcasts", PlatformAdmins, AnyBody,
          PlatformAdminService.listBroadcasts),
    Route("POST", "/platform/broadcasts", PlatformAdmins, Body(BroadcastDto),
          PlatformAdminService.createBroadcast),
    Route("PATCH", "/platform/broadcasts/:id", PlatformAdmins, Body(UpdateBroadcastDto),
          PlatformAdminService.updateBroadcast),
    Route("DELETE", "/platform/broadcasts/:id", PlatformAdmins, AnyBody,
          PlatformAdminService.deleteBroadcast),
    Route("GET", "/platform/flags", PlatformAdmins, AnyBody,
          PlatformAdminService.listFlags),
    Route("POST", "/platform/flags", PlatformAdmins, Body(UpsertFlagDto),
          PlatformAdminService.upsertFlag),
    Route("DELETE", "/platform/flags/:id", PlatformAdmins, AnyBody,
          PlatformAdminService.deleteFlag),
    Route("GET", "/platform/audit", PlatformAdmins, AnyBody,
          PlatformAdminService.listAudit)}

BroadcastsPublicController == {
    Route("GET", "/broadcasts/active", Members, AnyBody,
          PlatformAdminService.activeBroadcasts)}

CustomerOriginsController == {
    Route("GET", "/customer-origins", Members, AnyBody,
          CustomerOriginsService.findAll),
    Route("POST", "/customer-origins", Only({"owner"}), Body(CreateCustomerOriginDto),
          CustomerOriginsService.create),
    Route("PATCH", "/customer-origins/:id", Only({"owner"}), Body(UpdateCustomerOriginDto),
          CustomerOriginsService.update),
    Route("DELETE", "/customer-origins/:id", Only({"owner"}), AnyBody,
          CustomerOriginsService.remove)}

SubscriptionsController == {
    Route("GET", "/subscriptions/plans", Members, AnyBody,
          SubscriptionsService.listPlans),
    Route("GET", "/subscriptions/features/catalog", Members, AnyBody,
          NoRows),
    Route("GET", "/subscriptions/me/features", Members, AnyBody,
          SubscriptionsService.getMyFeatures),
    Route("POST", "/subscriptions/subscribe", Only({"owner"}), Body(SubscribeDto),
          SubscriptionsService.subscribe),
    Route("POST", "/subscriptions/cancel", Only({"owner"}), AnyBody,
          SubscriptionsService.cancel)}

PlatformPlansController == {
    Route("GET", "/platform/plans", PlatformAdmins, AnyBody,
          SubscriptionsService.adminListPlans),
    Route("GET", "/platform/plans/catalog", PlatformAdmins, AnyBody,
          NoRows),
    Route("POST", "/platform/plans", PlatformAdmins, Body(CreatePlanDto),
          SubscriptionsService.adminCreatePlan),
    Route("PATCH", "/platform/plans/:id", PlatformAdmins, Body(UpdatePlanDto),
          SubscriptionsService.adminUpdatePlan),
    Route("DELETE", "/platform/plans/:id", PlatformAdmins, AnyBody,
          SubscriptionsService.adminDeletePlan)}

AnalyticsController == {
    Route("GET", "/analytics/summary", Members, AnyBody,
          AnalyticsService.getSummary)}

AutomationsController == {
    Route("GET", "/automations", WithFeature(Only({"owner"})), AnyBody,
          AutomationsService.findAll),
    Route("GET", "/automations/:id", WithFeature(Only({"owner"})), AnyBody,
          AutomationsService.findOne),
    Route("POST", "/automations", WithFeature(Only({"owner"})), Body(CreateAutomationDto),
          AutomationsService.create),
    Route("PATCH", "/automations/:id", WithFeature(Only({"owner"})), Body(UpdateAutomationDto),
          AutomationsService.update),
    Route("DELETE", "/automations/:id", WithFeature(Only({"owner"})), AnyBody,
          AutomationsService.remove)}

AppSettingsController == {
    Route("GET", "/app-settings", PlatformAdmins, AnyBody,
          AppSettingsService.get),
    Route("PUT", "/app-settings", PlatformAdmins, Body(UpdateAppSettingsDto),
          AppSettingsService.update)}

AllRoutes == UNION {StageRequiredFieldsController, AiController, CompaniesController,
                    CustomerCategoriesController, AgendasController, LeadActivitiesController,
                    UserPreferencesController, UsersController, AuthController,
                    QuickRepliesController, LossReasonsController, TasksController,
                    WorkspacesController, PipelinesController, ConversationsController,
                    ChannelsController, MeController, SearchController, LabelsController,
                    SchedulerController, SectorsController, TemplatesController,
                    LeadsController, ContactsController, BillingController,
                    IntegrationsController, ContactActivitiesController, SignupController,
                    CaptureController, ProductsController, MessagesController, TrashController,
                    PlatformAdminController, BroadcastsPublicController,
                    CustomerOriginsController, SubscriptionsController,
                    PlatformPlansController, AnalyticsController, AutomationsController,
                    AppSettingsController}
====
