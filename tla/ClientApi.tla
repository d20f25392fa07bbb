---- MODULE ClientApi ----
(***************************************************************************)
(* The calls that the client can make: for every function of its api       *)
(* modules the verb, the path (parameters written :id) and the fields of   *)
(* the body that its type lets a screen send.                              *)
(***************************************************************************)
EXTENDS Requests

Call(verb, path, fields) == [verb |-> verb, path |-> path, fields |-> fields]
Get(path) == Call("GET", path, {})
Post(path, fields) == Call("POST", path, fields)
Patch(path, fields) == Call("PATCH", path, fields)
Put(path, fields) == Call("PUT", path, fields)
Delete(path, fields) == Call("DELETE", path, fields)

AgendasApi == [
    listAgendas |-> Get("/agendas"),
    createAgenda |-> Post("/agendas", {"name", "ownerId", "ownerName"}),
    updateAgenda |-> Patch("/agendas/:id", {"isActive", "name", "ownerId", "ownerName"}),
    deleteAgenda |-> Delete("/agendas/:id", {}),
    createAppointment |-> Post("/agendas/:id/appointments", CreateAppointmentDto \ {"service", "status"})]

AiApi == [
    summarizeConversation |-> Post("/conversations/:id/ai/summary", {})]

AnalyticsApi == [
    getAnalyticsSummary |-> Get("/analytics/summary")]

AuthApi == [
    login |-> Post("/auth/login", {"email", "password"}),
    me |-> Get("/auth/me"),
    forgotPassword |-> Post("/auth/forgot-password", {"email"}),
    verifyResetCode |-> Post("/auth/verify-reset-code", {"code", "email"}),
    resetPassword |-> Post("/auth/reset-password", {"newPassword", "resetToken"})]

AutomationsApi == [
    listAutomations |-> Get("/automations"),
    getAutomation |-> Get("/automations/:id"),
    createAutomation |-> Post("/automations", CreateAutomationDto),
    updateAutomation |-> Patch("/automations/:id", CreateAutomationDto),
    deleteAutomation |-> Delete("/automations/:id", {})]

BillingApi == [
    getMyBilling |-> Get("/billing/me"),
    createCheckoutSession |-> Post("/billing/checkout", {"planSlug"}),
    createPortalSession |-> Post("/billing/portal", {})]

ChannelsApi == [
    listChannels |-> Get("/channels"),
    createChannel |-> Post("/channels", {"config", "name", "type"}),
    deleteChannel |-> Delete("/channels/:id", {}),
    provisionChannel |-> Post("/channels/:id/provision", {}),
    refreshChannelWebhook |-> Post("/channels/:id/refresh-webhook", {}),
    getChannelQr |-> Get("/channels/:id/qr"),
    getChannel |-> Get("/channels/:id")]

CompaniesApi == [
    listCompanies |-> Get("/companies"),
    getCompany |-> Get("/companies/:id"),
    createCompany |-> Post("/companies", CreateCompanyDto),
    updateCompany |-> Patch("/companies/:id", CreateCompanyDto),
    deleteCompany |-> Delete("/companies/:id", {}),
    uploadCompanyAvatar |-> Post("/companies/:id/avatar", {"file"}),
    removeCompanyAvatar |-> Delete("/companies/:id/avatar", {})]

ContactActivitiesApi == [
    getContactActivities |-> Get("/contacts/:id/activities"),
    createContactActivity |-> Post("/contacts/:id/activities", {"body", "scheduledAt", "type"}),
    getCompanyActivities |-> Get("/companies/:id/activities"),
    createCompanyActivity |-> Post("/companies/:id/activities", {"body", "scheduledAt", "type"}),
    updateContactActivity |-> Patch("/contact-activities/:id", {"body", "scheduledAt"}),
    completeContactActivity |-> Patch("/contact-activities/:id/complete", {}),
    deleteContactActivity |-> Delete("/contact-activities/:id", {}),
    listAllActivities |-> Get("/contact-activities")]

ContactsApi == [
    listContacts |-> Get("/contacts"),
    getContact |-> Get("/contacts/:id"),
    createContact |-> Post("/contacts", UpdateContactDto),
    updateContact |-> Patch("/contacts/:id", UpdateContactDto),
    deleteContact |-> Delete("/contacts/:id", {}),
    uploadContactAvatar |-> Post("/contacts/:id/avatar", {"file"}),
    removeContactAvatar |-> Delete("/contacts/:id/avatar", {})]

ConversationsApi == [
    listInbox |-> Get("/conversations/inbox"),
    archiveConversation |-> Patch("/conversations/:id/archive", {"archive"}),
    pinConversation |-> Patch("/conversations/:id/pin", {"pinned"}),
    listConversations |-> Get("/conversations"),
    markConversationRead |-> Post("/conversations/:id/read", {}),
    qualifyConversation |-> Post("/conversations/:id/qualify", QualifyDto)]

CustomerCategoriesApi == [
    listCustomerCategories |-> Get("/customer-categories"),
    createCustomerCategory |-> Post("/customer-categories", {"name"}),
    updateCustomerCategory |-> Patch("/customer-categories/:id", {"name"}),
    deleteCustomerCategory |-> Delete("/customer-categories/:id", {})]

CustomerOriginsApi == [
    listCustomerOrigins |-> Get("/customer-origins"),
    createCustomerOrigin |-> Post("/customer-origins", {"name"}),
    updateCustomerOrigin |-> Patch("/customer-origins/:id", {"name"}),
    deleteCustomerOrigin |-> Delete("/customer-origins/:id", {})]

InboxTagsApi == [
    listInboxTags |-> Get("/inbox-tags"),
    createInboxTag |-> Post("/inbox-tags", {"color", "name"}),
    updateInboxTag |-> Patch("/inbox-tags/:id", {"color", "name"}),
    deleteInboxTag |-> Delete("/inbox-tags/:id", {}),
    setConversationInboxTag |-> Patch("/conversations/:id/inbox-tag", {"inboxTagId"})]

IntegrationsApi == [
    getGoogleAuthUrl |-> Get("/integrations/google/auth-url"),
    getGoogleStatus |-> Get("/integrations/google/status"),
    disconnectGoogle |-> Delete("/integrations/google", {})]

LabelsApi == [
    listLabels |-> Get("/labels"),
    createLabel |-> Post("/labels", {"color", "name"}),
    updateLabel |-> Patch("/labels/:id", {"color", "name", "position"}),
    deleteLabel |-> Delete("/labels/:id", {}),
    addLabelToLead |-> Post("/labels/leads/:id/:id", {}),
    removeLabelFromLead |-> Delete("/labels/leads/:id/:id", {}),
    addLabelToConversation |-> Post("/labels/conversations/:id/:id", {}),
    removeLabelFromConversation |-> Delete("/labels/conversations/:id/:id", {})]

LeadActivitiesApi == [
    getLeadActivities |-> Get("/leads/:id/activities"),
    createLeadActivity |-> Post("/leads/:id/activities", {"body", "scheduledAt", "type"}),
    updateLeadActivity |-> Patch("/leads/:id/activities/:id", {"body", "scheduledAt"}),
    completeLeadActivity |-> Patch("/leads/:id/activities/:id/complete", {}),
    deleteLeadActivity |-> Delete("/leads/:id/activities/:id", {})]

LeadsApi == [
    listLeads |-> Get("/leads"),
    listAllLeads |-> Get("/leads"),
    createLead |-> Post("/leads", {"additionalAccessUserIds", "assignedToId", "companyId", "conclusionDate", "contactId", "items", "notes", "pipelineId", "privacy", "stageId", "startDate", "title", "value"}),
    moveLead |-> Patch("/leads/:id/move", {"stageId"}),
    getLead |-> Get("/leads/:id"),
    assignLead |-> Patch("/leads/:id/assign/:id", {}),
    updateLead |-> Patch("/leads/:id", UpdateLeadDto),
    deleteLead |-> Delete("/leads/:id", {}),
    updateLeadStatus |-> Patch("/leads/:id/status", {"status"}),
    archiveLead |-> Patch("/leads/:id/archive", {}),
    unarchiveLead |-> Patch("/leads/:id/unarchive", {}),
    classifyLead |-> Post("/leads/:id/classify", {"email", "name", "phone"}),
    setLeadScore |-> Patch("/leads/:id/score", {"score"}),
    recalculateLeadScore |-> Post("/leads/:id/score/recalculate", {})]

LossReasonsApi == [
    listLossReasons |-> Get("/loss-reasons"),
    createLossReason |-> Post("/loss-reasons", {"label"}),
    updateLossReason |-> Patch("/loss-reasons/:id", {"label"}),
    deleteLossReason |-> Delete("/loss-reasons/:id", {})]

MeApi == [
    fetchDataExport |-> Get("/me/data-export"),
    scheduleAccountDeletion |-> Delete("/me/account", {}),
    cancelAccountDeletion |-> Post("/me/account/restore", {})]

MessagesApi == [
    listMessages |-> Get("/messages"),
    sendMessage |-> Post("/messages/send", {"body", "channelConfigId", "conversationId"}),
    sendMedia |-> Post("/messages/send-media", SendMediaDto \ {"body"}),
    reactMessage |-> Post("/messages/react", {"channelConfigId", "emoji", "messageId"}),
    deleteMessage |-> Delete("/messages/:id", {"channelConfigId", "messageId"}),
    transcribeAudio |-> Post("/messages/transcribe", {"audioUrl"})]

PipelinesApi == [
    listPipelines |-> Get("/pipelines"),
    getPipeline |-> Get("/pipelines/:id"),
    createPipeline |-> Post("/pipelines", CreatePipelineDto),
    updatePipeline |-> Patch("/pipelines/:id", {"isDefault", "name", "sigla"}),
    deletePipeline |-> Delete("/pipelines/:id", {})]

PlatformApi == [
    listWorkspaces |-> Get("/platform/workspaces"),
    getWorkspaceDetail |-> Get("/platform/workspaces/:id"),
    updateWorkspace |-> Patch("/platform/workspaces/:id", UpdateWorkspaceDto),
    impersonateWorkspace |-> Post("/platform/workspaces/:id/impersonate", {}),
    listPlatformChannels |-> Get("/platform/channels"),
    listSignups |-> Get("/platform/signups"),
    getSignupFunnel |-> Get("/platform/signups/funnel"),
    getPlatformMetrics |-> Get("/platform/metrics"),
    listBroadcasts |-> Get("/platform/broadcasts"),
    createBroadcast |-> Post("/platform/broadcasts", {"active", "body", "endsAt", "severity", "title"}),
    updateBroadcast |-> Patch("/platform/broadcasts/:id", {"active", "body", "endsAt", "severity", "title"}),
    deleteBroadcast |-> Delete("/platform/broadcasts/:id", {}),
    listActiveBroadcasts |-> Get("/broadcasts/active"),
    listFlags |-> Get("/platform/flags"),
    upsertFlag |-> Post("/platform/flags", UpsertFlagDto),
    deleteFlag |-> Delete("/platform/flags/:id", {}),
    listAudit |-> Get("/platform/audit")]

PreferencesApi == [
    getAllPreferences |-> Get("/me/preferences"),
    setPreference |-> Put("/me/preferences/:id", {"value"}),
    deletePreference |-> Delete("/me/preferences/:id", {})]

ProductsApi == [
    listProducts |-> Get("/products"),
    createProduct |-> Post("/products", CreateProductDto),
    updateProduct |-> Patch("/products/:id", CreateProductDto),
    deleteProduct |-> Delete("/products/:id", {})]

QuickRepliesApi == [
    listQuickReplies |-> Get("/quick-replies"),
    createQuickReply |-> Post("/quick-replies", CreateQuickReplyDto),
    updateQuickReply |-> Put("/quick-replies/:id", CreateQuickReplyDto),
    deleteQuickReply |-> Delete("/quick-replies/:id", {})]

SchedulerApi == [
    listScheduled |-> Get("/scheduled-messages"),
    scheduleMessage |-> Post("/scheduled-messages", ScheduleMessageDto),
    cancelScheduled |-> Delete("/scheduled-messages/:id", {})]

SearchApi == [
    globalSearch |-> Get("/search")]

SectorsApi == [
    listSectors |-> Get("/sectors"),
    createSector |-> Post("/sectors", {"name"}),
    updateSector |-> Patch("/sectors/:id", {"name"}),
    deleteSector |-> Delete("/sectors/:id", {})]

SignupApi == [
    signupStart |-> Post("/signup/start", SignupStartDto),
    signupVerify |-> Post("/signup/verify", {"code", "otpId"}),
    signupResend |-> Post("/signup/resend", {"otpId"}),
    getAppSettings |-> Get("/app-settings"),
    updateAppSettings |-> Put("/app-settings", {"signupEnabled", "systemChannelConfigId", "trialDays"})]

StageRequiredFieldsApi == [
    listStageRequiredFields |-> Get("/stages/:id/required-fields"),
    createStageRequiredField |-> Post("/stages/:id/required-fields", {"fieldKey", "question", "targetType"}),
    updateStageRequiredField |-> Patch("/stages/:id/required-fields/:id", {"question"}),
    deleteStageRequiredField |-> Delete("/stages/:id/required-fields/:id", {})]

StagesApi == [
    createStage |-> Post("/pipelines/:id/stages", CreateStageDto),
    updateStage |-> Patch("/pipelines/:id/stages/:id", CreateStageDto),
    deleteStage |-> Delete("/pipelines/:id/stages/:id", {})]

TasksApi == [
    listTasks |-> Get("/tasks"),
    getTask |-> Get("/tasks/:id"),
    createTask |-> Post("/tasks", CreateTaskDto),
    updateTask |-> Patch("/tasks/:id", CreateTaskDto),
    completeTask |-> Patch("/tasks/:id/complete", {}),
    cancelTask |-> Patch("/tasks/:id/cancel", {}),
    reopenTask |-> Patch("/tasks/:id/reopen", {}),
    deleteTask |-> Delete("/tasks/:id", {})]

TemplatesApi == [
    listTemplates |-> Get("/templates"),
    createTemplate |-> Post("/templates", {"body", "name"}),
    deleteTemplate |-> Delete("/templates/:id", {})]

TrashApi == [
    getTrash |-> Get("/trash"),
    getTrashByType |-> Get("/trash/:id"),
    restoreFromTrash |-> Post("/trash/:id/:id/restore", {}),
    purgeFromTrash |-> Delete("/trash/:id/:id", {})]

UsersApi == [
    listUsers |-> Get("/users"),
    listWorkspaceMembers |-> Get("/users/members"),
    createUser |-> Post("/users", CreateUserDto),
    deleteUser |-> Delete("/users/:id", {}),
    updateUserRole |-> Patch("/users/:id/role", {"role"}),
    setUserActive |-> Patch("/users/:id/active", {"active"}),
    getMe |-> Get("/users/me"),
    updateMe |-> Patch("/users/me", {"name", "phone"}),
    uploadMyAvatar |-> Post("/users/me/avatar", {"file"}),
    removeMyAvatar |-> Delete("/users/me/avatar", {}),
    sendProfileOtp |-> Post("/users/me/otp/send", {"purpose"}),
    verifyProfileOtp |-> Post("/users/me/otp/verify", {"code", "purpose"}),
    changeMyEmail |-> Patch("/users/me/email", {"email", "otpToken"}),
    changeMyPassword |-> Patch("/users/me/password", {"newPassword", "otpToken"}),
    impersonateUser |-> Post("/auth/impersonate/:id", {})]

WorkspaceApi == [
    getMyWorkspace |-> Get("/workspace/me"),
    updateWorkspaceSettings |-> Patch("/workspace/me/settings", {"defaultLeadPrivacy"}),
    listPlans |-> Get("/subscriptions/plans"),
    getMyFeatures |-> Get("/subscriptions/me/features"),
    getFeatureCatalog |-> Get("/subscriptions/features/catalog"),
    subscribePlan |-> Post("/subscriptions/subscribe", {"planSlug"}),
    cancelSubscription |-> Post("/subscriptions/cancel", {}),
    adminListPlans |-> Get("/platform/plans"),
    adminGetFeatureCatalog |-> Get("/platform/plans/catalog"),
    adminCreatePlan |-> Post("/platform/plans", CreatePlanDto),
    adminUpdatePlan |-> Patch("/platform/plans/:id", CreatePlanDto),
    adminDeletePlan |-> Delete("/platform/plans/:id", {})]

\* The calls that screens make without an api module.
ScreenApi == [
    getWidgetConfig |-> Get("/workspaces/widget-config"),
    saveWidgetConfig |-> Patch("/workspaces/widget-config", {}),
    listStages |-> Get("/pipelines/:id"),
    deleteAccount |-> Delete("/workspace/me", {}),
    markRead |-> Post("/channels/:id/mark-read", {"chatId"}),
    syncChat |-> Post("/channels/:id/sync-chat", {"chatId", "count"}),
    typing |-> Post("/channels/:id/typing", {"chatId"}),
    publicConfig |-> Get("/public/capture/:id/config"),
    capture |-> Post("/public/capture/:id", {})]
====
