---- MODULE Services ----
(***************************************************************************)
(* What the services of the server touch.  A service is a record with one  *)
(* field per method: the tables that the method (with the methods it       *)
(* calls) reads, the tables it writes and the events it emits.  Methods    *)
(* that touch no table are left out, and so is everything about the rows   *)
(* but the table they are in: this is what decides which answers of the    *)
(* server a write changes.                                                 *)
(***************************************************************************)

Rows(reads, writes, events) == [reads |-> reads, writes |-> writes, events |-> events]
NoRows == Rows({}, {}, {})
Reads(tables) == Rows(tables, {}, {})
Writes(tables) == Rows({}, tables, {})
ReadsWrites(reads, writes) == Rows(reads, writes, {})
Emits(reads, writes, events) == Rows(reads, writes, events)

\* The tables that the relations of a lead reach.
LeadGraph == {"companies", "contacts", "leads", "pipelines", "stages", "users"}

AgendasService == [
    create |-> Writes({"agendas"}),
    findAll |-> Reads({"agendas"}),
    findOne |-> Reads({"agendas"}),
    update |-> ReadsWrites({"agendas"}, {"agendas"}),
    remove |-> ReadsWrites({"agendas"}, {"agendas"}),
    getAvailableSlots |-> Reads({"agendas", "appointments"}),
    createAppointment |-> ReadsWrites({"agendas", "appointments"}, {"appointments"}),
    listAppointments |-> Reads({"agendas", "appointments"}),
    cancelAppointment |-> ReadsWrites({"agendas", "appointments"}, {"appointments"}),
    updateAppointment |-> ReadsWrites({"agendas", "appointments"}, {"appointments"})]

AnalyticsService == [
    getSummary |-> Reads({"contacts", "leads", "pipelines", "stages", "users"})]

AppSettingsService == [
    get |-> ReadsWrites({"app_settings"}, {"app_settings"}),
    update |-> ReadsWrites({"app_settings"}, {"app_settings"}),
    getSystemChannelId |-> ReadsWrites({"app_settings"}, {"app_settings"})]

AuthService == [
    login |-> Reads({"users"}),
    me |-> Reads({"users"}),
    impersonate |-> Reads({"users"}),
    forgotPassword |-> Reads({"channel_configs", "users"}),
    verifyResetCode |-> Reads({"users"}),
    resetPassword |-> Writes({"users"})]

AutomationsService == [
    create |-> ReadsWrites({"automation_steps", "automations"}, {"automation_steps", "automations"}),
    update |-> ReadsWrites({"automation_steps", "automations", "pipelines", "stages"}, {"automation_steps", "automations"}),
    findAll |-> Reads({"automation_steps", "automations", "pipelines", "stages"}),
    findOne |-> Reads({"automation_steps", "automations", "pipelines", "stages"}),
    findActiveByStage |-> Reads({"automation_steps", "automations"}),
    findActiveByPipeline |-> Reads({"automation_steps", "automations"}),
    remove |-> Writes({"automations"})]

BillingService == [
    appUrl |-> ReadsWrites({"users"}, {"workspaces"}),
    ensureCustomer |-> ReadsWrites({"users"}, {"workspaces"}),
    createCheckoutSession |-> ReadsWrites({"plans", "users", "workspaces"}, {"workspaces"}),
    createPortalSession |-> ReadsWrites({"users", "workspaces"}, {"workspaces"}),
    handleWebhook |-> ReadsWrites({"plans", "workspaces"}, {"workspaces"}),
    onCheckoutCompleted |-> Writes({"workspaces"}),
    onSubscriptionUpdated |-> ReadsWrites({"plans", "workspaces"}, {"workspaces"}),
    onSubscriptionDeleted |-> ReadsWrites({"workspaces"}, {"workspaces"}),
    onPaymentFailed |-> Reads({"workspaces"}),
    getMyBilling |-> Reads({"workspaces"})]

CaptureService == [
    getPublicConfig |-> Reads({"workspaces"}),
    getPrivateConfig |-> Reads({"workspaces"}),
    capture |-> ReadsWrites({"companies", "contacts", "stages", "workspaces"}, {"companies", "contacts", "leads"}),
    updateConfig |-> ReadsWrites({"workspaces"}, {"workspaces"})]

ChannelsService == [
    send |-> Reads({"channel_configs"}),
    create |-> ReadsWrites({"channel_configs"}, {"channel_configs"}),
    findAll |-> Reads({"channel_configs"}),
    findById |-> Reads({"channel_configs"}),
    findByIdUnscoped |-> Reads({"channel_configs"}),
    updateStatus |-> Writes({"channel_configs"}),
    updateConfig |-> ReadsWrites({"channel_configs"}, {"channel_configs"}),
    remove |-> Writes({"channel_configs"}),
    getQrCode |-> Reads({"channel_configs"}),
    provisionInstance |-> Reads({"channel_configs"}),
    refreshWebhook |-> Reads({"channel_configs"}),
    sendTyping |-> Reads({"channel_configs"}),
    markRead |-> Reads({"channel_configs"}),
    reactToMessage |-> Reads({"channel_configs"}),
    deleteMessage |-> Reads({"channel_configs"}),
    checkNumber |-> Reads({"channel_configs"}),
    getWaLimits |-> Reads({"channel_configs"}),
    syncChatHistory |-> Emits({"channel_configs"}, {}, {"message.inbound.received", "message.outbound.fromphone"})]

CompaniesService == [
    create |-> Writes({"companies"}),
    findAll |-> Reads({"companies", "users"}),
    findOne |-> Reads({"companies", "users"}),
    update |-> ReadsWrites({"companies", "users"}, {"companies"}),
    remove |-> Writes({"companies"}),
    updateAvatar |-> ReadsWrites({"companies", "users"}, {"companies"}),
    removeAvatar |-> ReadsWrites({"companies", "users"}, {"companies"})]

ContactActivitiesService == [
    create |-> Writes({"contact_activities"}),
    findAll |-> Reads({"companies", "contact_activities", "contacts", "users"}),
    findByContact |-> Reads({"contact_activities", "users"}),
    findByCompany |-> Reads({"contact_activities", "users"}),
    update |-> ReadsWrites({"contact_activities"}, {"contact_activities"}),
    complete |-> ReadsWrites({"contact_activities"}, {"contact_activities"}),
    remove |-> Writes({"contact_activities"})]

ContactsService == [
    create |-> Writes({"contacts"}),
    findAll |-> Reads({"contacts", "leads"}),
    findOne |-> Reads({"contacts", "leads"}),
    findOrCreateByPhone |-> ReadsWrites({"contacts"}, {"contacts"}),
    findByPhone |-> Reads({"contacts"}),
    update |-> ReadsWrites({"contacts", "leads"}, {"contacts"}),
    remove |-> ReadsWrites({"contacts"}, {"contacts", "conversations", "leads"}),
    updateAvatar |-> ReadsWrites({"contacts", "leads"}, {"contacts"}),
    removeAvatar |-> ReadsWrites({"contacts", "leads"}, {"contacts"}),
    bulkCreate |-> ReadsWrites({"contacts"}, {"contacts"})]

ConversationSummaryService == [
    summarize |-> ReadsWrites({"conversations", "messages", "workspace_ai_usage"}, {"workspace_ai_usage"})]

ConversationsService == [
    findOrCreate |-> ReadsWrites({"conversations"}, {"conversations"}),
    findOrCreateUnqualified |-> ReadsWrites({"conversations"}, {"conversations"}),
    create |-> ReadsWrites({"conversations"}, {"conversations"}),
    findByLead |-> Reads({"conversations"}),
    findOne |-> Reads({"conversations"}),
    qualify |-> ReadsWrites(LeadGraph \cup {"conversations", "customer_origins"}, {"companies", "contacts", "conversations", "leads"}),
    findInbox |-> Reads({"contacts", "conversations", "labels", "leads", "messages", "users"}),
    setPin |-> Writes({"conversations"}),
    setArchived |-> Writes({"conversations"}),
    unarchiveOnNewMessage |-> ReadsWrites({"conversations"}, {"conversations"}),
    markAsRead |-> Writes({"conversations"}),
    updateFromAvatar |-> Writes({"conversations"}),
    updateFromName |-> Writes({"conversations"})]

CustomerCategoriesService == [
    findAll |-> Reads({"customer_categories"}),
    create |-> ReadsWrites({"customer_categories"}, {"customer_categories"}),
    update |-> ReadsWrites({"customer_categories"}, {"customer_categories"}),
    remove |-> Writes({"customer_categories"})]

CustomerOriginsService == [
    findAll |-> ReadsWrites({"customer_origins"}, {"customer_origins"}),
    create |-> ReadsWrites({"customer_origins"}, {"customer_origins"}),
    update |-> ReadsWrites({"customer_origins"}, {"customer_origins"}),
    remove |-> Writes({"customer_origins"})]

GoogleCalendarService == [
    handleCallback |-> Writes({"user_integrations"}),
    disconnect |-> Writes({"user_integrations"}),
    getStatus |-> Reads({"user_integrations"}),
    getValidClient |-> ReadsWrites({"user_integrations"}, {"user_integrations"}),
    createEvent |-> ReadsWrites({"user_integrations"}, {"user_integrations"}),
    deleteEvent |-> ReadsWrites({"user_integrations"}, {"user_integrations"}),
    updateEvent |-> ReadsWrites({"user_integrations"}, {"user_integrations"})]

LabelsService == [
    findAll |-> Reads({"labels"}),
    create |-> Writes({"labels"}),
    update |-> ReadsWrites({"labels"}, {"labels"}),
    remove |-> Writes({"labels"}),
    addToLead |-> ReadsWrites({"labels", "leads"}, {"leads"}),
    removeFromLead |-> ReadsWrites({"leads"}, {"leads"}),
    addToConversation |-> ReadsWrites({"conversations", "labels"}, {"conversations"}),
    removeFromConversation |-> ReadsWrites({"conversations"}, {"conversations"})]

LeadActivitiesService == [
    create |-> Writes({"lead_activities"}),
    findByLead |-> Reads({"lead_activities", "users"}),
    update |-> ReadsWrites({"lead_activities"}, {"lead_activities"}),
    complete |-> ReadsWrites({"lead_activities"}, {"lead_activities"}),
    remove |-> Writes({"lead_activities"})]

LeadsService == [
    create |-> Writes({"leads"}),
    findByPipeline |-> Reads(LeadGraph),
    findAll |-> Reads(LeadGraph),
    findOne |-> Reads(LeadGraph \cup {"customer_origins"}),
    findOneAccessible |-> Reads(LeadGraph \cup {"customer_origins"}),
    findByContactAndPipeline |-> Reads(LeadGraph),
    findByExternalPhoneAndPipeline |-> Reads(LeadGraph),
    update |-> ReadsWrites(LeadGraph \cup {"customer_origins"}, {"leads"}),
    updateStatus |-> Emits(LeadGraph \cup {"customer_origins"}, {"leads"}, {"lead.statusChanged"}),
    move |-> Emits(LeadGraph \cup {"customer_origins"}, {"leads"}, {"lead.moved"}),
    assign |-> ReadsWrites(LeadGraph \cup {"customer_origins"}, {"leads"}),
    setScore |-> ReadsWrites(LeadGraph \cup {"customer_origins"}, {"leads"}),
    recalculateScore |-> ReadsWrites(LeadGraph \cup {"customer_origins"}, {"leads"}),
    recalculateScoreSystem |-> ReadsWrites({"leads"}, {"leads"}),
    remove |-> Writes({"leads"}),
    archive |-> ReadsWrites(LeadGraph \cup {"customer_origins"}, {"leads"}),
    unarchive |-> ReadsWrites(LeadGraph \cup {"customer_origins"}, {"leads"}),
    classify |-> ReadsWrites(LeadGraph \cup {"customer_origins"}, {"contacts", "leads"})]

LossReasonsService == [
    findAll |-> ReadsWrites({"loss_reasons"}, {"loss_reasons"}),
    create |-> ReadsWrites({"loss_reasons"}, {"loss_reasons"}),
    update |-> ReadsWrites({"loss_reasons"}, {"loss_reasons"}),
    remove |-> Writes({"loss_reasons"})]

MeService == [
    exportData |-> Reads({"companies", "contacts", "leads", "products", "users", "workspaces"}),
    scheduleAccountDeletion |-> ReadsWrites({"users"}, {"users"}),
    cancelAccountDeletion |-> ReadsWrites({"users"}, {"users"})]

MessagesService == [
    saveWebhookOutbound |-> Writes({"messages"}),
    saveInbound |-> Writes({"messages"}),
    saveOutbound |-> Writes({"messages"}),
    updateOutboundResult |-> ReadsWrites({"messages"}, {"messages"}),
    markOutboundFailed |-> Writes({"messages"}),
    updateStatus |-> Writes({"messages"}),
    softDelete |-> Writes({"messages"}),
    findByConversation |-> Reads({"messages"})]

OtpService == [
    send |-> Reads({"channel_configs", "users"})]

PipelinesService == [
    create |-> Writes({"pipelines"}),
    update |-> ReadsWrites({"pipelines", "stages"}, {"pipelines"}),
    findAll |-> Reads({"pipelines", "stages"}),
    findOne |-> Reads({"pipelines", "stages"}),
    findDefault |-> Reads({"pipelines", "stages"}),
    remove |-> Writes({"pipelines"})]

PlatformAdminService == [
    listWorkspaces |-> Reads({"leads", "messages", "users", "workspaces"}),
    getWorkspace |-> Reads({"channel_configs", "users", "workspaces"}),
    updateWorkspace |-> ReadsWrites({"workspaces"}, {"platform_audit_logs", "workspaces"}),
    impersonate |-> ReadsWrites({"users", "workspaces"}, {"platform_audit_logs"}),
    listChannels |-> Reads({"channel_configs", "workspaces"}),
    listSignups |-> Reads({"otp_verifications"}),
    signupFunnel |-> Reads({"otp_verifications", "workspaces"}),
    metrics |-> Reads({"leads", "messages", "users", "workspaces"}),
    listBroadcasts |-> Reads({"platform_broadcasts"}),
    activeBroadcasts |-> Reads({"platform_broadcasts"}),
    createBroadcast |-> Writes({"platform_audit_logs", "platform_broadcasts"}),
    updateBroadcast |-> ReadsWrites({"platform_broadcasts"}, {"platform_audit_logs", "platform_broadcasts"}),
    deleteBroadcast |-> ReadsWrites({"platform_broadcasts"}, {"platform_audit_logs", "platform_broadcasts"}),
    listFlags |-> Reads({"feature_flags"}),
    upsertFlag |-> ReadsWrites({"feature_flags"}, {"feature_flags", "platform_audit_logs"}),
    deleteFlag |-> ReadsWrites({"feature_flags"}, {"feature_flags", "platform_audit_logs"}),
    listAudit |-> Reads({"platform_audit_logs"}),
    logAction |-> Writes({"platform_audit_logs"})]

ProductsService == [
    findAll |-> Reads({"products"}),
    findByNames |-> Reads({"products"}),
    create |-> ReadsWrites({"products"}, {"products"}),
    update |-> ReadsWrites({"products"}, {"products"}),
    remove |-> Writes({"products"})]

QuickRepliesService == [
    findAll |-> Reads({"quick_replies"}),
    create |-> Writes({"quick_replies"}),
    update |-> ReadsWrites({"quick_replies"}, {"quick_replies"}),
    remove |-> Writes({"quick_replies"})]

SchedulerService == [
    schedule |-> ReadsWrites({"channel_configs", "conversations"}, {"scheduled_messages"}),
    cancel |-> ReadsWrites({"scheduled_messages"}, {"scheduled_messages"}),
    findAll |-> Reads({"scheduled_messages"}),
    findByConversation |-> Reads({"scheduled_messages"}),
    findOne |-> Reads({"scheduled_messages"}),
    findOneByIdUnscoped |-> Reads({"scheduled_messages"})]

SearchService == [
    search |-> Reads({"contacts", "leads", "pipelines", "stages"})]

SectorsService == [
    findAll |-> Reads({"sectors"}),
    create |-> ReadsWrites({"sectors"}, {"sectors"}),
    update |-> ReadsWrites({"sectors"}, {"sectors"}),
    remove |-> Writes({"sectors"})]

SignupService == [
    start |-> ReadsWrites({"app_settings", "channel_configs", "users"}, {"app_settings", "otp_verifications"}),
    resend |-> ReadsWrites({"app_settings", "channel_configs", "otp_verifications", "users"}, {"app_settings", "otp_verifications"}),
    resolveOtpChannel |-> ReadsWrites({"app_settings", "channel_configs", "users"}, {"app_settings"}),
    verify |-> ReadsWrites({"app_settings", "otp_verifications", "pipelines", "stages", "users"}, {"agendas", "app_settings", "contacts", "leads", "otp_verifications", "pipelines", "stages", "users", "workspaces"}),
    trackInAdminWorkspaces |-> ReadsWrites({"pipelines", "stages", "users"}, {"contacts", "leads"}),
    generateCode |-> Reads({"channel_configs"}),
    sendOtpMessage |-> Reads({"channel_configs"}),
    purgeExpired |-> Writes({"otp_verifications"})]

StageRequiredFieldsService == [
    findByStage |-> Reads({"stage_required_fields"}),
    create |-> ReadsWrites({"stage_required_fields"}, {"stage_required_fields"}),
    update |-> ReadsWrites({"stage_required_fields"}, {"stage_required_fields"}),
    remove |-> Writes({"stage_required_fields"})]

StagesService == [
    create |-> ReadsWrites({"stages"}, {"stages"}),
    update |-> ReadsWrites({"stages"}, {"stages"}),
    findByPipeline |-> Reads({"stages"}),
    findOne |-> Reads({"stages"}),
    remove |-> ReadsWrites({"stages"}, {"stages"})]

SubscriptionsService == [
    listPlans |-> Reads({"plans"}),
    getMyFeatures |-> Reads({"plans", "workspaces"}),
    hasFeature |-> Reads({"plans", "workspaces"}),
    subscribe |-> ReadsWrites({"plans", "workspaces"}, {"workspaces"}),
    cancel |-> ReadsWrites({"workspaces"}, {"workspaces"}),
    adminListPlans |-> Reads({"plans"}),
    adminCreatePlan |-> ReadsWrites({"plans"}, {"plans"}),
    adminUpdatePlan |-> ReadsWrites({"plans"}, {"plans"}),
    adminDeletePlan |-> ReadsWrites({"plans", "workspaces"}, {"plans"})]

TasksService == [
    create |-> ReadsWrites({"user_integrations"}, {"tasks", "user_integrations"}),
    syncCreateToGoogle |-> ReadsWrites({"user_integrations"}, {"tasks", "user_integrations"}),
    findAll |-> Reads({"tasks"}),
    findOne |-> Reads({"tasks"}),
    update |-> ReadsWrites({"tasks"}, {"tasks"}),
    complete |-> ReadsWrites({"tasks"}, {"tasks"}),
    cancel |-> ReadsWrites({"tasks"}, {"tasks"}),
    reopen |-> ReadsWrites({"tasks"}, {"tasks"}),
    remove |-> ReadsWrites({"tasks", "user_integrations"}, {"tasks", "user_integrations"}),
    syncDeleteToGoogle |-> ReadsWrites({"user_integrations"}, {"user_integrations"})]

TemplatesService == [
    create |-> Writes({"message_templates"}),
    findAll |-> Reads({"message_templates"}),
    findOne |-> Reads({"message_templates"}),
    remove |-> Writes({"message_templates"})]

TrashService == [
    listAll |-> Reads({"companies", "contacts", "leads", "products"}),
    list |-> Reads({"companies", "contacts", "leads", "products"}),
    restore |-> Writes({"companies", "contacts", "leads", "products"}),
    purgeOne |-> ReadsWrites({"companies", "contacts", "leads", "products"}, {"companies", "contacts", "leads", "products"}),
    purgeOlderThan |-> ReadsWrites({"companies", "contacts", "leads", "products"}, {"companies", "contacts", "leads", "products"})]

UserPreferencesService == [
    getAll |-> Reads({"user_preferences"}),
    set |-> ReadsWrites({"user_preferences"}, {"user_preferences"}),
    remove |-> Writes({"user_preferences"})]

UsersService == [
    create |-> ReadsWrites({"users"}, {"users"}),
    createInWorkspace |-> Writes({"users"}),
    findMembers |-> Reads({"users"}),
    findAll |-> Reads({"users"}),
    findOne |-> Reads({"users"}),
    findByEmail |-> Reads({"users"}),
    findByEmailAndWorkspace |-> Reads({"users"}),
    updateRole |-> ReadsWrites({"users"}, {"users"}),
    setActive |-> ReadsWrites({"users"}, {"users"}),
    remove |-> ReadsWrites({"users"}, {"users"}),
    getProfile |-> Reads({"users"}),
    updateProfile |-> ReadsWrites({"users"}, {"users"}),
    updateAvatar |-> ReadsWrites({"users"}, {"users"}),
    removeAvatar |-> ReadsWrites({"users"}, {"users"}),
    setEmail |-> ReadsWrites({"users"}, {"users"}),
    setPassword |-> Writes({"users"})]

WorkspacesService == [
    findOne |-> Reads({"workspaces"}),
    findOneWithTrial |-> ReadsWrites({"workspaces"}, {"workspaces"}),
    create |-> Writes({"workspaces"}),
    updateOwner |-> Writes({"workspaces"}),
    updateSettings |-> ReadsWrites({"workspaces"}, {"workspaces"}),
    updateSubscription |-> ReadsWrites({"workspaces"}, {"workspaces"}),
    deleteWorkspaceAndAllData |-> ReadsWrites({"users"}, {"companies", "contacts", "feature_flags", "leads", "message_templates", "otp_verifications", "user_integrations", "workspaces"})]
====
