---- MODULE SettingsScreens ----
(***************************************************************************)
(* The tabs of the settings page and of the platform administration.       *)
(***************************************************************************)
EXTENDS SharedScreens
LOCAL INSTANCE Sequences

\* The tab that edits a list of named options (OptionsListTab).
OptionsListTab(name, key, list, create, update, remove) ==
    Screen({Query(key, {list})},
           {Mutation(name \o ".createMut", <<{create}, {create, NoCall}>>, <<Invalidate(key)>>),
            Mutation(name \o ".updateMut", <<{update}>>, <<Invalidate(key)>>),
            Mutation(name \o ".deleteMut", <<{remove}>>, <<Invalidate(key)>>)}, {})

AuditTab ==
    Screen({Query(<<"platform-audit">>, {PlatformApi.listAudit}),
            Query(<<"platform-workspaces", "">>, {PlatformApi.listWorkspaces})},
           {},
           {})

BroadcastModal ==
    Screen({},
           {Mutation("BroadcastModal.mut", <<{PlatformApi.createBroadcast, PlatformApi.updateBroadcast}>>,
                <<Invalidate(<<"platform-broadcasts">>)>>)},
           {})

BroadcastsTab ==
    Screen({Query(<<"platform-broadcasts">>, {PlatformApi.listBroadcasts})},
           {Mutation("BroadcastsTab.delMut", <<{PlatformApi.deleteBroadcast}>>,
                <<Invalidate(<<"platform-broadcasts">>)>>)},
           {BroadcastModal})

AdminChannelsTab ==
    Screen({Polled(<<"platform-channels">>, {PlatformApi.listPlatformChannels})},
           {},
           {})

NewFlagModal ==
    Screen({},
           {Mutation("NewFlagModal.mut", <<{PlatformApi.upsertFlag}>>,
                <<Invalidate(<<"platform-flags">>)>>)},
           {})

FeatureFlagsTab ==
    Screen({Query(<<"platform-flags">>, {PlatformApi.listFlags}),
            Query(<<"platform-workspaces", "">>, {PlatformApi.listWorkspaces})},
           {Mutation("FeatureFlagsTab.toggleMut", <<{PlatformApi.upsertFlag}>>,
                <<Invalidate(<<"platform-flags">>)>>),
            Mutation("FeatureFlagsTab.delMut", <<{PlatformApi.deleteFlag}>>,
                <<Invalidate(<<"platform-flags">>)>>)},
           {NewFlagModal})

OverviewTab ==
    Screen({Query(<<"platform-metrics">>, {PlatformApi.getPlatformMetrics}),
            Query(<<"platform-funnel", Id>>, {PlatformApi.getSignupFunnel})},
           {},
           {})

PlanFormModal ==
    Screen({},
           {Mutation("PlanFormModal.saveMut", <<{WorkspaceApi.adminCreatePlan, WorkspaceApi.adminUpdatePlan}>>,
                <<Invalidate(<<"admin-plans">>)>>)},
           {})

PlansTab ==
    Screen({Query(<<"admin-plans">>, {WorkspaceApi.adminListPlans}),
            Query(<<"admin-plans-catalog">>, {WorkspaceApi.adminGetFeatureCatalog})},
           {Mutation("PlansTab.delMut", <<{WorkspaceApi.adminDeletePlan}>>,
                <<Invalidate(<<"admin-plans">>)>>)},
           {PlanFormModal})

SubscriptionsTab ==
    Screen({Query(<<"platform-workspaces", "">>, {PlatformApi.listWorkspaces}),
            Query(<<"platform-plans">>, {WorkspaceApi.adminListPlans})},
           {Mutation("SubscriptionsTab.updateMut", <<{PlatformApi.updateWorkspace}>>,
                <<Invalidate(<<"platform-workspaces">>)>>)},
           {})

EditWorkspaceModal ==
    Screen({},
           {Mutation("EditWorkspaceModal.mut", <<{PlatformApi.updateWorkspace}>>,
                <<Invalidate(<<"platform-workspaces">>)>>)},
           {})

WorkspacesTab ==
    Screen({Query(<<"platform-workspaces", Id>>, {PlatformApi.listWorkspaces})},
           {Mutation("WorkspacesTab.impersonate", <<{PlatformApi.impersonateWorkspace}>>,
                <<Clear>>)},
           {EditWorkspaceModal})

AgentsTab ==
    Screen({Query(<<"users">>, {UsersApi.listUsers})},
           {Mutation("AgentsTab.createMutation", <<{UsersApi.createUser}>>,
                <<Invalidate(<<"users">>)>>),
            Mutation("AgentsTab.roleMutation", <<{UsersApi.updateUserRole}>>,
                <<Invalidate(<<"users">>)>>),
            Mutation("AgentsTab.activeMutation", <<{UsersApi.setUserActive}>>,
                <<Invalidate(<<"users">>)>>),
            Mutation("AgentsTab.deleteMutation", <<{UsersApi.deleteUser}>>,
                <<Invalidate(<<"users">>)>>),
            OwnersOnly(Mutation("AgentsTab.impersonateMut", <<{UsersApi.impersonateUser}>>, <<>>))},
           {})

SendWhatsappEditor ==
    Screen({Query(<<"channels">>, {ChannelsApi.listChannels}),
            Query(<<"templates">>, {TemplatesApi.listTemplates})},
           {Mutation("SendWhatsappEditor.createTplMut", <<{TemplatesApi.createTemplate}>>,
                <<Invalidate(<<"templates">>)>>)},
           {})

AutomationEditor ==
    Screen({Query(<<"pipelines">>, {PipelinesApi.listPipelines}),
            Query(<<"templates">>, {TemplatesApi.listTemplates}),
            Query(<<"channels">>, {ChannelsApi.listChannels})},
           {Mutation("AutomationEditor.saveMut", <<{AutomationsApi.createAutomation, AutomationsApi.updateAutomation}>>,
                <<Invalidate(<<"automations">>)>>)},
           {SendWhatsappEditor})

AutomationsTab ==
    Screen({Query(<<"automations">>, {AutomationsApi.listAutomations}),
            Query(<<"pipelines">>, {PipelinesApi.listPipelines})},
           {Mutation("AutomationsTab.deleteMut", <<{AutomationsApi.deleteAutomation}>>,
                <<Invalidate(<<"automations">>)>>),
            Mutation("AutomationsTab.toggleMut", <<{AutomationsApi.updateAutomation}>>,
                <<Invalidate(<<"automations">>)>>)},
           {AutomationEditor})

CategoriasClientesTab == OptionsListTab("CategoriasClientesTab", <<"customer-categories">>, CustomerCategoriesApi.listCustomerCategories, CustomerCategoriesApi.createCustomerCategory,
    CustomerCategoriesApi.updateCustomerCategory, CustomerCategoriesApi.deleteCustomerCategory)

QrModal ==
    Screen({},
           {Mutation("QrModal.poll", <<{ChannelsApi.getChannelQr}>>,
                <<Invalidate(<<"channels">>)>>)},
           {})

ChannelsTab ==
    Screen({Query(<<"channels">>, {ChannelsApi.listChannels})},
           {Mutation("ChannelsTab.createMut", <<{ChannelsApi.createChannel}>>,
                <<Invalidate(<<"channels">>)>>),
            Mutation("ChannelsTab.deleteMut", <<{ChannelsApi.deleteChannel}>>,
                <<Invalidate(<<"channels">>)>>),
            Mutation("ChannelsTab.provisionMut", <<{ChannelsApi.provisionChannel}>>, <<>>),
            Mutation("ChannelsTab.refreshWebhookMut", <<{ChannelsApi.refreshChannelWebhook}>>,
                <<>>)},
           {QrModal})

DangerZoneTab ==
    Screen({},
           {Mutation("DangerZoneTab.deleteMut", <<{ScreenApi.deleteAccount}>>, <<Clear>>)},
           {})

EtiquetasTab ==
    Screen({Query(<<"labels">>, {LabelsApi.listLabels})},
           {Mutation("EtiquetasTab.createMut", <<{LabelsApi.createLabel}>>,
                <<Invalidate(<<"labels">>)>>),
            Mutation("EtiquetasTab.updateMut", <<{LabelsApi.updateLabel}>>,
                <<Invalidate(<<"labels">>)>>),
            Mutation("EtiquetasTab.deleteMut", <<{LabelsApi.deleteLabel}>>,
                <<Invalidate(<<"labels">>)>>)},
           {})

RequiredFieldsDrawer ==
    Screen({Query(<<"stage-required-fields", Id>>, {StageRequiredFieldsApi.listStageRequiredFields})},
           {Mutation("RequiredFieldsDrawer.createMut", <<{StageRequiredFieldsApi.createStageRequiredField}>>,
                <<Invalidate(<<"stage-required-fields", Id>>)>>),
            Mutation("RequiredFieldsDrawer.deleteMut", <<{StageRequiredFieldsApi.deleteStageRequiredField}>>,
                <<Invalidate(<<"stage-required-fields", Id>>)>>)},
           {})

FunisEtapasTab ==
    Screen({Query(<<"pipelines">>, {PipelinesApi.listPipelines}),
            Query(<<"leads", Id, "all">>, {LeadsApi.listLeads}),
            Query(<<"loss-reasons">>, {LossReasonsApi.listLossReasons})},
           {Mutation("FunisEtapasTab.updateStatusMut", <<{LeadsApi.updateLeadStatus}>>,
                <<Invalidate(<<"leads", Id, "all">>)>>),
            Mutation("FunisEtapasTab.updatePipelineMut", <<{PipelinesApi.updatePipeline}>>,
                <<Invalidate(<<"pipelines">>)>>),
            Mutation("FunisEtapasTab.createPipelineMut", <<{PipelinesApi.createPipeline}>>,
                <<Invalidate(<<"pipelines">>)>>),
            Mutation("FunisEtapasTab.deletePipelineMut", <<{PipelinesApi.deletePipeline}>>,
                <<Invalidate(<<"pipelines">>)>>),
            Mutation("FunisEtapasTab.updateStageMut", <<{StagesApi.updateStage}>>,
                <<Invalidate(<<"pipelines">>)>>),
            Mutation("FunisEtapasTab.addStageMut", <<{StagesApi.createStage}>>,
                <<Invalidate(<<"pipelines">>)>>),
            Mutation("FunisEtapasTab.deleteStageMut", <<{StagesApi.deleteStage}>>,
                <<Invalidate(<<"pipelines">>)>>)},
           {StatusDropdown, RequiredFieldsDrawer})

IntegrationsTab ==
    Screen({Query(<<"google-status">>, {IntegrationsApi.getGoogleStatus})},
           {Mutation("IntegrationsTab.connectMut", <<{IntegrationsApi.getGoogleAuthUrl}>>,
                <<>>),
            Mutation("IntegrationsTab.disconnectMut", <<{IntegrationsApi.disconnectGoogle}>>,
                <<Invalidate(<<"google-status">>)>>),
            Mutation("IntegrationsTab.connected", <<{NoCall}>>,
                <<Invalidate(<<"google-status">>)>>)},
           {})

LixeiraTab ==
    Screen({Query(<<"trash">>, {TrashApi.getTrash})},
           {Mutation("LixeiraTab.restoreMut", <<{TrashApi.restoreFromTrash}>>,
                <<Invalidate(<<"trash">>)>>),
            Mutation("LixeiraTab.purgeMut", <<{TrashApi.purgeFromTrash}>>,
                <<Invalidate(<<"trash">>)>>)},
           {})

MeusDadosTab ==
    Screen({},
           {Mutation("MeusDadosTab.exportMut", <<{MeApi.fetchDataExport}>>, <<>>),
            Mutation("MeusDadosTab.deleteMut", <<{MeApi.scheduleAccountDeletion}>>, <<>>),
            Mutation("MeusDadosTab.cancelMut", <<{MeApi.cancelAccountDeletion}>>, <<>>)},
           {})

MotivosPerdaTab == OptionsListTab("MotivosPerdaTab", <<"loss-reasons">>, LossReasonsApi.listLossReasons, LossReasonsApi.createLossReason,
    LossReasonsApi.updateLossReason, LossReasonsApi.deleteLossReason)

OrigensClientesTab == OptionsListTab("OrigensClientesTab", <<"customer-origins">>, CustomerOriginsApi.listCustomerOrigins, CustomerOriginsApi.createCustomerOrigin,
    CustomerOriginsApi.updateCustomerOrigin, CustomerOriginsApi.deleteCustomerOrigin)

PrivacidadeTab ==
    Screen({Query(<<"workspace-me">>, {WorkspaceApi.getMyWorkspace})},
           {Mutation("PrivacidadeTab.saveMut", <<{WorkspaceApi.updateWorkspaceSettings}>>,
                <<Invalidate(<<"workspace-me">>)>>)},
           {})

ProdutosServicosTab ==
    Screen({Query(<<"products">>, {ProductsApi.listProducts})},
           {Mutation("ProdutosServicosTab.createMut", <<{ProductsApi.createProduct}>>,
                <<Invalidate(<<"products">>)>>),
            Mutation("ProdutosServicosTab.updateMut", <<{ProductsApi.updateProduct}>>,
                <<Invalidate(<<"products">>)>>),
            Mutation("ProdutosServicosTab.deleteMut", <<{ProductsApi.deleteProduct}>>,
                <<Invalidate(<<"products">>)>>)},
           {})

QuickRepliesTab ==
    Screen({Query(<<"quick-replies">>, {QuickRepliesApi.listQuickReplies})},
           {Mutation("QuickRepliesTab.createMut", <<{QuickRepliesApi.createQuickReply}>>,
                <<Invalidate(<<"quick-replies">>)>>),
            Mutation("QuickRepliesTab.updateMut", <<{QuickRepliesApi.updateQuickReply}>>,
                <<Invalidate(<<"quick-replies">>)>>),
            Mutation("QuickRepliesTab.deleteMut", <<{QuickRepliesApi.deleteQuickReply}>>,
                <<Invalidate(<<"quick-replies">>)>>)},
           {})

SetoresTab == OptionsListTab("SetoresTab", <<"sectors">>, SectorsApi.listSectors, SectorsApi.createSector,
    SectorsApi.updateSector, SectorsApi.deleteSector)

SistemaTab ==
    Screen({Query(<<"app-settings">>, {SignupApi.getAppSettings}),
            Query(<<"channels">>, {ChannelsApi.listChannels})},
           {Mutation("SistemaTab.saveMut", <<{SignupApi.updateAppSettings}>>,
                <<Invalidate(<<"app-settings">>)>>)},
           {})

TemplatesTab ==
    Screen({Query(<<"templates">>, {TemplatesApi.listTemplates})},
           {Mutation("TemplatesTab.createMut", <<{TemplatesApi.createTemplate}>>,
                <<Invalidate(<<"templates">>)>>),
            Mutation("TemplatesTab.deleteMut", <<{TemplatesApi.deleteTemplate}>>,
                <<Invalidate(<<"templates">>)>>)},
           {})

WidgetTab ==
    Screen({Query(<<"widget-config">>, {ScreenApi.getWidgetConfig}),
            Query(<<"pipelines">>, {PipelinesApi.listPipelines}),
            Query(<<"users">>, {UsersApi.listUsers}),
            Query(<<"stages", Id>>, {ScreenApi.listStages})},
           {Mutation("WidgetTab.saveMutation", <<{ScreenApi.saveWidgetConfig}>>, <<>>)},
           {useWorkspace})
====
