---- MODULE PageScreens ----
(***************************************************************************)
(* The pages of the client.                                                *)
(***************************************************************************)
EXTENDS SettingsScreens

AgendaMobile ==
    Screen({Query(<<"mobile-tasks", Id>>, {TasksApi.listTasks})},
           {Mutation("AgendaMobile.complete", <<{TasksApi.completeTask}>>,
                <<Invalidate(<<"mobile-tasks">>)>>)},
           {})

Analytics ==
    Screen({Query(<<"pipelines">>, {PipelinesApi.listPipelines}),
            Query(<<"analytics", Id>>, {AnalyticsApi.getAnalyticsSummary})},
           {Mutation("Analytics.refetch", <<{NoCall}>>, <<Invalidate(<<"analytics", Id>>)>>)},
           {})

Assinar ==
    Screen({Query(<<"plans">>, {WorkspaceApi.listPlans}),
            Query(<<"features-catalog">>, {WorkspaceApi.getFeatureCatalog})},
           {OwnersOnly(Mutation("Assinar.subscribeMut", <<{WorkspaceApi.subscribePlan}>>,
                <<Invalidate(<<"workspace-me">>), Invalidate(<<"me-features">>)>>)),
            OwnersOnly(Mutation("Assinar.checkout", <<{BillingApi.createCheckoutSession}>>, <<>>))},
           {useWorkspace})

BillingSuccess ==
    Screen({},
           {Mutation("BillingSuccess.mount", <<{NoCall}>>,
                <<Invalidate(<<"workspace-me">>), Invalidate(<<"me-features">>)>>)},
           {})

AgendasPanel ==
    Screen({Query(<<"agendas">>, {AgendasApi.listAgendas}),
            Query(<<"users">>, {UsersApi.listUsers})},
           {OwnersOnly(Mutation("AgendasPanel.createMut", <<{AgendasApi.createAgenda}>>,
                <<Invalidate(<<"agendas">>)>>)),
            OwnersOnly(Mutation("AgendasPanel.deleteMut", <<{AgendasApi.deleteAgenda}>>,
                <<Invalidate(<<"agendas">>)>>))},
           {})

EventModal ==
    Screen({},
           {Mutation("EventModal.completeTaskMut", <<{TasksApi.completeTask}>>,
                <<Invalidate(<<"cal-tasks">>)>>),
            Mutation("EventModal.completeActMut", <<{ContactActivitiesApi.completeContactActivity}>>,
                <<Invalidate(<<"cal-activities">>)>>)},
           {})

UserFilter == Screen({Query(<<"users-cal">>, {UsersApi.listUsers})}, {}, {})

Calendario ==
    Screen({Query(<<"cal-tasks", Id>>, {TasksApi.listTasks}),
            Query(<<"cal-activities", Id>>, {ContactActivitiesApi.listAllActivities})},
           {},
           {AgendasPanel, EventModal, UserFilter})

CompanyAvatarEditor ==
    Screen({},
           {Mutation("CompanyAvatarEditor.uploadMut", <<{CompaniesApi.uploadCompanyAvatar}>>,
                <<PatchRows(<<"companies">>), Invalidate(<<"companies">>)>>),
            Mutation("CompanyAvatarEditor.removeMut", <<{CompaniesApi.removeCompanyAvatar}>>,
                <<PatchRows(<<"companies">>), Invalidate(<<"companies">>)>>)},
           {})

AddCompanyModal ==
    Screen({Query(<<"contacts", Id>>, {ContactsApi.listContacts})},
           {Mutation("AddCompanyModal.mutation", <<{CompaniesApi.updateCompany, CompaniesApi.createCompany}, {CompaniesApi.uploadCompanyAvatar, NoCall}>>,
                <<Invalidate(<<"companies">>)>>)},
           {CompanyAvatarEditor})

Companies ==
    Screen({Query(<<"users">>, {UsersApi.listUsers}),
            Query(<<"companies", Id>>, {CompaniesApi.listCompanies})},
           {Mutation("Companies.deleteMut", <<{CompaniesApi.deleteCompany}>>,
                <<PatchRows(<<"companies">>), Invalidate(<<"companies">>)>>),
            Mutation("Companies.bulkDeleteMut", <<{CompaniesApi.deleteCompany}, {CompaniesApi.deleteCompany, NoCall}>>,
                <<PatchRows(<<"companies">>), Invalidate(<<"companies">>)>>)},
           {CompanyDetailPanel, AddCompanyModal})

EtapasFunilModal ==
    Screen({},
           {Mutation("EtapasFunilModal.updateStageMut", <<{StagesApi.updateStage}>>,
                <<Invalidate(<<"pipelines">>)>>),
            Mutation("EtapasFunilModal.addStageMut", <<{StagesApi.createStage}>>,
                <<Invalidate(<<"pipelines">>)>>),
            Mutation("EtapasFunilModal.deleteStageMut", <<{StagesApi.deleteStage}>>,
                <<Invalidate(<<"pipelines">>)>>)},
           {LabelsManager, RequiredFieldsDrawer})

PersonalizarFunisModal ==
    Screen({},
           {Mutation("PersonalizarFunisModal.updateMut", <<{PipelinesApi.updatePipeline}>>,
                <<Invalidate(<<"pipelines">>)>>),
            Mutation("PersonalizarFunisModal.deleteMut", <<{PipelinesApi.deletePipeline}>>,
                <<Invalidate(<<"pipelines">>)>>)},
           {})

ContactAutocomplete ==
    Screen({Query(<<"contacts-autocomplete", Id>>, {ContactsApi.listContacts}),
            Query(<<"companies-autocomplete", Id>>, {CompaniesApi.listCompanies})},
           {},
           {})

AddNegocioModal ==
    Screen({Query(<<"workspace-me">>, {WorkspaceApi.getMyWorkspace})},
           {Mutation("AddNegocioModal.mutation", <<{LeadsApi.createLead}>>,
                <<Invalidate(<<"negocios">>), Invalidate(<<"leads">>)>>)},
           {ContactAutocomplete, ProductNameField, ProductPickerCombo})

Funil ==
    Screen({Query(<<"users">>, {UsersApi.listUsers}),
            Query(<<"pipelines">>, {PipelinesApi.listPipelines}),
            Query(<<"negocios">>, {LeadsApi.listAllLeads})},
           {Mutation("Funil.createPipelineMut", <<{PipelinesApi.createPipeline}>>,
                <<Invalidate(<<"pipelines">>)>>)},
           {LabelsManager, GlobalSearch, useFeatures, NegocioDetailPanel, NegocioKanban, EtapasFunilModal, PersonalizarFunisModal, AddNegocioModal})

ConversationLabelPicker ==
    Screen({Query(<<"labels", "workspace">>, {LabelsApi.listLabels})},
           {Mutation("ConversationLabelPicker.toggleMut", <<{LabelsApi.addLabelToConversation, LabelsApi.removeLabelFromConversation}>>,
                <<PatchRows(<<"inbox">>)>>)},
           {})

QuickRepliesPopup ==
    Screen({Query(<<"quick-replies", Id>>, {QuickRepliesApi.listQuickReplies})},
           {},
           {})

ChatView ==
    Screen({Query(<<"channels">>, {ChannelsApi.listChannels}),
            Polled(<<"messages", Id>>, {MessagesApi.listMessages})},
           {Optimistic("ChatView.sendMut", <<{MessagesApi.sendMessage}>>,
        <<Cancel(<<"messages", Id>>), Write(<<"messages", Id>>)>>,
        <<Settle(<<"messages", Id>>), Invalidate(<<"inbox">>)>>,
        <<Restore(<<"messages", Id>>)>>),
            Optimistic("ChatView.sendMediaMut", <<{MessagesApi.sendMedia}>>,
        <<Cancel(<<"messages", Id>>), Write(<<"messages", Id>>)>>,
        <<Settle(<<"messages", Id>>), Invalidate(<<"inbox">>)>>,
        <<Restore(<<"messages", Id>>)>>),
            Mutation("ChatView.deleteMut", <<{MessagesApi.deleteMessage}>>,
                <<Invalidate(<<"messages", Id>>)>>),
            Mutation("ChatView.markRead", <<{ScreenApi.markRead}>>, <<>>),
            Mutation("ChatView.syncChat", <<{ScreenApi.syncChat}>>,
                <<Invalidate(<<"messages", Id>>)>>),
            Mutation("ChatView.typing", <<{ScreenApi.typing}>>, <<>>)},
           {MessageBubble, QualifyModal, InboxDataTab, LeadActivities, ConversationSummaryButton, ConversationLabelPicker, QuickRepliesPopup})

Inbox ==
    Screen({Query(<<"lead", Id>>, {LeadsApi.getLead}),
            Query(<<"pipelines">>, {PipelinesApi.listPipelines}),
            Query(<<"workspace-members">>, {UsersApi.listWorkspaceMembers}),
            Query(<<"labels", "workspace">>, {LabelsApi.listLabels}),
            Polled(<<"inbox", Id>>, {ConversationsApi.listInbox})},
           {Optimistic("Inbox.handlePin", <<{ConversationsApi.pinConversation}>>,
        <<Guess(<<"inbox", Id>>)>>,
        <<Invalidate(<<"inbox">>)>>,
        <<Invalidate(<<"inbox">>)>>),
            Optimistic("Inbox.handleDeleteContact", <<{ContactsApi.deleteContact}>>,
        <<Guess(<<"inbox", Id>>)>>,
        <<Invalidate(<<"inbox">>)>>,
        <<Invalidate(<<"inbox">>)>>),
            Optimistic("Inbox.handleArchive", <<{ConversationsApi.archiveConversation}>>,
        <<Guess(<<"inbox", Id>>)>>,
        <<Invalidate(<<"inbox">>)>>,
        <<Invalidate(<<"inbox">>)>>),
            Mutation("Inbox.handleQualify", <<{ConversationsApi.qualifyConversation}>>,
                <<Invalidate(<<"inbox">>), Invalidate(<<"negocios">>)>>),
            Optimistic("Inbox.handleSelect", <<{ConversationsApi.markConversationRead}>>,
        <<Guess(<<"inbox", Id>>)>>,
        <<>>,
        <<Invalidate(<<"inbox">>)>>)},
           {NegocioDetailPanel, ChatView, ConversationLabelPicker})

ActivityCard ==
    Screen({},
           {Mutation("ActivityCard.completeMut", <<{TasksApi.completeTask, TasksApi.reopenTask}>>,
                <<Invalidate(<<"inicio-tasks">>)>>),
            Mutation("ActivityCard.deleteMut", <<{TasksApi.deleteTask}>>,
                <<Invalidate(<<"inicio-tasks">>)>>)},
           {})

QuickAddEmpresa ==
    Screen({},
           {Mutation("QuickAddEmpresa.mut", <<{CompaniesApi.createCompany}>>,
                <<Invalidate(<<"companies">>)>>)},
           {})

QuickAddNegocio ==
    Screen({Query(<<"pipelines">>, {PipelinesApi.listPipelines}),
            Query(<<"contacts", Id>>, {ContactsApi.listContacts})},
           {Mutation("QuickAddNegocio.mut", <<{ContactsApi.createContact, NoCall}, {LeadsApi.createLead}>>,
                <<Invalidate(<<"leads">>)>>)},
           {})

QuickAddPessoa ==
    Screen({},
           {Mutation("QuickAddPessoa.mut", <<{ContactsApi.createContact}>>,
                <<Invalidate(<<"contacts">>)>>)},
           {})

Inicio ==
    Screen({Query(<<"users">>, {UsersApi.listUsers}),
            Query(<<"inicio-tasks", Id>>, {TasksApi.listTasks})},
           {},
           {ActivityCard, QuickAddEmpresa, QuickAddNegocio, QuickAddPessoa, useWorkspace})

ForgotPasswordFlow ==
    Screen({},
           {Mutation("ForgotPasswordFlow.forgotPassword", <<{AuthApi.forgotPassword}>>,
                <<>>),
            Mutation("ForgotPasswordFlow.verifyResetCode", <<{AuthApi.verifyResetCode}>>,
                <<>>),
            Mutation("ForgotPasswordFlow.resetPassword", <<{AuthApi.resetPassword}>>, <<>>),
            Mutation("ForgotPasswordFlow.login", <<{AuthApi.login}>>, <<>>)},
           {})

LoginForm == Screen({}, {Mutation("LoginForm.submit", <<{AuthApi.login}>>, <<>>)}, {})

RankingCell ==
    Screen({},
           {Mutation("RankingCell.mut", <<{LeadsApi.updateLead}>>,
                <<Invalidate(<<"negocios">>)>>)},
           {})

StageCell ==
    Screen({},
           {Mutation("StageCell.mut", <<{LeadsApi.moveLead}>>,
                <<Invalidate(<<"negocios">>)>>)},
           {})

StatusCell ==
    Screen({},
           {Mutation("StatusCell.mut", <<{LeadsApi.updateLeadStatus}>>,
                <<Invalidate(<<"negocios">>)>>)},
           {})

Negocios ==
    Screen({Query(<<"users">>, {UsersApi.listUsers}),
            Query(<<"pipelines">>, {PipelinesApi.listPipelines}),
            Query(<<"negocios">>, {LeadsApi.listAllLeads})},
           {Mutation("Negocios.bulkDeleteMut", <<{LeadsApi.deleteLead}, {LeadsApi.deleteLead, NoCall}>>,
                <<Invalidate(<<"negocios">>)>>),
            Mutation("Negocios.remove", <<{LeadsApi.deleteLead}>>,
                <<Invalidate(<<"negocios">>)>>)},
           {NegocioDetailPanel, AddNegocioModal, RankingCell, StageCell, StatusCell})

OtpFlowModal ==
    Screen({},
           {Mutation("OtpFlowModal.sendMut", <<{UsersApi.sendProfileOtp}>>, <<>>),
            Mutation("OtpFlowModal.verifyMut", <<{UsersApi.verifyProfileOtp}>>, <<>>),
            Mutation("OtpFlowModal.emailMut", <<{UsersApi.changeMyEmail}>>,
                <<Invalidate(<<"me">>)>>),
            Mutation("OtpFlowModal.passwordMut", <<{UsersApi.changeMyPassword}>>, <<>>)},
           {})

Perfil ==
    Screen({Query(<<"me">>, {UsersApi.getMe})},
           {Mutation("Perfil.saveProfile", <<{UsersApi.updateMe}>>,
                <<Invalidate(<<"me">>)>>),
            Mutation("Perfil.uploadAvatar", <<{UsersApi.uploadMyAvatar}>>,
                <<Invalidate(<<"me">>)>>),
            Mutation("Perfil.removeAvatar", <<{UsersApi.removeMyAvatar}>>,
                <<Invalidate(<<"me">>)>>)},
           {OtpFlowModal})

PessoaAvatarEditor ==
    Screen({},
           {Mutation("PessoaAvatarEditor.uploadMut", <<{ContactsApi.uploadContactAvatar}>>,
                <<PatchRows(<<"pessoas">>), PatchRows(<<"contacts">>), Invalidate(<<"pessoas">>), Invalidate(<<"contacts">>)>>),
            Mutation("PessoaAvatarEditor.removeMut", <<{ContactsApi.removeContactAvatar}>>,
                <<PatchRows(<<"pessoas">>), PatchRows(<<"contacts">>), Invalidate(<<"pessoas">>), Invalidate(<<"contacts">>)>>)},
           {})

AddPessoaModal ==
    Screen({},
           {Mutation("AddPessoaModal.mutation", <<{ContactsApi.createContact, ContactsApi.updateContact}>>,
                <<Invalidate(<<"pessoas">>), Invalidate(<<"contacts">>)>>)},
           {PessoaAvatarEditor})

Pessoas ==
    Screen({Query(<<"users">>, {UsersApi.listUsers}),
            Query(<<"pessoas", Id>>, {ContactsApi.listContacts})},
           {Mutation("Pessoas.deleteMut", <<{ContactsApi.deleteContact}>>,
                <<PatchRows(<<"pessoas">>), Invalidate(<<"pessoas">>)>>),
            Mutation("Pessoas.bulkDeleteMut", <<{ContactsApi.deleteContact}, {ContactsApi.deleteContact, NoCall}>>,
                <<PatchRows(<<"pessoas">>), Invalidate(<<"pessoas">>)>>)},
           {PessoaDetailPanel, AddPessoaModal})

Signup ==
    Screen({},
           {Mutation("Signup.signupStart", <<{SignupApi.signupStart}>>, <<>>),
            Mutation("Signup.signupVerify", <<{SignupApi.signupVerify}>>, <<>>),
            Mutation("Signup.signupResend", <<{SignupApi.signupResend}>>, <<>>)},
           {})

AddTaskCard ==
    Screen({Query(<<"users">>, {UsersApi.listUsers}),
            Query(<<"contacts", Id>>, {ContactsApi.listContacts})},
           {Mutation("AddTaskCard.mutation", <<{TasksApi.createTask}>>,
                <<Invalidate(<<"tasks">>)>>)},
           {})

TaskRow ==
    Screen({},
           {Mutation("TaskRow.completeMut", <<{TasksApi.completeTask, TasksApi.reopenTask}>>,
                <<Invalidate(<<"tasks">>)>>),
            Mutation("TaskRow.deleteMut", <<{TasksApi.deleteTask}>>,
                <<Invalidate(<<"tasks">>)>>)},
           {})

Tasks ==
    Screen({Query(<<"users">>, {UsersApi.listUsers}),
            Query(<<"tasks", Id>>, {TasksApi.listTasks})},
           {},
           {AddTaskCard, TaskRow})

WidgetPage ==
    Screen({},
           {Mutation("WidgetPage.config", <<{ScreenApi.publicConfig}>>, <<>>),
            Mutation("WidgetPage.submit", <<{ScreenApi.capture}>>, <<>>)},
           {})

\* What every page of a signed-in user carries (AuthedLayout).
AuthedLayout == Screen({}, {}, {useFeatures, GlobalSearch, LeadPanel, QualificationForm,
            BroadcastBanner, useRefreshUser, useWorkspace})

\* The frame of the tabs of the settings.
Settings == Screen({}, {}, {AuthedLayout, useFeatures, useWorkspace})
====
