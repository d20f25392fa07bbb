---- MODULE SharedScreens ----
(***************************************************************************)
(* What the components of the client ask of the server, and what they do   *)
(* to the query cache when an answer comes.  A screen is the queries that  *)
(* a component and its children keep on the page and the mutations that a  *)
(* user can start there.  Layout, form state and formatting are left out.  *)
(* This module holds the components that several pages share.              *)
(***************************************************************************)
EXTENDS ClientApi

\* The parameter of a key (an id, a filter, a search).
Id == "?"

\* A step of a mutation that its code may skip.
NoCall == Call("NONE", "", {})

Query(key, calls) == [key |-> key, calls |-> calls, polled |-> FALSE]
Polled(key, calls) == [Query(key, calls) EXCEPT !.polled = TRUE]

(***************************************************************************)
(* What a callback does to the cached answers under a key.  Invalidate     *)
(* marks them stale; SetAnswer stores the answer of the mutation in their  *)
(* place; PatchRows replaces the changed row in those that exist; Guess    *)
(* shows the change before the server has it, and Write does so even where *)
(* nothing is cached; Settle replaces the guess by the row; Restore brings *)
(* back what was cached before the guess; Cancel drops the fetch in flight.*)
(***************************************************************************)
Effect(kind, key) == [kind |-> kind, key |-> key]
Invalidate(key) == Effect("invalidate", key)
SetAnswer(key) == Effect("answer", key)
PatchRows(key) == Effect("patch", key)
Guess(key) == Effect("guess", key)
Write(key) == Effect("write", key)
Settle(key) == Effect("settle", key)
Restore(key) == Effect("restore", key)
Cancel(key) == Effect("cancel", key)
Clear == Effect("clear", <<>>)

\* Each step makes one of its calls; the effects run when all have succeeded.
Optimistic(name, steps, before, succeeded, failed) ==
    [name |-> name, steps |-> steps, before |-> before,
     succeeded |-> succeeded, failed |-> failed, ownersOnly |-> FALSE, paidOnly |-> FALSE]
Mutation(name, steps, succeeded) == Optimistic(name, steps, <<>>, succeeded, <<>>)

\* A control that only the owner of the workspace gets.
OwnersOnly(mutation) == [mutation EXCEPT !.ownersOnly = TRUE]

\* A control that needs a feature of the plan.
PaidOnly(mutation) == [mutation EXCEPT !.paidOnly = TRUE]

Screen(queries, mutations, children) ==
    [queries |-> queries \cup UNION {child.queries : child \in children},
     mutations |-> mutations \cup UNION {child.mutations : child \in children}]

CompanyDetailPanel ==
    Screen({Query(<<"company-activities", Id>>, {ContactActivitiesApi.getCompanyActivities})},
           {Mutation("CompanyDetailPanel.createMut", <<{ContactActivitiesApi.createCompanyActivity}>>,
                <<Invalidate(<<"company-activities", Id>>)>>),
            Mutation("CompanyDetailPanel.completeMut", <<{ContactActivitiesApi.completeContactActivity}>>,
                <<Invalidate(<<"company-activities", Id>>)>>),
            Mutation("CompanyDetailPanel.deleteMut", <<{ContactActivitiesApi.deleteContactActivity}>>,
                <<Invalidate(<<"company-activities", Id>>)>>)},
           {})

MessageBubble ==
    Screen({},
           {Mutation("MessageBubble.reactMut", <<{MessagesApi.reactMessage}>>, <<>>),
            Mutation("MessageBubble.transcribe", <<{MessagesApi.transcribeAudio}>>, <<>>)},
           {})

QualifyModal ==
    Screen({Query(<<"pipelines">>, {PipelinesApi.listPipelines}),
            Query(<<"workspace-members">>, {UsersApi.listWorkspaceMembers})},
           {},
           {})

LabelPicker ==
    Screen({Query(<<"labels">>, {LabelsApi.listLabels})},
           {Mutation("LabelPicker.toggleMut", <<{LabelsApi.addLabelToLead, LabelsApi.removeLabelFromLead}>>,
                <<Invalidate(<<"negocios">>)>>)},
           {})

LabelsManager ==
    Screen({Query(<<"labels">>, {LabelsApi.listLabels})},
           {Mutation("LabelsManager.createMut", <<{LabelsApi.createLabel}>>,
                <<Invalidate(<<"labels">>)>>),
            Mutation("LabelsManager.updateMut", <<{LabelsApi.updateLabel}>>,
                <<Invalidate(<<"labels">>)>>),
            Mutation("LabelsManager.deleteMut", <<{LabelsApi.deleteLabel}>>,
                <<Invalidate(<<"labels">>)>>)},
           {})

BroadcastBanner ==
    Screen({Polled(<<"active-broadcasts">>, {PlatformApi.listActiveBroadcasts})},
           {},
           {})

GlobalSearch == Screen({Query(<<"search", Id>>, {SearchApi.globalSearch})}, {}, {})

useFeatures == Screen({Query(<<"me-features">>, {WorkspaceApi.getMyFeatures})}, {}, {})

ConversationSummaryButton ==
    Screen({},
           {PaidOnly(Mutation("ConversationSummaryButton.mutation", <<{AiApi.summarizeConversation}>>,
                <<>>))},
           {useFeatures})

EmpresaTab ==
    Screen({Query(<<"company", Id>>, {CompaniesApi.getCompany}),
            Query(<<"workspace-members">>, {UsersApi.listWorkspaceMembers})},
           {Mutation("EmpresaTab.mut", <<{CompaniesApi.updateCompany}>>,
                <<SetAnswer(<<"company", Id>>), Invalidate(<<"companies">>)>>)},
           {})

FunilTab ==
    Screen({Query(<<"lead", Id>>, {LeadsApi.getLead}),
            Query(<<"pipelines">>, {PipelinesApi.listPipelines})},
           {Mutation("FunilTab.move", <<{LeadsApi.moveLead}>>,
                <<SetAnswer(<<"lead", Id>>), Invalidate(<<"leads">>)>>)},
           {})

InlineContactSearch ==
    Screen({Query(<<"contact-search", Id>>, {ContactsApi.listContacts}),
            Query(<<"company-search", Id>>, {CompaniesApi.listCompanies})},
           {},
           {})

StatusToggle ==
    Screen({Query(<<"loss-reasons">>, {LossReasonsApi.listLossReasons})},
           {Mutation("StatusToggle.mutation", <<{LeadsApi.updateLeadStatus}>>,
                <<SetAnswer(<<"lead", Id>>), Invalidate(<<"leads">>)>>)},
           {})

ProductSelector ==
    Screen({Query(<<"products", Id>>, {ProductsApi.listProducts})},
           {Mutation("ProductSelector.createMut", <<{ProductsApi.createProduct}>>,
                <<Invalidate(<<"products">>)>>)},
           {})

NegocioTab ==
    Screen({Query(<<"lead", Id>>, {LeadsApi.getLead}),
            Query(<<"workspace-members">>, {UsersApi.listWorkspaceMembers}),
            Query(<<"customer-origins">>, {CustomerOriginsApi.listCustomerOrigins})},
           {Mutation("NegocioTab.mut", <<{LeadsApi.updateLead}>>,
                <<SetAnswer(<<"lead", Id>>), Invalidate(<<"leads">>)>>),
            Mutation("NegocioTab.archiveMut", <<{LeadsApi.archiveLead, LeadsApi.unarchiveLead}>>,
                <<SetAnswer(<<"lead", Id>>), Invalidate(<<"leads">>)>>)},
           {InlineContactSearch, StatusToggle, ProductSelector})

PessoaTab ==
    Screen({Query(<<"contact", Id>>, {ContactsApi.getContact}),
            Query(<<"workspace-members">>, {UsersApi.listWorkspaceMembers})},
           {Mutation("PessoaTab.mut", <<{ContactsApi.updateContact}>>,
                <<SetAnswer(<<"contact", Id>>), Invalidate(<<"contacts">>)>>)},
           {})

InboxDataTab ==
    Screen({Query(<<"lead", Id>>, {LeadsApi.getLead})},
           {},
           {EmpresaTab, FunilTab, NegocioTab, PessoaTab})

LeadActivities ==
    Screen({Query(<<"users">>, {UsersApi.listUsers}),
            Query(<<"agendas">>, {AgendasApi.listAgendas}),
            Query(<<"lead", Id>>, {LeadsApi.getLead}),
            Query(<<"lead-activities", Id>>, {LeadActivitiesApi.getLeadActivities}),
            Query(<<"tasks", Id>>, {TasksApi.listTasks})},
           {Mutation("LeadActivities.mutation", <<{TasksApi.createTask}>>,
                <<Invalidate(<<"tasks">>), Invalidate(<<"tasks", Id>>)>>),
            Mutation("LeadActivities.appointment", <<{AgendasApi.createAppointment}>>, <<>>)},
           {})

MessageContent ==
    Screen({},
           {Mutation("MessageContent.transcribe", <<{MessagesApi.transcribeAudio}>>, <<>>)},
           {})

ScheduleModal ==
    Screen({},
           {Mutation("ScheduleModal.mutation", <<{SchedulerApi.scheduleMessage}>>,
                <<Invalidate(<<"scheduled", Id>>)>>)},
           {})

MessageComposer ==
    Screen({},
           {Mutation("MessageComposer.mutation", <<{MessagesApi.sendMessage}>>,
                <<Invalidate(<<"messages", Id>>)>>)},
           {ScheduleModal})

ScheduledMessagesList ==
    Screen({Query(<<"scheduled", Id>>, {SchedulerApi.listScheduled})},
           {Mutation("ScheduledMessagesList.cancelMutation", <<{SchedulerApi.cancelScheduled}>>,
                <<Invalidate(<<"scheduled", Id>>)>>)},
           {})

LeadChat ==
    Screen({Query(<<"conversations", Id>>, {ConversationsApi.listConversations}),
            Polled(<<"messages", Id>>, {MessagesApi.listMessages}),
            Query(<<"channels">>, {ChannelsApi.listChannels})},
           {},
           {ConversationSummaryButton, MessageContent, MessageComposer, ScheduledMessagesList})

LeadInfo ==
    Screen({Query(<<"lead", Id>>, {LeadsApi.getLead})},
           {Mutation("LeadInfo.mutation", <<{LeadsApi.updateLead}>>,
                <<SetAnswer(<<"lead", Id>>), Invalidate(<<"leads">>)>>),
            Mutation("LeadInfo.archiveMutation", <<{LeadsApi.archiveLead, LeadsApi.unarchiveLead}>>,
                <<SetAnswer(<<"lead", Id>>), Invalidate(<<"leads">>)>>),
            Mutation("LeadInfo.scoreMutation", <<{LeadsApi.setLeadScore}>>,
                <<SetAnswer(<<"lead", Id>>), Invalidate(<<"leads">>)>>),
            Mutation("LeadInfo.recalcMutation", <<{LeadsApi.recalculateLeadScore}>>,
                <<SetAnswer(<<"lead", Id>>), Invalidate(<<"leads">>)>>)},
           {StatusToggle})

LeadPanel ==
    Screen({Query(<<"pipelines">>, {PipelinesApi.listPipelines})},
           {},
           {LeadActivities, LeadChat, LeadInfo})

ProductNameField ==
    Screen({Query(<<"products", Id>>, {ProductsApi.listProducts})},
           {Mutation("ProductNameField.createMut", <<{ProductsApi.createProduct}>>,
                <<Invalidate(<<"products">>)>>)},
           {})

ProductPickerCombo ==
    Screen({Query(<<"products", Id>>, {ProductsApi.listProducts})},
           {Mutation("ProductPickerCombo.createMut", <<{ProductsApi.createProduct}>>,
                <<Invalidate(<<"products">>)>>)},
           {})

EditLeadModal ==
    Screen({},
           {Mutation("EditLeadModal.mutation", <<{LeadsApi.updateLead}, {LeadsApi.moveLead, NoCall}>>,
                <<Invalidate(<<"negocios">>), Invalidate(<<"leads">>)>>)},
           {ProductNameField, ProductPickerCombo})

OrigemPicker ==
    Screen({},
           {Mutation("OrigemPicker.createMut", <<{CustomerOriginsApi.createCustomerOrigin}>>,
                <<Invalidate(<<"customer-origins">>)>>)},
           {})

StatusDropdown ==
    Screen({},
           {Mutation("StatusDropdown.createReasonMut", <<{LossReasonsApi.createLossReason}>>,
                <<Invalidate(<<"loss-reasons">>)>>)},
           {})

NegocioDetailPanel ==
    Screen({Query(<<"lead-activities", Id>>, {LeadActivitiesApi.getLeadActivities}),
            Query(<<"tasks", Id>>, {TasksApi.listTasks}),
            Query(<<"customer-origins">>, {CustomerOriginsApi.listCustomerOrigins}),
            Query(<<"loss-reasons">>, {LossReasonsApi.listLossReasons})},
           {Mutation("NegocioDetailPanel.leadMut", <<{LeadsApi.updateLead}>>,
                <<Invalidate(<<"negocios">>), Invalidate(<<"leads">>)>>),
            Mutation("NegocioDetailPanel.statusMut", <<{LeadsApi.updateLeadStatus}>>,
                <<PatchRows(<<"negocios">>), Invalidate(<<"negocios">>)>>),
            Mutation("NegocioDetailPanel.stageMut", <<{LeadsApi.moveLead}>>,
                <<Invalidate(<<"negocios">>)>>),
            Mutation("NegocioDetailPanel.pipelineMut", <<{LeadsApi.moveLead}>>,
                <<Invalidate(<<"negocios">>)>>),
            Mutation("NegocioDetailPanel.contactMut", <<{ContactsApi.updateContact}>>,
                <<Invalidate(<<"negocios">>), Invalidate(<<"pessoas">>)>>),
            Mutation("NegocioDetailPanel.companyMut", <<{CompaniesApi.updateCompany}>>,
                <<Invalidate(<<"negocios">>), Invalidate(<<"empresas">>)>>),
            Mutation("NegocioDetailPanel.activityMut", <<{LeadActivitiesApi.createLeadActivity}>>,
                <<Invalidate(<<"lead-activities", Id>>)>>),
            Mutation("NegocioDetailPanel.completeActivityMut", <<{LeadActivitiesApi.completeLeadActivity}>>,
                <<Invalidate(<<"lead-activities", Id>>)>>),
            Mutation("NegocioDetailPanel.deleteActivityMut", <<{LeadActivitiesApi.deleteLeadActivity}>>,
                <<Invalidate(<<"lead-activities", Id>>)>>),
            Mutation("NegocioDetailPanel.completeTaskMut", <<{TasksApi.completeTask}>>,
                <<Invalidate(<<"tasks", Id>>)>>),
            Mutation("NegocioDetailPanel.cancelTaskMut", <<{TasksApi.cancelTask}>>,
                <<Invalidate(<<"tasks", Id>>)>>),
            Mutation("NegocioDetailPanel.reopenTaskMut", <<{TasksApi.reopenTask}>>,
                <<Invalidate(<<"tasks", Id>>)>>),
            Mutation("NegocioDetailPanel.deleteMut", <<{LeadsApi.deleteLead}>>,
                <<Invalidate(<<"negocios">>)>>)},
           {EditLeadModal, LabelPicker, OrigemPicker, StatusDropdown})

NegocioKanban ==
    Screen({},
           {Optimistic("NegocioKanban.mutation", <<{LeadsApi.moveLead}>>,
        <<Guess(<<"negocios">>)>>,
        <<Invalidate(<<"negocios">>)>>,
        <<Restore(<<"negocios">>), Invalidate(<<"negocios">>)>>)},
           {LabelPicker})

PessoaDetailPanel ==
    Screen({Query(<<"contact-activities", Id>>, {ContactActivitiesApi.getContactActivities})},
           {Mutation("PessoaDetailPanel.createMut", <<{ContactActivitiesApi.createContactActivity}>>,
                <<Invalidate(<<"contact-activities", Id>>)>>),
            Mutation("PessoaDetailPanel.completeMut", <<{ContactActivitiesApi.completeContactActivity}>>,
                <<Invalidate(<<"contact-activities", Id>>)>>),
            Mutation("PessoaDetailPanel.deleteMut", <<{ContactActivitiesApi.deleteContactActivity}>>,
                <<Invalidate(<<"contact-activities", Id>>)>>)},
           {})

QualificationForm ==
    Screen({Query(<<"pipelines">>, {PipelinesApi.listPipelines})},
           {Mutation("QualificationForm.saveMut", <<{ContactsApi.updateContact, LeadsApi.classifyLead}, {LeadsApi.moveLead, NoCall}>>,
                <<Invalidate(<<"leads">>), Invalidate(<<"contacts">>), Invalidate(<<"inbox">>)>>)},
           {})

useRefreshUser == Screen({}, {Mutation("useRefreshUser.me", <<{AuthApi.me}>>, <<>>)}, {})

useWorkspace == Screen({Query(<<"workspace-me">>, {WorkspaceApi.getMyWorkspace})}, {}, {})
====
