--------------------------- MODULE SchemaHistory ---------------------------
(* The migrations of the database, each as the statements of its up and of its
   down, and what a statement does to a schema.  A schema has tables, the
   values of its enumerated types, and the rows a migration writes or meets,
   named for what they are.  A table has columns and constraints: foreign keys,
   uniqueness (constraints and unique indexes), checks, the enumerated type or
   the NOT NULL of a column.  The other types of columns and the indexes that
   only serve speed are left out, and so is a statement on those alone. *)
EXTENDS Naturals, Sequences, SequencesExt, FiniteSets

Constraint(kind, n, cs, t, r) == [kind |-> kind, name |-> n, cols |-> cs, to |-> t, rule |-> r]
Key(n, c, t, r) == Constraint("key", n, {c}, t, r)
Unique(n, cs) == Constraint("unique", n, cs, "", "")
Check(n) == Constraint("check", n, {}, "", "")
Enum(type, c) == Constraint("enum", type, {c}, "", "")
Required(c) == Constraint("required", c, {c}, "", "")

Statement(do, t, n, cs, ks) == [do |-> do, table |-> t, name |-> n, cols |-> cs, cons |-> ks]
Create(t, cs, ks) == Statement("create", t, "", cs, ks)
CreateIf(t, cs, ks) == Statement("create if", t, "", cs, ks)
Drop(t) == Statement("drop", t, "", {}, {})
DropCascade(t) == Statement("drop cascade", t, "", {}, {})
AddColumns(t, cs, ks) == Statement("add", t, "", cs, ks)
DropColumns(t, cs) == Statement("remove", t, "", cs, {})
Constrain(t, k) == Statement("constrain", t, k.name, k.cols, {k})
ConstrainIf(t, k) == Statement("constrain if", t, k.name, k.cols, {k})
Index(t, n, cs) == Constrain(t, Constraint("index", n, cs, "", ""))
IndexIf(t, n, cs) == ConstrainIf(t, Constraint("index", n, cs, "", ""))
Unconstrain(t, n) == Statement("unconstrain", t, n, {}, {})
AllowNull(t, c) == Statement("allow null", t, c, {}, {})
ForbidNull(t, c) == ConstrainIf(t, Required(c))
DropIndex(n) == Statement("drop index", "", n, {}, {})
DropKeys(t, c) == Statement("drop keys", t, c, {}, {})
DropPairs(t) == Statement("drop pairs", t, "", {}, {})
Type(n, vs) == Statement("type", "", n, vs, {})
TypeIf(n, vs) == Statement("type if", "", n, vs, {})
DropType(n) == Statement("drop type", "", n, {}, {})
Value(n, v) == Statement("value", "", n, {v}, {})
ValueIf(n, v) == Statement("value if", "", n, {v}, {})
Insert(t, what) == Statement("insert", t, what, {}, {})
Delete(t, what) == Statement("delete", t, what, {}, {})
Update(t, from, to) == Statement("update", t, from, {to}, {})
Move(t, what, to) == Statement("move", t, what, {to}, {})
Absent(t, what) == Statement("absent", t, what, {}, {})
Each(ts, op(_)) == FlattenSeq([i \in DOMAIN ts |-> op(ts[i])])

EmptySchema == [tables |-> <<>>, types |-> <<>>, rows |-> {}]
Refers(s, t, n) == \E k \in s.tables[t].cons : k.kind = "key" /\ k.to = n
Named(s, t, k) == \E h \in s.tables[t].cons : h.kind = k.kind /\ h.name = k.name

\* The database accepts the statement.
Works(s, st) ==
    LET there == st.table \in DOMAIN s.tables
        targets == \A k \in st.cons :
                      /\ k.kind = "key" => k.to \in DOMAIN s.tables
                      /\ k.kind = "enum" => k.name \in DOMAIN s.types
    IN  CASE st.do = "create" -> ~there /\ targets
          [] st.do = "create if" -> there \/ targets
          [] st.do = "drop" -> ~\E t \in DOMAIN s.tables \ {st.table} : Refers(s, t, st.table)
          [] st.do = "constrain" -> /\ there /\ targets /\ st.cols \subseteq s.tables[st.table].cols
                                    /\ \A k \in st.cons : ~Named(s, st.table, k)
          [] st.do = "constrain if" -> there /\ targets /\ st.cols \subseteq s.tables[st.table].cols
          [] st.do = "type" -> st.name \notin DOMAIN s.types
          [] st.do = "value" -> st.name \in DOMAIN s.types
          [] st.do = "drop type" -> \A t \in DOMAIN s.tables : \A k \in s.tables[t].cons :
                                        k.kind = "enum" => k.name # st.name
          [] st.do = "absent" -> <<st.table, st.name>> \notin s.rows
          [] st.do \in {"add", "remove", "unconstrain", "allow null", "drop pairs", "drop keys",
                        "insert", "delete", "update"} -> there /\ targets
          [] OTHER -> TRUE

\* (@@ <<>> adds nothing: TLC evaluates the function at once)
Tables(s, f) == [s EXCEPT !.tables = f @@ <<>>]
Table(s, t, cs, ks) == Tables(s, (t :> [cols |-> cs, cons |-> ks]) @@ s.tables)
Keep(s, t, keeps(_)) == Table(s, t, s.tables[t].cols, {k \in s.tables[t].cons : keeps(k)})
Without(s, t) ==
    Tables([s EXCEPT !.rows = {r \in @ : r[1] # t}],
           [u \in DOMAIN s.tables \ {t} |-> [s.tables[u] EXCEPT !.cons = {k \in @ : k.to # t}]])

\* What the statement does.
Effect(s, st) ==
    LET t == st.table
        cols == s.tables[t].cols
        cons == s.tables[t].cons
    IN  CASE st.do = "create" \/ (st.do = "create if" /\ t \notin DOMAIN s.tables) ->
                 Table(s, t, st.cols, st.cons)
          [] st.do \in {"drop", "drop cascade"} -> Without(s, t)
          [] st.do = "add" ->
                 Table(s, t, cols \cup st.cols, cons \cup {k \in st.cons : ~(k.cols \subseteq cols)})
          [] st.do = "remove" ->
                 Table(s, t, cols \ st.cols, {k \in cons : k.cols \cap st.cols = {}})
          [] st.do \in {"constrain", "constrain if"} ->
                 Table(s, t, cols, cons \cup {k \in st.cons : ~Named(s, t, k)})
          [] st.do = "unconstrain" ->
                 Keep(s, t, LAMBDA k : k.kind \notin {"key", "unique", "check"} \/ k.name # st.name)
          [] st.do = "allow null" -> Keep(s, t, LAMBDA k : k # Required(st.name))
          [] st.do = "drop keys" -> Keep(s, t, LAMBDA k : k.kind # "key" \/ st.name \notin k.cols)
          [] st.do = "drop pairs" -> Keep(s, t, LAMBDA k : k.kind # "unique" \/ Cardinality(k.cols) # 2)
          [] st.do = "drop index" ->
                 Tables(s, [u \in DOMAIN s.tables |-> [s.tables[u] EXCEPT !.cons =
                               {k \in @ : k.kind # "index" \/ k.name # st.name}]])
          [] st.do = "type" \/ (st.do = "type if" /\ st.name \notin DOMAIN s.types) ->
                 [s EXCEPT !.types = (st.name :> st.cols) @@ @]
          [] st.do \in {"value", "value if"} ->
                 [s EXCEPT !.types = [n \in DOMAIN @ |-> IF n = st.name THEN @[n] \cup st.cols ELSE @[n]] @@ <<>>]
          [] st.do = "drop type" ->
                 [s EXCEPT !.types = [n \in DOMAIN @ \ {st.name} |-> @[n]] @@ <<>>]
          [] st.do = "insert" -> [s EXCEPT !.rows = @ \cup {<<t, st.name>>}]
          [] st.do = "delete" -> [s EXCEPT !.rows = @ \ {<<t, st.name>>}]
          [] st.do = "update" /\ <<t, st.name>> \in s.rows ->
                 [s EXCEPT !.rows = @ \cup {<<t, c>> : c \in st.cols}]
          [] st.do = "move" /\ <<t, st.name>> \in s.rows ->
                 [s EXCEPT !.rows = @ \cup {<<c, st.name>> : c \in st.cols}]
          [] OTHER -> s

\* One transaction of statements: all of them, or none.  By halves, so that the
\* recursion is no deeper than it must be.
Failed == [EmptySchema EXCEPT !.rows = {<<"", "failed">>}]
RECURSIVE Execute(_, _)
Execute(s, sts) ==
    CASE sts = <<>> -> s
      [] Len(sts) = 1 -> IF Works(s, sts[1]) THEN Effect(s, sts[1]) ELSE Failed
      [] OTHER -> LET half == Len(sts) \div 2
                      left == Execute(s, SubSeq(sts, 1, half))
                  IN  IF left = Failed THEN Failed
                      ELSE Execute(left, SubSeq(sts, half + 1, Len(sts)))

TenantTables ==
    <<"users", "pipelines", "stages", "contacts", "leads", "companies", "channel_configs",
      "message_templates", "conversations", "messages", "scheduled_messages", "lead_activities",
      "tasks", "loss_reasons", "customer_origins", "customer_categories", "sectors",
      "stage_required_fields", "automations", "automation_executions">>
Taxonomies == <<<<"loss_reasons", "label">>, <<"customer_origins", "name">>,
                <<"customer_categories", "name">>, <<"sectors", "name">>>>

InitSchema ==
    [up |-> <<Type("user_role", {"owner", "agent"}),
             Create("users", {"id", "name", "email", "passwordHash", "role", "active",
                              "createdAt", "updatedAt"},
                 {Unique("users_email_key", {"email"}), Enum("user_role", "role")}),
             Create("pipelines", {"id", "name", "isDefault", "createdAt", "updatedAt"}, {}),
             Create("stages", {"id", "name", "position", "color", "pipelineId", "createdAt"},
                 {Key("stages_pipelineId_fkey", "pipelineId", "pipelines", "cascade")}),
             Create("contacts", {"id", "name", "phone", "email", "channelOrigin",
                                 "createdAt", "updatedAt"}, {}),
             Create("leads", {"id", "contactId", "stageId", "pipelineId", "assignedToId",
                              "value", "createdAt", "updatedAt"},
                 {Required("contactId"),
                 Key("leads_contactId_fkey", "contactId", "contacts", "no action"),
                  Key("leads_stageId_fkey", "stageId", "stages", "no action"),
                  Key("leads_pipelineId_fkey", "pipelineId", "pipelines", "no action"),
                  Key("leads_assignedToId_fkey", "assignedToId", "users", "no action")}),
             Create("message_templates", {"id", "name", "body", "createdById", "createdAt"},
                 {Key("message_templates_createdById_fkey", "createdById", "users", "no action")})>>,
     down |-> <<Drop("message_templates"), Drop("leads"), Drop("contacts"), Drop("stages"),
               Drop("pipelines"), Drop("users"), DropType("user_role")>>]

MessagingSchema ==
    [up |-> <<Create("conversations", {"id", "leadId", "channelType", "externalId",
                                      "createdAt", "updatedAt"},
                 {Required("leadId"),
                 Key("conversations_leadId_fkey", "leadId", "leads", "cascade"),
                  Unique("conversations_leadId_channelType_key", {"leadId", "channelType"})}),
             Create("messages", {"id", "conversationId", "body", "direction", "type",
                                 "status", "externalMessageId", "sentAt", "createdAt"},
                 {Key("messages_conversationId_fkey", "conversationId", "conversations", "cascade"),
                  Unique("messages_externalMessageId_key", {"externalMessageId"})}),
             Create("channel_configs", {"id", "name", "type", "config", "status", "active",
                                        "createdAt", "updatedAt"}, {}),
             Create("automations", {"id", "stageId", "delayMinutes", "channelType",
                                    "channelConfigId", "templateId", "active", "createdAt"},
                 {Key("automations_stageId_fkey", "stageId", "stages", "cascade"),
                  Key("automations_channelConfigId_fkey", "channelConfigId", "channel_configs", "no action"),
                  Key("automations_templateId_fkey", "templateId", "message_templates", "no action"),
                  Unique("automations_stageId_key", {"stageId"})}),
             Create("automation_executions", {"id", "automationId", "leadId", "executedAt"},
                 {Key("automation_executions_automationId_fkey", "automationId", "automations", "cascade"),
                  Key("automation_executions_leadId_fkey", "leadId", "leads", "cascade"),
                  Unique("automation_executions_automationId_leadId_key",
                 {"automationId", "leadId"})}),
             Create("scheduled_messages", {"id", "conversationId", "body",
                                           "channelConfigId", "scheduledAt", "status",
                                           "createdById", "bullJobId", "createdAt"},
                 {Key("scheduled_messages_conversationId_fkey", "conversationId", "conversations", "cascade"),
                  Key("scheduled_messages_channelConfigId_fkey", "channelConfigId", "channel_configs", "no action"),
                  Key("scheduled_messages_createdById_fkey", "createdById", "users", "no action")})>>,
     down |-> <<Drop("scheduled_messages"), Drop("automation_executions"),
               Drop("automations"), Drop("channel_configs"), Drop("messages"),
               Drop("conversations")>>]

LeadV2 ==
    [up |-> <<Type("lead_status", {"active", "won", "lost"}),
             AddColumns("leads", {"title", "status", "lossReason", "startDate",
                                  "conclusionDate", "stageEnteredAt"},
                 {Enum("lead_status", "status")}),
             AddColumns("contacts", {"origin"}, {}),
             Type("activity_type", {"note", "call", "whatsapp", "meeting", "visit", "proposal"}),
             Create("lead_activities", {"id", "leadId", "type", "body", "createdById",
                                        "createdAt"},
                 {Key("lead_activities_leadId_fkey", "leadId", "leads", "cascade"),
                  Enum("activity_type", "type"),
                  Key("lead_activities_createdById_fkey", "createdById", "users", "no action")})>>,
     down |-> <<Drop("lead_activities"), DropType("activity_type"),
               DropColumns("contacts", {"origin"}),
               DropColumns("leads", {"title", "status", "lossReason", "startDate",
                                     "conclusionDate", "stageEnteredAt"}),
               DropType("lead_status")>>]

LossReasons ==
    [up |-> <<Create("loss_reasons", {"id", "label", "createdAt"},
                 {Unique("UQ_loss_reasons_label", {"label"})})>>,
     down |-> <<Drop("loss_reasons")>>]

LeadArchive ==
    [up |-> <<AddColumns("leads", {"archivedAt"}, {})>>,
     down |-> <<DropColumns("leads", {"archivedAt"})>>]

ContactExtraFields ==
    [up |-> <<AddColumns("contacts", {"company", "role", "website", "zipCode"}, {}),
             AddColumns("leads", {"notes"}, {})>>,
     down |-> <<DropColumns("contacts", {"company", "role", "website", "zipCode"}),
               DropColumns("leads", {"notes"})>>]

TasksSchema ==
    [up |-> <<TypeIf("tasks_type_enum",
                 {"email", "call", "whatsapp", "proposal", "meeting", "visit"}),
             TypeIf("tasks_status_enum", {"pending", "completed"}),
             TypeIf("tasks_targettype_enum", {"contact", "lead", "company"}),
             CreateIf("tasks", {"id", "type", "description", "dueDate", "status",
                                "responsibleIds", "targetType", "targetId", "targetLabel",
                                "attachments", "createdById", "completedAt", "createdAt",
                                "updatedAt"},
                 {Enum("tasks_type_enum", "type"), Enum("tasks_status_enum", "status"),
                  Enum("tasks_targettype_enum", "targetType")}),
             Constrain("tasks", Key("FK_tasks_createdBy", "createdById", "users", "set null"))>>,
     down |-> <<Drop("tasks"), DropType("tasks_targettype_enum"),
               DropType("tasks_status_enum"), DropType("tasks_type_enum")>>]

CompaniesSchema ==
    [up |-> <<TypeIf("companies_privacy_enum", {"all", "restricted"}),
             CreateIf("companies", {"id", "name", "cnpj", "razaoSocial", "categoria",
                                    "origem", "setor", "descricao", "responsibleId",
                                    "privacy", "additionalAccessUserIds", "email",
                                    "whatsapp", "telefone", "celular", "fax", "ramal",
                                    "website", "cep", "pais", "estado", "cidade", "bairro",
                                    "rua", "numero", "complemento", "produtos",
                                    "pessoaIds", "facebook", "twitter", "linkedin",
                                    "skype", "instagram", "ranking", "createdAt",
                                    "updatedAt"},
                 {Enum("companies_privacy_enum", "privacy")}),
             Constrain("companies",
                 Key("FK_companies_responsible", "responsibleId", "users", "set null"))>>,
     down |-> <<Drop("companies"), DropType("companies_privacy_enum")>>]

LeadPessoaExtras ==
    [up |-> <<TypeIf("leads_privacy_enum", {"all", "restricted"}),
             AddColumns("leads", {"privacy", "additionalAccessUserIds", "items"},
                 {Enum("leads_privacy_enum", "privacy")}),
             AddColumns("contacts", {"categoria", "responsibleId"}, {}),
             ConstrainIf("contacts",
                 Key("FK_contacts_responsible", "responsibleId", "users", "set null"))>>,
     down |-> <<DropColumns("leads", {"privacy", "additionalAccessUserIds", "items"}),
               Unconstrain("contacts", "FK_contacts_responsible"),
               DropColumns("contacts", {"categoria", "responsibleId"}),
               DropType("leads_privacy_enum")>>]

PessoaExtras ==
    [up |-> <<TypeIf("contacts_privacy_enum", {"all", "restricted"}),
             AddColumns("contacts", {"cpf", "birthDay", "birthYear", "origem", "descricao",
                                     "whatsapp", "celular", "fax", "ramal", "pais",
                                     "estado", "cidade", "bairro", "rua", "numero",
                                     "complemento", "produtos", "facebook", "twitter",
                                     "linkedin", "skype", "instagram", "privacy",
                                     "additionalAccessUserIds"},
                 {Enum("contacts_privacy_enum", "privacy")})>>,
     down |-> <<DropColumns("contacts", {"cpf", "birthDay", "birthYear", "origem",
                                        "descricao", "whatsapp", "celular", "fax", "ramal",
                                        "pais", "estado", "cidade", "bairro", "rua",
                                        "numero", "complemento", "produtos", "facebook",
                                        "twitter", "linkedin", "skype", "instagram",
                                        "privacy", "additionalAccessUserIds"}),
               DropType("contacts_privacy_enum")>>]

LeadNegocioExtras ==
    [up |-> <<AddColumns("leads", {"createdById", "ranking"}, {}),
             ConstrainIf("leads",
                 Key("FK_leads_createdBy", "createdById", "users", "set null"))>>,
     down |-> <<Unconstrain("leads", "FK_leads_createdBy"),
               DropColumns("leads", {"createdById", "ranking"})>>]

PipelineSigla ==
    [up |-> <<AddColumns("pipelines", {"sigla"}, {})>>,
     down |-> <<DropColumns("pipelines", {"sigla"})>>]

StageTimeLimit ==
    [up |-> <<AddColumns("stages", {"timeLimitDays"}, {})>>,
     down |-> <<DropColumns("stages", {"timeLimitDays"})>>]

SettingsTaxonomies ==
    [up |-> <<CreateIf("customer_origins", {"id", "name", "createdAt"},
                 {Unique("UQ_customer_origins_name", {"name"})}),
             CreateIf("customer_categories", {"id", "name", "createdAt"},
                 {Unique("UQ_customer_categories_name", {"name"})}),
             CreateIf("sectors", {"id", "name", "createdAt"},
                 {Unique("UQ_sectors_name", {"name"})})>>,
     down |-> <<Drop("sectors"), Drop("customer_categories"), Drop("customer_origins")>>]

StageRequiredFields ==
    [up |-> <<CreateIf("stage_required_fields", {"id", "stageId", "targetType", "fieldKey",
                                                "question", "position", "createdAt"},
                 {Key("FK_stage_required_fields_stage", "stageId", "stages", "cascade"),
                  Unique("UQ_stage_required_fields_key",
                 {"stageId", "targetType", "fieldKey"})})>>,
     down |-> <<Drop("stage_required_fields")>>]

AutomationsWorkflow ==
    [up |-> <<DropCascade("automation_executions"), DropCascade("automations"),
             Create("automations", {"id", "name", "triggerType", "pipelineId", "stageId",
                                    "active", "createdAt", "updatedAt"},
                 {Key("FK_automations_pipeline", "pipelineId", "pipelines", "cascade"),
                  Key("FK_automations_stage", "stageId", "stages", "cascade")}),
             Create("automation_steps", {"id", "automationId", "position", "type",
                                         "config", "createdAt"},
                 {Key("FK_automation_steps_automation", "automationId", "automations", "cascade")}),
             Create("automation_executions", {"id", "automationId", "leadId", "status",
                                              "currentStepPosition", "startedAt",
                                              "updatedAt"},
                 {Key("FK_automation_executions_automation", "automationId", "automations", "cascade"),
                  Key("FK_automation_executions_lead", "leadId", "leads", "cascade"),
                  Unique("UQ_automation_executions_auto_lead", {"automationId", "leadId"})})>>,
     down |-> <<DropCascade("automation_executions"), DropCascade("automation_steps"),
               DropCascade("automations")>>]

WorkspacesFoundation ==
    [up |->
        <<Create("workspaces", {"id", "name", "ownerUserId", "trialStartedAt", "trialEndsAt",
                                "subscriptionStatus", "createdAt", "updatedAt"}, {})>>
        \o Each(TenantTables, LAMBDA t: <<AddColumns(t, {"workspaceId"}, {}),
               Constrain(t, Required("workspaceId")),
               Constrain(t, Key("FK_" \o t \o "_workspace", "workspaceId", "workspaces", "cascade"))>>)
        \o <<Constrain("workspaces",
                 Key("FK_workspaces_owner", "ownerUserId", "users", "set null")),
             Unconstrain("users", "users_email_key"), DropIndex("UQ_users_email"),
             Index("users", "UQ_users_workspace_email", {"workspaceId", "email"}),
             AddColumns("users", {"phone", "phoneVerified"}, {})>>
        \o Each(Taxonomies, LAMBDA t: <<Unconstrain(t[1], t[1] \o "_" \o t[2] \o "_key"),
               Constrain(t[1], Unique("UQ_" \o t[1] \o "_workspace_" \o t[2],
                 {"workspaceId", t[2]}))>>),
     down |->
        Each(Reverse(Taxonomies), LAMBDA t:
               <<Unconstrain(t[1], "UQ_" \o t[1] \o "_workspace_" \o t[2])>>)
        \o <<DropColumns("users",
                 {"phoneVerified", "phone"}), DropIndex("UQ_users_workspace_email"),
             Absent("users", "one address in two workspaces"),
             Index("users", "UQ_users_email", {"email"}),
             Unconstrain("workspaces", "FK_workspaces_owner")>>
        \o Each(TenantTables, LAMBDA t:
               <<Unconstrain(t, "FK_" \o t \o "_workspace"), DropColumns(t, {"workspaceId"})>>)
        \o <<Drop("workspaces")>>]

UserIntegrations ==
    [up |-> <<CreateIf("user_integrations", {"id", "userId", "provider", "accessToken",
                                            "refreshToken", "expiresAt", "accountEmail",
                                            "createdAt", "updatedAt"},
                 {Unique("UQ_user_integrations_user_provider", {"userId", "provider"})}),
             AddColumns("tasks", {"googleEventIds"}, {})>>,
     down |-> <<DropColumns("tasks", {"googleEventIds"}), Drop("user_integrations")>>]

SignupAndAppSettings ==
    [up |-> <<CreateIf("app_settings", {"id", "systemChannelConfigId", "signupEnabled",
                                       "trialDays", "updatedAt"}, {}),
             Insert("app_settings", "singleton"),
             CreateIf("otp_verifications", {"id", "phone", "codeHash", "purpose",
                                            "payload", "attempts", "expiresAt",
                                            "consumedAt", "createdAt"}, {})>>,
     down |-> <<Drop("otp_verifications"), Drop("app_settings")>>]

PlatformAdmin ==
    [up |-> <<CreateIf("platform_audit_logs", {"id", "actorEmail", "actorUserId", "action",
                                              "targetWorkspaceId", "targetUserId",
                                              "metadata", "createdAt"}, {}),
             CreateIf("platform_broadcasts", {"id", "title", "body", "severity", "active",
                                              "startsAt", "endsAt", "createdByEmail",
                                              "createdAt", "updatedAt"}, {}),
             CreateIf("feature_flags", {"id", "key", "workspaceId", "enabled", "metadata",
                                        "createdAt", "updatedAt"}, {}),
             IndexIf("feature_flags", "UQ_flag_key_ws", {"key", "workspaceId"})>>,
     down |-> <<Drop("feature_flags"), Drop("platform_broadcasts"),
               Drop("platform_audit_logs")>>]

LeadCompany ==
    [up |-> <<AllowNull("leads", "contactId"), AddColumns("leads", {"companyId"}, {}),
             Constrain("leads", Key("FK_leads_company", "companyId", "companies", "set null"))>>,
     down |-> <<Unconstrain("leads", "FK_leads_company"), DropColumns("leads", {"companyId"}),
               Absent("leads", "without contact"), ForbidNull("leads", "contactId")>>]

LeadExternalContact ==
    [up |-> <<AddColumns("leads", {"externalName", "externalPhone"}, {})>>,
     down |-> <<DropColumns("leads", {"externalPhone", "externalName"})>>]

PipelineKind ==
    [up |-> <<AddColumns("pipelines", {"kind"}, {})>>,
     down |-> <<DropColumns("pipelines", {"kind"})>>]

UserAvatar ==
    [up |-> <<AddColumns("users", {"avatarUrl", "avatarKey"}, {}),
             AddColumns("contacts", {"avatarUrl", "avatarKey"}, {}),
             AddColumns("companies", {"avatarUrl", "avatarKey"}, {})>>,
     down |-> <<DropColumns("companies", {"avatarKey", "avatarUrl"}),
               DropColumns("contacts", {"avatarKey", "avatarUrl"}),
               DropColumns("users", {"avatarKey", "avatarUrl"})>>]

Labels ==
    [up |-> <<CreateIf("labels", {"id", "workspaceId", "name", "color", "createdAt",
                                 "updatedAt"}, {}),
             CreateIf("lead_labels", {"leadId", "labelId"},
                 {Key("lead_labels_leadId_fkey", "leadId", "leads", "cascade"),
                  Key("lead_labels_labelId_fkey", "labelId", "labels", "cascade")})>>,
     down |-> <<Drop("lead_labels"), Drop("labels")>>]

ProductClient ==
    [up |-> <<Unconstrain("products", "UQ_products_workspaceId_name"),
             AddColumns("products", {"clientId", "clientType", "clientName"}, {})>>,
     down |-> <<DropColumns("products", {"clientId", "clientType", "clientName"})>>]

Products ==
    [up |-> <<CreateIf("products", {"id", "workspaceId", "name", "type", "appliesTo",
                                   "price", "active", "createdAt", "updatedAt"},
                 {Unique("UQ_products_workspace_name", {"workspaceId", "name"})})>>,
     down |-> <<Drop("products")>>]

ProductsDealScope ==
    [up |-> <<DropColumns("products", {"clientId", "clientType", "clientName", "appliesTo"}),
             ConstrainIf("products",
                 Unique("UQ_products_workspace_name", {"workspaceId", "name"}))>>,
     down |-> <<AddColumns("products", {"appliesTo", "clientId", "clientType", "clientName"},
                 {})>>]

PlansAndWorkspacePlan ==
    [up |-> <<CreateIf("plans", {"id", "slug", "name", "description", "priceMonthlyCents",
                                "features", "highlight", "active", "sortOrder",
                                "createdAt", "updatedAt"},
                 {Unique("UQ_plans_slug", {"slug"})}),
             AddColumns("workspaces", {"planSlug"}, {}), Insert("plans", "pro"),
             Insert("plans", "performance"),
             Insert("plans", "performance sells whatsapp_channels")>>,
     down |-> <<DropColumns("workspaces", {"planSlug"}), Drop("plans")>>]

AddWhatsappChannelsFeature ==
    [up |-> <<Insert("plans", "performance sells whatsapp_channels")>>,
     down |-> <<Delete("plans", "performance sells whatsapp_channels")>>]

UserPreferences ==
    [up |-> <<CreateIf("user_preferences", {"id", "userId", "key", "value", "updatedAt"},
                 {Unique("UQ_user_prefs_user_key", {"userId", "key"})})>>,
     down |-> <<Drop("user_preferences")>>]

GrandfatherExistingWorkspaces ==
    [up |-> <<Update("workspaces", "signed up", "granted")>>, down |-> <<>>]

AddCollaboratorRoles ==
    [up |-> <<ValueIf("users_role_enum", "manager"), ValueIf("users_role_enum", "seller")>>,
     down |-> <<>>]

SeedTrialPlan ==
    [up |-> <<Insert("plans", "trial")>>, down |-> <<Delete("plans", "trial")>>]

StripeBilling ==
    [up |-> <<AddColumns("workspaces", {"stripeCustomerId", "stripeSubscriptionId",
                                       "currentPeriodEnd", "cancelAtPeriodEnd"}, {}),
             IndexIf("workspaces", "IDX_workspaces_stripeCustomerId", {"stripeCustomerId"}),
             IndexIf("workspaces", "IDX_workspaces_stripeSubscriptionId",
                 {"stripeSubscriptionId"}),
             AddColumns("plans", {"stripePriceId", "stripeProductId"}, {}),
             CreateIf("stripe_webhook_events", {"id", "type", "receivedAt"}, {})>>,
     down |-> <<Drop("stripe_webhook_events"),
               DropIndex("IDX_workspaces_stripeSubscriptionId"),
               DropIndex("IDX_workspaces_stripeCustomerId"),
               DropColumns("plans", {"stripePriceId", "stripeProductId"}),
               DropColumns("workspaces", {"stripeCustomerId", "stripeSubscriptionId",
                                          "currentPeriodEnd", "cancelAtPeriodEnd"})>>]

AddCustomerOriginToLeads ==
    [up |-> <<AddColumns("leads", {"customerOriginId"}, {}),
             Constrain("leads", Key("fk_leads_customer_origin", "customerOriginId", "customer_origins", "set null"))>>,
     down |-> <<Unconstrain("leads", "fk_leads_customer_origin"),
               DropColumns("leads", {"customerOriginId"})>>]

AddScheduledCompletedToActivities ==
    [up |-> <<AddColumns("lead_activities", {"scheduledAt", "completedAt", "updatedAt"}, {})>>,
     down |-> <<DropColumns("lead_activities", {"scheduledAt", "completedAt", "updatedAt"})>>]

CreateContactActivities ==
    [up |-> <<Type("contact_activity_type_enum",
                 {"note", "email", "call", "whatsapp", "meeting", "visit", "proposal"}),
             CreateIf("contact_activities", {"id", "workspaceId", "contactId", "companyId",
                                             "type", "body", "createdById", "scheduledAt",
                                             "completedAt", "createdAt", "updatedAt"},
                 {Key("contact_activities_contactId_fkey", "contactId", "contacts", "cascade"),
                  Key("contact_activities_companyId_fkey", "companyId", "companies", "cascade"),
                  Enum("contact_activity_type_enum", "type"),
                  Key("contact_activities_createdById_fkey", "createdById", "users", "set null")})>>,
     down |-> <<Drop("contact_activities"), DropType("contact_activity_type_enum")>>]

AddDefaultLeadPrivacyToWorkspace ==
    [up |-> <<AddColumns("workspaces", {"defaultLeadPrivacy"}, {})>>,
     down |-> <<DropColumns("workspaces", {"defaultLeadPrivacy"})>>]

AddFrozenStatusToLeads ==
    [up |-> <<AddColumns("leads", {"freezeReason", "frozenReturnDate"}, {})>>,
     down |-> <<DropColumns("leads", {"frozenReturnDate", "freezeReason"})>>]

AddWidgetConfigToWorkspace ==
    [up |-> <<AddColumns("workspaces", {"widgetConfig"}, {})>>,
     down |-> <<DropColumns("workspaces", {"widgetConfig"})>>]

AddPipelineIdToLabels ==
    [up |-> <<AddColumns("labels", {"pipelineId"},
                 {Key("labels_pipelineId_fkey", "pipelineId", "pipelines", "cascade")})>>,
     down |-> <<DropColumns("labels", {"pipelineId"})>>]

SeedDefaultLossReasons ==
    [up |-> <<Unconstrain("loss_reasons", "UQ_loss_reasons_label"),
             ConstrainIf("loss_reasons",
                 Unique("UQ_loss_reasons_workspace_label", {"workspaceId", "label"})),
             Insert("loss_reasons", "defaults")>>,
     down |-> <<Unconstrain("loss_reasons", "UQ_loss_reasons_workspace_label"),
               Absent("workspaces", "signed up"),
               Constrain("loss_reasons", Unique("UQ_loss_reasons_label", {"label"})),
               Delete("loss_reasons", "defaults")>>]

AddFrozenToLeadStatusEnum ==
    [up |-> <<Value("lead_status", "frozen")>>, down |-> <<>>]

FixRoleEnumValues ==
    [up |-> <<ValueIf("user_role", "manager"), ValueIf("user_role", "seller"),
             ValueIf("users_role_enum", "manager"), ValueIf("users_role_enum", "seller")>>,
     down |-> <<>>]

FixLeadContactFkOnDelete ==
    [up |-> <<DropKeys("leads", "contactId"),
             Constrain("leads", Key("FK_leads_contactId", "contactId", "contacts", "set null"))>>,
     down |-> <<Unconstrain("leads", "FK_leads_contactId"),
               Constrain("leads",
                 Key("FK_leads_contactId", "contactId", "contacts", "no action"))>>]

AuditLogs ==
    [up |-> <<Create("audit_logs", {"id", "workspaceId", "userId", "action", "resourceType",
                                   "resourceId", "changes", "ipAddress", "userAgent",
                                   "requestId", "createdAt"}, {})>>,
     down |-> <<Drop("audit_logs")>>]

SoftDeleteAndDpo ==
    LET Trashed == <<"leads", "contacts", "companies", "products">>
    IN  [up |-> Each(Trashed, LAMBDA t: <<AddColumns(t, {"deletedAt"}, {})>>)
                \o <<AddColumns("users", {"scheduledDeletionAt"}, {})>>,
         down |-> <<DropColumns("users", {"scheduledDeletionAt"})>>
                  \o Each(Trashed, LAMBDA t: <<DropColumns(t, {"deletedAt"})>>)]

PaginationIndexes ==
    [up |-> <<>>, down |-> <<>>]

PgTrgmIndexes ==
    [up |-> <<>>, down |-> <<>>]

AddLeadScore ==
    [up |-> <<AddColumns("leads", {"score"}, {}),
             Constrain("leads", Check("chk_leads_score_range"))>>,
     down |-> <<Unconstrain("leads", "chk_leads_score_range"),
               DropColumns("leads", {"score"})>>]

AddConversationLastReadAt ==
    [up |-> <<AddColumns("conversations", {"lastReadAt"}, {})>>,
     down |-> <<DropColumns("conversations", {"lastReadAt"})>>]

MultiConversationsPerLead ==
    [up |-> <<DropPairs("conversations"),
             Index("conversations", "idx_conversations_unique_external",
                   {"workspaceId", "leadId", "channelType", "externalId"})>>,
     down |-> <<DropIndex("idx_conversations_unique_external"),
               Absent("conversations", "two of one lead and channel"),
               Constrain("conversations",
                 Unique("UQ_conversations_lead_channel", {"leadId", "channelType"}))>>]

RollbackAgentsAndAiSettings ==
    [up |-> <<Drop("agents"), Drop("workspace_ai_settings"), Delete("plans", "ai_enterprise")>>,
     down |-> <<>>]

AiAssistFoundation ==
    [up |-> <<CreateIf("workspace_ai_usage", {"id", "workspaceId", "month", "tokensUsed",
                                             "monthlyBudgetTokens", "createdAt", "updatedAt"},
                 {}),
             IndexIf("workspace_ai_usage", "uq_workspace_ai_usage_month",
                 {"workspaceId", "month"})>>,
     down |-> <<DropIndex("uq_workspace_ai_usage_month"), Drop("workspace_ai_usage")>>]

MediaMessagesAndQuickReplies ==
    [up |-> <<AddColumns("messages", {"mediaUrl", "mediaMimeType", "mediaCaption",
                                     "mediaFileName", "reaction", "deletedAt"}, {}),
             CreateIf("quick_replies", {"id", "workspaceId", "title", "shortcut", "body",
                                        "category", "createdById", "createdAt", "updatedAt"},
                 {})>>,
     down |-> <<Drop("quick_replies"),
               DropColumns("messages", {"deletedAt", "reaction", "mediaFileName",
                                        "mediaCaption", "mediaMimeType", "mediaUrl"})>>]

SeedFunilDeVendaForExistingWorkspaces ==
    [up |-> <<Insert("stages", "a funnel in every workspace")>>, down |-> <<>>]

AgendasSchema ==
    [up |-> <<TypeIf("appointments_status_enum",
                 {"pending", "confirmed", "cancelled", "completed"}),
             CreateIf("agendas", {"id", "workspaceId", "name", "description", "ownerName",
                                  "color", "services", "workingHours", "isActive",
                                  "createdAt", "updatedAt"}, {}),
             CreateIf("appointments", {"id", "workspaceId", "agendaId", "contactId",
                                       "leadId", "title", "description", "service",
                                       "startAt", "endAt", "status", "notes",
                                       "createdById", "metadata", "createdAt", "updatedAt"},
                 {Enum("appointments_status_enum", "status")}),
             Constrain("appointments",
                 Key("FK_appointments_agenda", "agendaId", "agendas", "cascade"))>>,
     down |-> <<Unconstrain("appointments", "FK_appointments_agenda"), Drop("appointments"),
               Drop("agendas"), DropType("appointments_status_enum")>>]

AgendaAddOwnerId ==
    [up |-> <<AddColumns("agendas", {"ownerId"}, {})>>,
     down |-> <<DropColumns("agendas", {"ownerId"})>>]

ConversationNullableLead ==
    [up |-> <<AllowNull("conversations", "leadId")>>,
     down |-> <<ForbidNull("conversations", "leadId")>>]

TaskAddLocation ==
    [up |-> <<AddColumns("tasks", {"location"}, {})>>,
     down |-> <<DropColumns("tasks", {"location"})>>]

TaskStatusAddCancelled ==
    [up |-> <<Value("tasks_status_enum", "cancelled")>>, down |-> <<>>]

ConversationFromName ==
    [up |-> <<AddColumns("conversations", {"fromName"}, {})>>,
     down |-> <<DropColumns("conversations", {"fromName"})>>]

ConversationFromAvatarUrl ==
    [up |-> <<AddColumns("conversations", {"fromAvatarUrl"}, {})>>,
     down |-> <<DropColumns("conversations", {"fromAvatarUrl"})>>]

DeduplicateConversationsUniqueIndex ==
    [up |-> <<Delete("conversations", "two of one external id"),
             DropIndex("idx_conversations_unique_external"),
             Index("conversations", "idx_conversations_unique_by_external",
                   {"workspaceId", "channelType", "externalId"})>>,
     down |-> <<DropIndex("idx_conversations_unique_by_external"),
               Index("conversations", "idx_conversations_unique_external",
                     {"workspaceId", "leadId", "channelType", "externalId"})>>]

InboxTags ==
    [up |-> <<CreateIf("inbox_tags", {"id", "workspaceId", "name", "color", "position",
                                     "createdAt", "updatedAt"}, {}),
             AddColumns("conversations", {"inboxTagId"},
                 {Key("conversations_inboxTagId_fkey", "inboxTagId", "inbox_tags", "set null")})>>,
     down |-> <<DropColumns("conversations", {"inboxTagId"}), Drop("inbox_tags")>>]

ConversationArchive ==
    [up |-> <<AddColumns("conversations", {"archivedAt"}, {})>>,
     down |-> <<DropColumns("conversations", {"archivedAt"})>>]

FixOutboundFromName ==
    [up |-> <<Delete("conversations", "named after the channel")>>, down |-> <<>>]

GlobalLabels ==
    [up |-> <<AddColumns("labels", {"position"}, {}), Delete("labels", "of one pipeline"),
             Move("inbox_tags", "a tag", "labels"),
             CreateIf("conversation_labels", {"conversationId", "labelId"},
                 {Key("conversation_labels_conversationId_fkey", "conversationId", "conversations", "cascade"),
                  Key("conversation_labels_labelId_fkey", "labelId", "labels", "cascade")}),
             Move("conversations", "a tag", "conversation_labels"),
             DropColumns("conversations", {"inboxTagId"}), Drop("inbox_tags")>>,
     down |-> <<CreateIf("inbox_tags", {"id", "workspaceId", "name", "color", "position",
                                       "createdAt", "updatedAt"}, {}),
               AddColumns("conversations", {"inboxTagId"},
                 {Key("conversations_inboxTagId_fkey", "inboxTagId", "inbox_tags", "set null")}),
               Drop("conversation_labels"), DropColumns("labels", {"position"})>>]

\* Mutated form of ConversationPin: the down forgets the column.
ConversationPin_Stays ==
    [up |-> <<AddColumns("conversations", {"pinnedAt"}, {})>>, down |-> <<>>]

ConversationPin ==
    [up |-> <<AddColumns("conversations", {"pinnedAt"}, {})>>,
     down |-> <<DropColumns("conversations", {"pinnedAt"})>>]

MessageDedupIndex ==
    [up |-> <<>>, down |-> <<>>]

\* By the time in their names.  Two pairs share theirs: StripeBilling and
\* SeedTrialPlan touch different tables, Products and ProductClient do not.
History ==
    <<<<"InitSchema", InitSchema>>, <<"MessagingSchema", MessagingSchema>>,
      <<"LeadV2", LeadV2>>, <<"LossReasons", LossReasons>>, <<"LeadArchive", LeadArchive>>,
      <<"ContactExtraFields", ContactExtraFields>>, <<"TasksSchema", TasksSchema>>,
      <<"CompaniesSchema", CompaniesSchema>>, <<"LeadPessoaExtras", LeadPessoaExtras>>,
      <<"PessoaExtras", PessoaExtras>>, <<"LeadNegocioExtras", LeadNegocioExtras>>,
      <<"PipelineSigla", PipelineSigla>>, <<"StageTimeLimit", StageTimeLimit>>,
      <<"SettingsTaxonomies", SettingsTaxonomies>>,
      <<"StageRequiredFields", StageRequiredFields>>,
      <<"AutomationsWorkflow", AutomationsWorkflow>>,
      <<"WorkspacesFoundation", WorkspacesFoundation>>,
      <<"UserIntegrations", UserIntegrations>>,
      <<"SignupAndAppSettings", SignupAndAppSettings>>, <<"PlatformAdmin", PlatformAdmin>>,
      <<"LeadCompany", LeadCompany>>, <<"LeadExternalContact", LeadExternalContact>>,
      <<"PipelineKind", PipelineKind>>, <<"UserAvatar", UserAvatar>>, <<"Labels", Labels>>,
      <<"ProductClient", ProductClient>>, <<"Products", Products>>,
      <<"ProductsDealScope", ProductsDealScope>>,
      <<"PlansAndWorkspacePlan", PlansAndWorkspacePlan>>,
      <<"AddWhatsappChannelsFeature", AddWhatsappChannelsFeature>>,
      <<"UserPreferences", UserPreferences>>,
      <<"GrandfatherExistingWorkspaces", GrandfatherExistingWorkspaces>>,
      <<"AddCollaboratorRoles", AddCollaboratorRoles>>, <<"SeedTrialPlan", SeedTrialPlan>>,
      <<"StripeBilling", StripeBilling>>,
      <<"AddCustomerOriginToLeads", AddCustomerOriginToLeads>>,
      <<"AddScheduledCompletedToActivities", AddScheduledCompletedToActivities>>,
      <<"CreateContactActivities", CreateContactActivities>>,
      <<"AddDefaultLeadPrivacyToWorkspace", AddDefaultLeadPrivacyToWorkspace>>,
      <<"AddFrozenStatusToLeads", AddFrozenStatusToLeads>>,
      <<"AddWidgetConfigToWorkspace", AddWidgetConfigToWorkspace>>,
      <<"AddPipelineIdToLabels", AddPipelineIdToLabels>>,
      <<"SeedDefaultLossReasons", SeedDefaultLossReasons>>,
      <<"AddFrozenToLeadStatusEnum", AddFrozenToLeadStatusEnum>>,
      <<"FixRoleEnumValues", FixRoleEnumValues>>,
      <<"FixLeadContactFkOnDelete", FixLeadContactFkOnDelete>>, <<"AuditLogs", AuditLogs>>,
      <<"SoftDeleteAndDpo", SoftDeleteAndDpo>>, <<"PaginationIndexes", PaginationIndexes>>,
      <<"PgTrgmIndexes", PgTrgmIndexes>>, <<"AddLeadScore", AddLeadScore>>,
      <<"AddConversationLastReadAt", AddConversationLastReadAt>>,
      <<"MultiConversationsPerLead", MultiConversationsPerLead>>,
      <<"RollbackAgentsAndAiSettings", RollbackAgentsAndAiSettings>>,
      <<"AiAssistFoundation", AiAssistFoundation>>,
      <<"MediaMessagesAndQuickReplies", MediaMessagesAndQuickReplies>>,
      <<"SeedFunilDeVendaForExistingWorkspaces", SeedFunilDeVendaForExistingWorkspaces>>,
      <<"AgendasSchema", AgendasSchema>>, <<"AgendaAddOwnerId", AgendaAddOwnerId>>,
      <<"ConversationNullableLead", ConversationNullableLead>>,
      <<"TaskAddLocation", TaskAddLocation>>,
      <<"TaskStatusAddCancelled", TaskStatusAddCancelled>>,
      <<"ConversationFromName", ConversationFromName>>,
      <<"ConversationFromAvatarUrl", ConversationFromAvatarUrl>>,
      <<"DeduplicateConversationsUniqueIndex", DeduplicateConversationsUniqueIndex>>,
      <<"InboxTags", InboxTags>>, <<"ConversationArchive", ConversationArchive>>,
      <<"FixOutboundFromName", FixOutboundFromName>>, <<"GlobalLabels", GlobalLabels>>,
      <<"ConversationPin", ConversationPin>>, <<"MessageDedupIndex", MessageDedupIndex>>>>
=============================================================================
