---- MODULE Navigation ----
(***************************************************************************)
(* The pages of the client and who gets them: a page has the guard of its  *)
(* route in the layout and the screen that it shows.                       *)
(***************************************************************************)
EXTENDS Endpoints, PageScreens

Page(guard, screen) == [guard |-> guard, screen |-> screen]
Staff == Only(AllRoles \ {"agent"})          \* AuthedLayout sends agents to /mobile
Owners == Only({"owner"})

InLayout(screen) == Screen({}, {}, {AuthedLayout, screen})
InSettings(screen) == Screen({}, {}, {Settings, screen})

Guests == [Anyone EXCEPT !.roles = {}]       \* /login and /signup redirect a session

PublicPages == {Page(Guests, LoginForm), Page(Guests, ForgotPasswordFlow), Page(Guests, Signup),
                Page(Anyone, WidgetPage)}

MemberPages ==
    {Page(Members, AgendaMobile)}
    \cup {Page(Staff, InLayout(screen)) : screen \in
            {Inicio, Pessoas, Negocios, Funil, Companies, Calendario, Perfil, Assinar, BillingSuccess}}
    \cup {Page(WithFeature(Staff), InLayout(screen)) : screen \in {Tasks, Inbox, Analytics}}
    \cup {Page([Staff EXCEPT !.admin = TRUE], InLayout(screen)) : screen \in
            {AuditTab, BroadcastsTab, AdminChannelsTab, FeatureFlagsTab, OverviewTab, PlansTab,
             SubscriptionsTab, WorkspacesTab}}

SettingsPages ==
    {Page(Owners, InSettings(screen)) : screen \in
        {FunisEtapasTab, MotivosPerdaTab, ProdutosServicosTab, OrigensClientesTab,
         CategoriasClientesTab, SetoresTab, QuickRepliesTab, EtiquetasTab, AgentsTab, WidgetTab,
         PrivacidadeTab, LixeiraTab, DangerZoneTab}}
    \cup {Page(WithFeature(Owners), InSettings(screen)) : screen \in
            {ChannelsTab, TemplatesTab, AutomationsTab}}
    \cup {Page(Staff, InSettings(screen)) : screen \in {IntegrationsTab, MeusDadosTab}}
    \cup {Page([Staff EXCEPT !.admin = TRUE], InSettings(SistemaTab))}

AllPages == PublicPages \cup MemberPages \cup SettingsPages
====
