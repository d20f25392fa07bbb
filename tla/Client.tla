---- MODULE Client ----
(***************************************************************************)
(* One browser tab of the client: the session it holds, one of the query   *)
(* keys that a page keeps, the fetch of that key and one mutation of the   *)
(* page.  Pages, queries, mutations and callbacks are those of the screens,*)
(* the calls those of the api modules; the server answers as its routes    *)
(* say: it refuses a call that their guards refuse and commits one that    *)
(* writes the tables of its service.                                       *)
(*                                                                         *)
(* Of the rows under the key only the version counts: the number of        *)
(* commits that have changed them.                                         *)
(***************************************************************************)
EXTENDS Navigation, Integers
LOCAL INSTANCE TLC

CONSTANTS Users,    \* the accounts, as [name, role, admin, paid, workspace]
          Visitor   \* nobody is signed in

\* The account of a platform administrator owns its workspace: an owner does
\* not enter it by impersonation.
ASSUME AdminsAreOwners == \A user \in Users : user.admin => user.role = "owner"
ASSUME VisitorIsNobody == Visitor \notin Users
ASSUME AccountsShaped ==
    \A user \in Users : user.role \in AllRoles /\ user.admin \in BOOLEAN /\ user.paid \in BOOLEAN

VARIABLES scene,    \* the page, its query and its mutation; never changes
          session,  \* who the tab's token is of, who impersonates them
          cache,    \* the answer cached under the key of the query
          fetch,    \* the fetch of the key in flight
          work,     \* the mutation under way
          commits   \* the version of the key's rows in the workspace of work

vars == <<scene, session, cache, fetch, work, commits>>

----------------------------------------------------------------------------
(* What the server does with a call.                                       *)

\* A guard lets an account through (on a route, and on the way to a page), and
\* anyone.
Passes(guard, user) ==
    /\ user.role \in guard.roles
    /\ guard.admin => user.admin
    /\ guard.feature => user.paid
Admits(guard, user) == IF user = Visitor THEN guard.open ELSE Passes(guard, user)

CallsOf(mutation) == UNION {mutation.steps[i] : i \in DOMAIN mutation.steps}
AllCalls == UNION {UNION {q.calls : q \in page.screen.queries}
                   \cup UNION {CallsOf(m) : m \in page.screen.mutations} : page \in AllPages}

\* The routes of a call, as a table.
RoutesOf == [call \in AllCalls |-> {r \in AllRoutes : r.verb = call.verb /\ r.path = call.path}] @@ <<>>

\* The tables whose rows a call reads and those it writes.
ReadBy(call) == UNION {r.rows.reads : r \in RoutesOf[call]}
WrittenBy(call) == UNION {r.rows.writes : r \in RoutesOf[call]}

\* The body of a route drops none of the fields of the call.
Keeps(body, call) == body.checked => call.fields \subseteq body.fields

\* The server takes the call from the user as it is.
Accepts(user, call) ==
    call = NoCall \/ \E r \in RoutesOf[call] : Admits(r.guard, user) /\ Keeps(r.body, call)

\* The table whose rows a list is of, where its answer joins others.
Joined == [negocios |-> {"leads"}, leads |-> {"leads"}, lead |-> {"leads"},
           inbox |-> {"conversations"}, automations |-> {"automations", "automation_steps"},
           companies |-> {"companies"}, company |-> {"companies"}, pessoas |-> {"contacts"},
           contacts |-> {"contacts"}, contact |-> {"contacts"}, analytics |-> {}, search |-> {}]
    @@ ("lead-activities" :> {"lead_activities"})
    @@ ("company-activities" :> {"contact_activities"})
    @@ ("contact-activities" :> {"contact_activities"})
    @@ ("cal-activities" :> {"contact_activities"})
    @@ ("contact-search" :> {"contacts"})
    @@ ("contacts-autocomplete" :> {"contacts"})
    @@ ("company-search" :> {"companies"})
    @@ ("companies-autocomplete" :> {"companies"})
    @@ ("me-features" :> {"workspaces"})
    @@ ("platform-channels" :> {"channel_configs"})
    @@ ("platform-workspaces" :> {"workspaces"})
    @@ ("platform-funnel" :> {})
    @@ ("platform-metrics" :> {})

NoQuery == Query(<<>>, {})
NoMutation == Mutation("none", <<>>, <<>>)

\* The tables that the rows of the query's list are in.
Subject(q) ==
    IF q = NoQuery THEN {}
    ELSE IF Head(q.key) \in DOMAIN Joined THEN Joined[Head(q.key)]
    ELSE UNION {ReadBy(call) : call \in q.calls}

\* The query's answer is a page {items, total}, not an array.
IsPage(q) == q.calls \cap {ContactsApi.listContacts, CompaniesApi.listCompanies,
                           ProductsApi.listProducts} # {}

\* What the actions need to know of one query and one mutation of a page.
Scene(page, q, m) ==
    [guard    |-> page.guard,
     query    |-> q,
     paged    |-> IsPage(q),
     mutation |-> m,
     changing |-> {call \in CallsOf(m) : WrittenBy(call) \cap Subject(q) # {}},
     refused  |-> [user \in Users \cup {Visitor} |->
                     {call \in q.calls \cup CallsOf(m) : ~Accepts(user, call)}]]

\* A query of a page, a mutation of it, or a mutation with a query whose rows it
\* changes.
Scenes ==
    {sc \in UNION {{Scene(page, q, m) : q \in page.screen.queries \cup {NoQuery},
                                       m \in page.screen.mutations \cup {NoMutation}} : page \in AllPages} :
        sc.changing # {} \/ (sc.query = NoQuery) # (sc.mutation = NoMutation)}

----------------------------------------------------------------------------
(* The query cache.                                                        *)

Watched == scene.query.key
Empty == [cached |-> FALSE, version |-> 0, owner |-> Visitor,
          stale |-> FALSE, guess |-> FALSE, late |-> FALSE]
NoFetch == [phase |-> "none", version |-> 0, owner |-> Visitor, missed |-> FALSE]
Idle == [user |-> Visitor, phase |-> "idle", done |-> 0, seen |-> 0,
         before |-> Empty]

\* A key of a callback covers the keys that it is a prefix of.
Covers(key, watched) ==
    /\ Len(key) <= Len(watched)
    /\ \A i \in DOMAIN key : key[i] = watched[i]

Answered(version, owner) == [Empty EXCEPT !.cached = TRUE, !.version = version, !.owner = owner]

Invalidated_FetchJoined(s) ==
    IF s.cache.cached
    THEN [s EXCEPT !.cache.stale = TRUE]
    ELSE [s EXCEPT !.fetch.missed = (s.fetch.phase = "read")]

\* The refetch that invalidation starts replaces the one in flight, unless
\* nothing is cached.
Invalidated(s) ==
    IF s.cache.cached
    THEN [cache |-> [s.cache EXCEPT !.stale = TRUE], fetch |-> NoFetch]
    ELSE [s EXCEPT !.fetch.missed = (s.fetch.phase = "read")]

\* One effect on [cache, fetch], for the mutation w.
Effected(s, effect, w) ==
    LET fresh == [s.cache EXCEPT !.stale = FALSE]
        row   == IF s.cache.version = w.seen - 1 THEN w.seen ELSE s.cache.version
        entry == IF s.cache.cached THEN fresh ELSE Answered(0, w.user)
    IN IF effect.kind = "clear" THEN [cache |-> Empty, fetch |-> NoFetch]
       ELSE IF ~Covers(effect.key, Watched) THEN s
       ELSE CASE effect.kind = "invalidate" -> Invalidated(s)
              [] effect.kind = "cancel"  -> [s EXCEPT !.fetch = NoFetch]
              [] effect.kind = "answer"  -> [s EXCEPT !.cache = Answered(w.seen, w.user)]
              [] effect.kind = "patch"   ->
                   IF s.cache.cached THEN [s EXCEPT !.cache = [fresh EXCEPT !.version = row]] ELSE s
              [] effect.kind = "guess"   ->
                   IF s.cache.cached THEN [s EXCEPT !.cache = [fresh EXCEPT !.guess = TRUE]] ELSE s
              [] effect.kind = "write"   -> [s EXCEPT !.cache = [entry EXCEPT !.guess = TRUE]]
              [] effect.kind = "settle"  ->
                   [s EXCEPT !.cache = IF entry.guess
                                       THEN [entry EXCEPT !.guess = FALSE, !.version = row] ELSE entry]
              [] effect.kind = "restore" ->
                   IF w.before.cached THEN [s EXCEPT !.cache = [w.before EXCEPT !.stale = FALSE]] ELSE s

\* The cache and the fetch after the effects, one after the other.
Ran(effects, w) ==
    LET after[n \in 0..Len(effects)] ==
            IF n = 0 THEN [cache |-> cache, fetch |-> fetch]
            ELSE Effected(after[n - 1], effects[n], w)
    IN after[Len(effects)]

Run(effects, w) ==
    LET s == Ran(effects, w)
    IN cache' = s.cache /\ fetch' = s.fetch

\* A patch maps over the cached array; over a page it throws a TypeError.
Throwing(effects) ==
    {i \in DOMAIN effects : /\ effects[i].kind = "patch"
                            /\ Covers(effects[i].key, Watched)
                            /\ scene.paged
                            /\ cache.cached}
----------------------------------------------------------------------------
Init ==
    /\ scene \in Scenes
    /\ \E user \in Users \cup {Visitor} :
          /\ Admits(scene.guard, user)
          /\ session = [user |-> user, stash |-> Visitor, lent |-> FALSE]
    /\ cache = Empty
    /\ fetch = NoFetch
    /\ work = Idle
    /\ commits = 0
----------------------------------------------------------------------------
(* The session.                                                            *)

SignIn(user) ==
    /\ session.user = Visitor
    /\ session' = [user |-> user, stash |-> Visitor, lent |-> FALSE]
    /\ UNCHANGED <<scene, cache, fetch, work, commits>>

SignOut_CacheKept ==
    /\ session.user # Visitor
    /\ session' = [user |-> Visitor, stash |-> Visitor, lent |-> FALSE]
    /\ UNCHANGED <<scene, cache, fetch, work, commits>>

\* useLogout: the token goes, then the query cache.
SignOut ==
    /\ session.user # Visitor
    /\ session' = [user |-> Visitor, stash |-> Visitor, lent |-> FALSE]
    /\ cache' = Empty
    /\ fetch' = NoFetch
    /\ UNCHANGED <<scene, work, commits>>

\* A 401 on any call: the session ends and the page is loaded anew.
Expire ==
    /\ session.user # Visitor
    /\ session' = [user |-> Visitor, stash |-> Visitor, lent |-> FALSE]
    /\ cache' = Empty
    /\ fetch' = NoFetch
    /\ work' = Idle
    /\ commits' = 0
    /\ UNCHANGED scene

\* AgentsTab: the owner enters the account of a colleague; the cache stays.
Impersonate(user) ==
    /\ session.user # Visitor /\ session.user.role = "owner"
    /\ user.workspace = session.user.workspace /\ user.role # "owner"
    /\ session' = [user |-> user, stash |-> session.user, lent |-> TRUE]
    /\ UNCHANGED <<scene, cache, fetch, work, commits>>

StopImpersonation ==
    /\ session.stash # Visitor
    /\ session' = [session EXCEPT !.user = session.stash, !.stash = Visitor]
    /\ UNCHANGED <<scene, cache, fetch, work, commits>>

\* WorkspacesTab: a platform administrator becomes the owner of a workspace.
EnterWorkspace(user) ==
    /\ session.user # Visitor /\ session.user.admin
    /\ user.role = "owner" /\ user.workspace # session.user.workspace
    /\ session' = [session EXCEPT !.user = user, !.lent = FALSE]
    /\ cache' = Empty
    /\ fetch' = NoFetch
    /\ UNCHANGED <<scene, work, commits>>
----------------------------------------------------------------------------
(* The query.                                                              *)

VersionFor(user) ==
    IF user # Visitor /\ work.user # Visitor /\ user.workspace = work.user.workspace THEN commits ELSE 0

OnPage_AnySession == session.user # Visitor \/ scene.guard.open

\* The tab shows the page to who is signed in.
OnPage == Admits(scene.guard, session.user)

\* A mount, a stale answer or the polling makes the page fetch; the server
\* reads the rows now, the answer may take its time.
Fetch ==
    /\ scene.query # NoQuery /\ OnPage
    /\ fetch.phase # "read"
    /\ fetch' = [NoFetch EXCEPT
           !.phase   = IF scene.query.calls \cap scene.refused[session.user] = {} THEN "read" ELSE "refused",
           !.version = VersionFor(session.user),
           !.owner   = session.user]
    /\ UNCHANGED <<scene, session, cache, work, commits>>

Arrive ==
    /\ fetch.phase = "read"
    /\ cache' = [Answered(fetch.version, fetch.owner) EXCEPT
                    !.late = fetch.missed \/ (cache.cached /\ fetch.version < cache.version)]
    /\ fetch' = NoFetch
    /\ UNCHANGED <<scene, session, work, commits>>

Lose ==
    /\ fetch.phase = "read"
    /\ fetch' = NoFetch
    /\ UNCHANGED <<scene, session, cache, work, commits>>

\* useInvalidateOnEvent and ChatView: the socket events that the server emits.
Heard == {Invalidate(<<"leads">>),            \* lead.moved
          Invalidate(<<"channels">>)}         \* channel.status.changed

Hear ==
    /\ session.user # Visitor
    /\ \E effect \in Heard : Covers(effect.key, Watched) /\ Run(<<effect>>, work)
    /\ UNCHANGED <<scene, session, work, commits>>
----------------------------------------------------------------------------
(* The mutation.                                                           *)

\* The control of the mutation is there for the user.
Offered(m, user) ==
    /\ m.ownersOnly => user.role = "owner"
    /\ m.paidOnly => user.paid

Use ==
    LET m == scene.mutation
    IN /\ work.phase = "idle" /\ m # NoMutation
       /\ OnPage /\ Offered(m, session.user)
       /\ work' = [Idle EXCEPT !.user = session.user, !.phase = "sent",
                                  !.before = IF m.before = <<>> THEN Empty ELSE cache]
       /\ Run(m.before, work')
       /\ UNCHANGED <<scene, session, commits>>

\* The first call carries the token of the user who started the mutation,
\* the later ones that of whoever is signed in when they are sent.
Sender == IF work.done = 0 THEN work.user ELSE session.user
Step == scene.mutation.steps[work.done + 1]

Commit(call) ==
    LET changes == call \in scene.changing
        last == work.done + 1 = Len(scene.mutation.steps)
    IN /\ call \notin scene.refused[Sender]
       /\ Sender = work.user \/ (Sender # Visitor /\ Sender.workspace = work.user.workspace)
       /\ commits' = IF changes THEN commits + 1 ELSE commits
       /\ work' = [work EXCEPT !.done = @ + 1,
                               !.seen = IF changes THEN commits + 1 ELSE @,
                               !.phase = IF last THEN "answered" ELSE "sent"]
       /\ UNCHANGED <<scene, session, cache, fetch>>

Refuse(call) ==
    /\ call \in scene.refused[Sender]
    /\ work' = [work EXCEPT !.phase = IF Sender = work.user THEN "refused" ELSE "failed"]
    /\ Run(scene.mutation.failed, work)
    /\ UNCHANGED <<scene, session, commits>>

\* The service refuses, or the answer is lost (the timeout of 15 s).
Fail ==
    /\ work.phase \in {"sent", "answered"}
    /\ work' = [work EXCEPT !.phase = "failed"]
    /\ Run(scene.mutation.failed, work)
    /\ UNCHANGED <<scene, session, commits>>

Answer ==
    /\ work.phase = "answered"
    /\ Throwing(scene.mutation.succeeded) = {}
    /\ work' = [work EXCEPT !.phase = "told"]
    /\ Run(scene.mutation.succeeded, work)
    /\ UNCHANGED <<scene, session, commits>>

\* The success callback throws half-way: the failure callback runs instead
\* of the rest of it.
Throw ==
    /\ work.phase = "answered"
    /\ Throwing(scene.mutation.succeeded) # {}
    /\ work' = [work EXCEPT !.phase = "threw"]
    /\ LET effects == scene.mutation.succeeded
           first == CHOOSE i \in Throwing(effects) : \A j \in Throwing(effects) : i <= j
       IN Run(SubSeq(effects, 1, first - 1) \o scene.mutation.failed, work)
    /\ UNCHANGED <<scene, session, commits>>

Next ==
    \/ \E user \in Users : SignIn(user) \/ Impersonate(user) \/ EnterWorkspace(user)
    \/ SignOut \/ Expire \/ StopImpersonation
    \/ Fetch \/ Arrive \/ Lose \/ Hear
    \/ Use
    \/ work.phase = "sent" /\ \E call \in Step : Commit(call) \/ Refuse(call)
    \/ Fail \/ Answer \/ Throw

Spec == Init /\ [][Next]_vars
----------------------------------------------------------------------------
(***************************************************************************)
(* What the code leaves unanswered, named so that the properties below say *)
(* what holds for all the rest.                                            *)
(***************************************************************************)

\* Calls that a page offers to everyone while their route takes owners only,
\* calls of pages without a gate whose route needs a feature of the plan, and
\* calls with a field that the DTO does not have.
OwnerCalls ==
    {UsersApi.listUsers, LeadsApi.deleteLead,
     PipelinesApi.createPipeline, PipelinesApi.updatePipeline, PipelinesApi.deletePipeline,
     StagesApi.createStage, StagesApi.updateStage, StagesApi.deleteStage,
     StageRequiredFieldsApi.createStageRequiredField, StageRequiredFieldsApi.deleteStageRequiredField,
     CustomerOriginsApi.createCustomerOrigin, LossReasonsApi.createLossReason}
PlanCalls == {ChannelsApi.listChannels}
DroppedFields == {UsersApi.updateMe, ContactsApi.createContact}

RefusedTo(user) ==
    (IF user.role = "owner" THEN {} ELSE OwnerCalls)
    \cup (IF user.paid THEN {} ELSE PlanCalls) \cup DroppedFields

\* Lists that answer to a typed search: each text is a key of its own.
Searches == {<<"contact-search", Id>>, <<"company-search", Id>>,
             <<"contacts-autocomplete", Id>>, <<"companies-autocomplete", Id>>}

\* Mutations of a table that change no row of the list.
Elsewhere ==
    [lead |-> {"AddNegocioModal.mutation", "QuickAddNegocio.mut", "Inbox.handleQualify"},
     company |-> {"Inbox.handleQualify"},
     me |-> {"OtpFlowModal.passwordMut"},
     users |-> {"OtpFlowModal.passwordMut"},
     trash |-> {"LeadInfo.archiveMutation", "LeadInfo.mutation", "LeadInfo.recalcMutation",
                "LeadInfo.scoreMutation", "QualificationForm.saveMut", "StatusToggle.mutation"}]
    @@ ("google-status" :> {"LeadActivities.mutation"})
    @@ ("me-features" :> {"Assinar.checkout", "PrivacidadeTab.saveMut", "WidgetTab.saveMutation"})
    @@ ("workspace-me" :> {"Assinar.checkout", "WidgetTab.saveMutation"})

\* Mutations that change a row of a list on the page and do not tell it: the
\* drawer of a lead and the page behind it do not know each other's keys.
Untold ==
    [negocios |-> {"LeadInfo.archiveMutation", "LeadInfo.mutation", "LeadInfo.recalcMutation",
                   "LeadInfo.scoreMutation", "StatusToggle.mutation", "QualificationForm.saveMut"},
     lead |-> {"EditLeadModal.mutation", "FunisEtapasTab.updateStatusMut", "Inbox.handleDeleteContact",
               "LabelPicker.toggleMut", "LixeiraTab.purgeMut", "LixeiraTab.restoreMut",
               "NegocioDetailPanel.deleteMut", "NegocioDetailPanel.leadMut",
               "NegocioDetailPanel.pipelineMut", "NegocioDetailPanel.stageMut",
               "NegocioDetailPanel.statusMut", "NegocioKanban.mutation", "Negocios.bulkDeleteMut",
               "Negocios.remove", "Pessoas.bulkDeleteMut", "Pessoas.deleteMut",
               "QualificationForm.saveMut", "RankingCell.mut", "StageCell.mut", "StatusCell.mut"},
     company |-> {"NegocioDetailPanel.companyMut"},
     contact |-> {"Inbox.handleDeleteContact", "Inbox.handleQualify", "NegocioDetailPanel.contactMut",
                  "QualificationForm.saveMut"},
     pessoas |-> {"QualificationForm.saveMut"},
     conversations |-> {"ConversationLabelPicker.toggleMut", "Inbox.handleArchive",
                        "Inbox.handleDeleteContact", "Inbox.handlePin", "Inbox.handleQualify",
                        "Inbox.handleSelect", "Pessoas.bulkDeleteMut", "Pessoas.deleteMut"},
     tasks |-> {"ActivityCard.completeMut", "ActivityCard.deleteMut", "EventModal.completeTaskMut"},
     users |-> {"MeusDadosTab.cancelMut", "MeusDadosTab.deleteMut", "OtpFlowModal.emailMut",
                "Perfil.removeAvatar", "Perfil.uploadAvatar"}]
    @@ ("cal-tasks" :> {"LeadActivities.mutation"})
    @@ ("inicio-tasks" :> {"LeadActivities.mutation"})
    @@ ("widget-config" :> {"WidgetTab.saveMutation"})
    @@ ("me-features" :> {"EditWorkspaceModal.mut", "SubscriptionsTab.updateMut"})
    @@ ("workspace-me" :> {"EditWorkspaceModal.mut", "SubscriptionsTab.updateMut"})

\* Success callbacks that patch a page {items, total} as if it were an array.
PagesPatched ==
    {"Companies.deleteMut", "Companies.bulkDeleteMut", "CompanyAvatarEditor.uploadMut",
     "CompanyAvatarEditor.removeMut", "Pessoas.deleteMut", "Pessoas.bulkDeleteMut",
     "PessoaAvatarEditor.uploadMut", "PessoaAvatarEditor.removeMut"}

In(table, sc) ==
    LET list == Head(sc.query.key)
    IN list \in DOMAIN table /\ sc.mutation.name \in table[list]

----------------------------------------------------------------------------
(***************************************************************************)
(* What the pages have in common.  These are facts about the screens and   *)
(* the routes as they are, whoever the users; every instance evaluates     *)
(* them.                                                                   *)
(***************************************************************************)
Kinds == {"clear", "invalidate", "cancel", "answer", "patch", "guess", "write", "settle", "restore"}
Callback == [kind : Kinds, key : Seq(STRING)]

ASSUME PagesShaped ==
    /\ Heard \subseteq Callback
    /\ \A sc \in Scenes :
          /\ sc.query.key \in Seq(STRING)
          /\ {sc.mutation.before, sc.mutation.succeeded, sc.mutation.failed} \subseteq Seq(Callback)
          /\ sc.mutation.steps \in Seq(SUBSET AllCalls)
          /\ sc.mutation # NoMutation => Len(sc.mutation.steps) > 0

\* The cached answers that an effect bears on in a scene.
Bears(effect, sc) == effect.kind = "clear" \/ Covers(effect.key, sc.query.key)
Bearing(effects, kinds, sc) ==
    {i \in DOMAIN effects : effects[i].kind \in kinds /\ Bears(effects[i], sc)}

\* A page that a visitor gets keeps no query, and no effect is without a key.
ASSUME VisitorsKeepNothing ==
    \A sc \in Scenes :
       /\ sc.query = NoQuery => sc.changing = {}
       /\ sc.query # NoQuery => ~sc.guard.open
       /\ \A effects \in {sc.mutation.before, sc.mutation.succeeded, sc.mutation.failed} :
             \A i \in DOMAIN effects : effects[i].kind = "clear" \/ effects[i].key # <<>>

\* A row is shown before the server has it by the callback that runs before the
\* calls, and a callback that patches a page stores nothing else in it.
ASSUME WritesComeFirst ==
    \A sc \in Scenes :
       /\ Bearing(sc.mutation.succeeded, {"write"}, sc) = {}
       /\ Bearing(sc.mutation.failed, {"write"}, sc) = {}
       /\ sc.paged /\ Bearing(sc.mutation.succeeded, {"patch"}, sc) # {} =>
             /\ sc.mutation.name \in PagesPatched
             /\ Bearing(sc.mutation.succeeded, {"answer", "settle", "restore"}, sc) = {}
             /\ Bearing(sc.mutation.failed, {"answer", "settle", "restore"}, sc) = {}

\* Calls that no route takes from anyone.
Hopeless == {call \in AllCalls \ {NoCall} :
               \A r \in RoutesOf[call] : ~Keeps(r.body, call)}

\* What a page offers to an account the server takes from it, but for the calls
\* named above, and what it offers to a visitor from anyone.
Shapes == {user \in [role : AllRoles, admin : BOOLEAN, paid : BOOLEAN] : user.admin => user.role = "owner"}
Offers(sc, user) == sc.query.calls \cup IF Offered(sc.mutation, user) THEN CallsOf(sc.mutation) ELSE {}

ASSUME OffersTaken ==
    \A sc \in Scenes :
       /\ \A user \in Shapes : Passes(sc.guard, user) =>
             \A call \in Offers(sc, user) \ ({NoCall} \cup RefusedTo(user)) :
                \E r \in RoutesOf[call] : Passes(r.guard, user) /\ Keeps(r.body, call)
       /\ sc.guard.open =>
             \A call \in CallsOf(sc.mutation) \ ({NoCall} \cup DroppedFields) :
                \E r \in RoutesOf[call] : r.guard.open /\ Keeps(r.body, call)

\* The last effect of the success callback on the list makes it follow.
Tells(sc) ==
    LET effects == sc.mutation.succeeded
    IN \E i \in Bearing(effects, {"clear", "invalidate", "answer"}, sc) :
          \A j \in Bearing(effects, Kinds, sc) : j <= i

\* Every mutation tells the lists of its page that it changes, but for those
\* named above and those whose changing calls never succeed.
ASSUME ChangesTold ==
    \A sc \in Scenes :
       \/ sc.changing \subseteq Hopeless
       \/ sc.query.polled \/ sc.query.key \in Searches
       \/ In(Elsewhere, sc) \/ In(Untold, sc)
       \/ Tells(sc)
----------------------------------------------------------------------------
\* The callbacks of the mutation wrote into the cache when its user had left.
WroteBack ==
    /\ work.phase \in {"told", "failed", "refused"}
    /\ cache.owner \in {work.user, work.before.owner}
    /\ \E effects \in {scene.mutation.succeeded, scene.mutation.failed} :
          \E i \in DOMAIN effects : /\ effects[i].kind \in {"answer", "restore", "settle"}
                                    /\ Covers(effects[i].key, Watched)
----------------------------------------------------------------------------
(***************************************************************************)
(* Once a mutation has succeeded, a list on its page whose rows it changed *)
(* either shows the change or is about to be fetched again: no mutation    *)
(* but the named ones forgets a key, and no order of the mutation's answer *)
(* and of a fetch leaves the older answer in the cache unnoticed, but for a*)
(* fetch that was late: one that invalidation does not replace because     *)
(* nothing was cached, or that overwrites an answer set from the mutation. *)
(***************************************************************************)
ChangesShown ==
    (/\ work.phase \in {"told", "threw"}
     /\ cache.cached /\ ~cache.stale /\ ~cache.guess /\ ~cache.late
     /\ fetch.phase # "read"
     /\ ~scene.query.polled /\ Watched \notin Searches
     /\ cache.owner # Visitor /\ cache.owner.workspace = work.user.workspace)
    => \/ cache.version >= work.seen
       \/ In(Elsewhere, scene)
       \/ In(Untold, scene)
       \/ work.phase = "threw" /\ scene.mutation.name \in PagesPatched

(***************************************************************************)
(* What a page offers to a user the server grants to that user, and every  *)
(* field that the client can send the server keeps: all refusals are those *)
(* of the calls named above.                                               *)
(***************************************************************************)
CallsExplained ==
    /\ fetch.phase = "refused" =>
          scene.query.calls \cap scene.refused[fetch.owner] \subseteq RefusedTo(fetch.owner)
    /\ work.phase = "refused" =>
          Step \cap scene.refused[work.user] \subseteq RefusedTo(work.user)

(***************************************************************************)
(* The tab never shows a user what another one fetched, whatever is in     *)
(* flight when the session changes: except to and after an impersonation,  *)
(* which keeps the cache within the workspace, and what the callbacks of a *)
(* mutation write when its answer outlives the session.                    *)
(***************************************************************************)
ShownToItsUser ==
    cache.cached =>
       \/ cache.owner = session.user
       \/ session.lent /\ cache.owner.workspace = session.user.workspace
       \/ WroteBack
====
