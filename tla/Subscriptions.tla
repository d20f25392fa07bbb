--------------------------- MODULE Subscriptions ----------------------------
(* Who may use what: the plan and the status in a workspace's row, the plans'
   features, the requests that change them (the owner's, the administrator's,
   and Stripe's events, see BillingWebhook), and the guard of a feature, whose
   answer a process keeps for a time.  Plans are named by their slugs. *)
EXTENDS Naturals, FiniteSets, Sequences

CONSTANTS
    Requests, Slugs,     \* the slugs, "trial" among them
    TTL,                 \* CACHE_TTL_MS
    MaxFetch,            \* bound on a guard's way from its first query to its answer
    MaxTime, MaxChecks, MaxWrites,
    None

VARIABLES
    row,        \* the workspace's row: status and plan
    plans,      \* the rows of plans: none, or the features and whether it is active
    entry,      \* FeatureAccessService.cache, of this workspace
    request,    \* the writes in progress
    guard,      \* the guard's check in progress
    rowEnded, plansEnded,   \* when each version but the last was replaced
    answer,     \* the guard's last answer
    last,       \* the status and plan of the last answered write
    renamed,    \* slugs that were renamed or set without a look at the plans
    overlaps,   \* the pairs of writes that ran at the same time
    now, checks, writes

db == <<row, plans, rowEnded, plansEnded, last, renamed>>
counts == <<now, checks, writes>>
vars == <<db, entry, request, guard, answer, overlaps, counts>>

Feature == "inbox"
Statuses == {"trial", "active", "expired", "canceled"}
Plan(features, active) == [features |-> features, active |-> active]
Plans == {Plan({}, TRUE), Plan({Feature}, TRUE), Plan({Feature}, FALSE)}
RowVersion == Len(rowEnded) + 1
PlansVersion == Len(plansEnded) + 1
Row == [status : Statuses, plan : Slugs \cup {None}]
Entry == [status : Statuses, features : SUBSET {Feature}, row : Nat, plans : Nat, until : Nat]
ConstantsOK ==
    /\ {TTL, MaxFetch, MaxTime, MaxChecks, MaxWrites} \subseteq Nat /\ "trial" \in Slugs
    /\ None \notin Slugs /\ None \notin Plans /\ None \notin Entry

NoRequest == [pc |-> "idle", op |-> "", slug |-> None, to |-> None, read |-> None, patch |-> <<>>]
NoCheck == [pc |-> "idle", status |-> "", plan |-> None, row |-> 0, plans |-> 0, at |-> 0]

Init ==
    /\ row = [status |-> "trial", plan |-> None] /\ last = row
    /\ \E p \in Plans \cup {None} : plans = [s \in Slugs |-> IF s = "trial" THEN p ELSE None]
    /\ entry = None /\ request = [r \in Requests |-> NoRequest] /\ guard = NoCheck
    /\ rowEnded = <<>> /\ plansEnded = <<>> /\ renamed = {} /\ overlaps = {}
    /\ answer = [allowed |-> TRUE, row |-> 0, plans |-> 0, at |-> 0, fresh |-> FALSE]
    /\ now = 0 /\ checks = 0 /\ writes = 0

------------------------------------------------------------------------------
(* The guard. *)

Allowed(status, features) == status = "trial" \/ Feature \in features
Answer(e) ==
    answer' = [allowed |-> Allowed(e.status, e.features), row |-> e.row, plans |-> e.plans, at |-> now,
               fresh |-> e.row = RowVersion /\ e.plans \in {0, PlansVersion}]

\* The entry of this process, while it lasts; else the workspace's row is read.
Check ==
    /\ guard.pc = "idle" /\ checks < MaxChecks /\ checks' = checks + 1
    /\ IF entry # None /\ now < entry.until
       THEN Answer(entry) /\ UNCHANGED guard
       ELSE /\ guard' = [NoCheck EXCEPT !.pc = IF row.status = "trial" \/ row.plan = None THEN "set" ELSE "plan",
                            !.status = row.status, !.plan = row.plan, !.row = RowVersion, !.at = now]
            /\ UNCHANGED answer
    /\ UNCHANGED <<db, entry, request, overlaps, now, writes>>

Remember(features, version) ==
    LET e == [status |-> guard.status, features |-> features, row |-> guard.row, plans |-> version]
    IN  /\ entry' = [status |-> e.status, features |-> features, row |-> e.row, plans |-> version,
                     until |-> now + TTL]
        /\ Answer(e)
        /\ guard' = NoCheck
        /\ UNCHANGED <<db, request, overlaps, counts>>

SetUnread == guard.pc = "set" /\ Remember({}, 0)
ReadPlan ==
    /\ guard.pc = "plan"
    /\ Remember(IF plans[guard.plan] = None THEN {} ELSE plans[guard.plan].features, PlansVersion)

Tick ==
    /\ now < MaxTime /\ now' = now + 1
    /\ guard.pc # "idle" => now < guard.at + MaxFetch
    /\ UNCHANGED <<db, entry, request, guard, answer, overlaps, checks, writes>>

------------------------------------------------------------------------------
(* Writes. *)

Begin(r, op) ==
    /\ request[r].pc = "idle" /\ writes < MaxWrites /\ writes' = writes + 1
    /\ overlaps' = overlaps \cup {{op, request[q].op} : q \in {q \in Requests : request[q].pc # "idle"}}
Busy(r, req) == request' = [request EXCEPT ![r] = req]
Done(r) == request' = [request EXCEPT ![r] = NoRequest]

WriteRow(new) ==
    /\ row' = new
    /\ rowEnded' = IF new = row THEN rowEnded ELSE Append(rowEnded, now)
WritePlans(new) ==
    /\ plans' = new
    /\ plansEnded' = IF new = plans THEN plansEnded ELSE Append(plansEnded, now)

\* Mutated form of Subscribe: the plan is taken as the request names it.
Subscribe_AnyPlan(r, s) ==
    /\ Begin(r, "subscribe")
    /\ Busy(r, [NoRequest EXCEPT !.pc = "subscribe", !.op = "subscribe", !.slug = s])
    /\ UNCHANGED <<db, entry, guard, answer, now, checks>>

\* subscribe: the plan must be on offer; then one UPDATE.
Subscribe(r, s) ==
    /\ plans[s] # None => plans[s].active
    /\ plans[s] # None /\ Begin(r, "subscribe")
    /\ Busy(r, [NoRequest EXCEPT !.pc = "subscribe", !.op = "subscribe", !.slug = s])
    /\ UNCHANGED <<db, entry, guard, answer, now, checks>>
WriteSubscription(r) ==
    /\ request[r].pc = "subscribe" /\ Done(r)
    /\ WriteRow([status |-> "active", plan |-> request[r].slug])
    /\ last' = row'
    /\ UNCHANGED <<plans, plansEnded, renamed, entry, guard, answer, overlaps, counts>>

Cancel ==
    /\ writes < MaxWrites /\ writes' = writes + 1
    /\ overlaps' = overlaps \cup {{"cancel", request[q].op} : q \in {q \in Requests : request[q].pc # "idle"}}
    /\ WriteRow([row EXCEPT !.status = "canceled"])
    /\ last' = [last EXCEPT !.status = "canceled"]
    /\ UNCHANGED <<plans, plansEnded, renamed, entry, request, guard, answer, now, checks>>

\* onSubscriptionUpdated, of a price that no plan has: the row is read for its
\* plan, which is written with the new status.
ReadForEvent(r, status) ==
    /\ Begin(r, "event")
    /\ Busy(r, [NoRequest EXCEPT !.pc = "event", !.op = "event", !.read = row, !.patch = <<"status", status>>])
    /\ UNCHANGED <<db, entry, guard, answer, now, checks>>
WriteEvent(r) ==
    /\ request[r].pc = "event" /\ Done(r)
    /\ WriteRow([status |-> request[r].patch[2],
                 plan |-> IF request[r].read.plan = None THEN row.plan ELSE request[r].read.plan])
    /\ last' = [last EXCEPT !.status = request[r].patch[2]]
    /\ UNCHANGED <<plans, plansEnded, renamed, entry, guard, answer, overlaps, counts>>

\* updateWorkspace of the administrator: the row is read, patched, and saved with
\* every column that differs by then.
Patches == {<<>>} \cup {<<"status", "active">>} \cup {<<"plan", s>> : s \in Slugs \cup {None}}
Edited(w, patch) == IF patch = <<>> THEN w ELSE [w EXCEPT ![patch[1]] = patch[2]]
ReadForEdit(r, patch) ==
    /\ Begin(r, "edit")
    /\ Busy(r, [NoRequest EXCEPT !.pc = "edit", !.op = "edit", !.read = row, !.patch = patch])
    /\ UNCHANGED <<db, entry, guard, answer, now, checks>>

SaveEdit(r) ==
    /\ request[r].pc = "edit" /\ Done(r)
    /\ WriteRow(Edited(request[r].read, request[r].patch))
    /\ last' = Edited(last, request[r].patch)
    /\ renamed' = renamed \cup {s \in Slugs : request[r].patch = <<"plan", s>>}
    /\ UNCHANGED <<plans, plansEnded, entry, guard, answer, overlaps, counts>>

\* adminCreatePlan and adminUpdatePlan look for the slug, adminDeletePlan for the
\* workspaces of the plan.
ReadForCreate(r, s, p) ==
    /\ plans[s] = None /\ Begin(r, "create plan")
    /\ Busy(r, [NoRequest EXCEPT !.pc = "insert plan", !.op = "create plan", !.slug = s, !.patch = p])
    /\ UNCHANGED <<db, entry, guard, answer, now, checks>>
InsertPlan(r) ==
    /\ request[r].pc = "insert plan" /\ Done(r)
    /\ IF plans[request[r].slug] = None THEN WritePlans([plans EXCEPT ![request[r].slug] = request[r].patch])
       ELSE UNCHANGED <<plans, plansEnded>>
    /\ UNCHANGED <<row, rowEnded, last, renamed, entry, guard, answer, overlaps, counts>>

ReadForUpdate(r, s, t, p) ==
    /\ plans[s] # None /\ (t = s \/ (plans[t] = None /\ p = plans[s])) /\ Begin(r, "update plan")
    /\ Busy(r, [NoRequest EXCEPT !.pc = "save plan", !.op = "update plan", !.slug = s, !.to = t, !.patch = p])
    /\ UNCHANGED <<db, entry, guard, answer, now, checks>>
SavePlan(r) ==
    LET s == request[r].slug  t == request[r].to
    IN  /\ request[r].pc = "save plan" /\ Done(r)
        /\ IF t # s /\ plans[t] # None THEN UNCHANGED <<plans, plansEnded, renamed>>
           ELSE /\ WritePlans([plans EXCEPT ![s] = None, ![t] = request[r].patch])
                /\ renamed' = renamed \cup ({s} \ {t})
        /\ UNCHANGED <<row, rowEnded, last, entry, guard, answer, overlaps, counts>>

ReadForDelete(r, s) ==
    /\ plans[s] # None /\ s # "trial" /\ row.plan # s /\ Begin(r, "delete plan")
    /\ Busy(r, [NoRequest EXCEPT !.pc = "delete plan", !.op = "delete plan", !.slug = s])
    /\ UNCHANGED <<db, entry, guard, answer, now, checks>>
DeletePlan(r) ==
    /\ request[r].pc = "delete plan" /\ Done(r)
    /\ WritePlans([plans EXCEPT ![request[r].slug] = None])
    /\ UNCHANGED <<row, rowEnded, last, renamed, entry, guard, answer, overlaps, counts>>

Next ==
    \/ Check \/ SetUnread \/ ReadPlan \/ Tick \/ Cancel
    \/ \E r \in Requests :
          \/ \E s \in Slugs : \/ Subscribe(r, s) \/ ReadForDelete(r, s)
                              \/ \E p \in Plans : ReadForCreate(r, s, p) \/ \E t \in Slugs : ReadForUpdate(r, s, t, p)
          \/ \E patch \in Patches : ReadForEdit(r, patch)
          \/ \E status \in {"active", "expired"} : ReadForEvent(r, status)
          \/ WriteEvent(r) \/ WriteSubscription(r) \/ SaveEdit(r) \/ InsertPlan(r) \/ SavePlan(r) \/ DeletePlan(r)

Spec == Init /\ [][Next]_vars

------------------------------------------------------------------------------
TypeOK ==
    /\ row \in Row /\ last \in Row
    /\ plans \in [Slugs -> Plans \cup {None}] /\ renamed \subseteq Slugs
    /\ rowEnded \in Seq(Nat) /\ plansEnded \in Seq(Nat)
    /\ entry \in Entry \cup {None}
    /\ guard \in [pc : {"idle", "set", "plan"}, status : Statuses \cup {""}, plan : Slugs \cup {None},
                   row : Nat, plans : Nat, at : Nat]
    /\ answer \in [allowed : BOOLEAN, row : Nat, plans : Nat, at : Nat, fresh : BOOLEAN]
    /\ now \in 0..MaxTime /\ checks \in 0..MaxChecks /\ writes \in 0..MaxWrites

(* The guard answers for a row and for features no older than the entry's time to
   live and its way there: each of the two implements BoundedStaleness. *)
RowRead == INSTANCE BoundedStaleness WITH Bound <- TTL + MaxFetch, ended <- rowEnded,
               answer <- [value |-> answer.row, at |-> answer.at]
GuardBounded == RowRead!Init /\ [][[RowRead!Next]_(RowRead!vars)]_vars
PlansBounded ==
    [][answer' # answer /\ answer'.plans > 0
          => answer'.plans = PlansVersion \/ now <= plansEnded[answer'.plans] + TTL + MaxFetch]_vars

(* The status and the plan of the row are those of the last answered writes,
   unless an administrator's edit or an event of Stripe, which write back what
   they read, was open during another write. *)
AnsweredStays == row # last => \E o \in overlaps : o \cap {"edit", "event"} # {}

(* The workspace's plan exists, unless its slug was renamed or set by an
   administrator, or the plan was deleted during a subscription. *)
PlanExists ==
    row.plan # None /\ plans[row.plan] = None
        => row.plan \in renamed \/ \E o \in overlaps : o \cap {"delete plan", "update plan", "edit"} # {}

(* getMyFeatures *)
Shown ==
    IF row.status = "trial" THEN plans["trial"] = None \/ Feature \in plans["trial"].features
    ELSE row.plan # None /\ plans[row.plan] # None /\ Feature \in plans[row.plan].features
(* A guard that read what is there allows what the screens show, except in the
   trial, where it does not ask for the plan of the trial. *)
GuardAsShown ==
    [][answer' # answer /\ answer'.fresh /\ answer'.allowed # Shown
          => row.status = "trial" /\ plans["trial"] # None]_vars

------------------------------------------------------------------------------
(* The inductive invariant behind these.  What a write on its way is doing, and
   that two writes on their way have been seen to overlap. *)

WritesOK ==
    /\ request = [r \in Requests |-> request[r]]
    /\ \A r \in Requests :
           /\ request[r].pc \in {"idle", "subscribe", "event", "edit", "insert plan", "save plan", "delete plan"}
           /\ request[r].pc = "subscribe" => request[r].op = "subscribe" /\ request[r].slug \in Slugs
           /\ request[r].pc = "event" =>
                  /\ request[r].op = "event" /\ request[r].read \in Row
                  /\ \E status \in Statuses : request[r].patch = <<"status", status>>
           /\ request[r].pc = "edit" =>
                  request[r].op = "edit" /\ request[r].read \in Row /\ request[r].patch \in Patches
           /\ request[r].pc = "insert plan" =>
                  request[r].op = "create plan" /\ request[r].slug \in Slugs /\ request[r].patch \in Plans
           /\ request[r].pc = "save plan" =>
                  /\ request[r].op = "update plan" /\ request[r].patch \in Plans
                  /\ request[r].slug \in Slugs /\ request[r].to \in Slugs
           /\ request[r].pc = "delete plan" => request[r].op = "delete plan" /\ request[r].slug \in Slugs

PairsSeen ==
    \A q, r \in Requests : q # r /\ request[q].pc # "idle" /\ request[r].pc # "idle"
                           => {request[q].op, request[r].op} \in overlaps

\* What writes back its read finds the row as it read it, unless it was overlapped.
ReadsAlone ==
    \/ \E o \in overlaps : o \cap {"edit", "event"} # {}
    \/ row = last /\ \A r \in Requests : request[r].pc \in {"edit", "event"} => request[r].read = row

\* A plan named by the row, or by a write on its way to it, is there or was renamed.
Known(s) == plans[s] # None \/ s \in renamed
PlansNamed ==
    \/ \E o \in overlaps : o \cap {"delete plan", "update plan", "edit"} # {}
    \/ /\ row.plan # None => Known(row.plan)
       /\ \A r \in Requests :
              /\ request[r].pc = "subscribe" => Known(request[r].slug)
              /\ request[r].pc \in {"edit", "event"} /\ request[r].read.plan # None => Known(request[r].read.plan)
              /\ request[r].pc = "delete plan" => request[r].slug # row.plan

\* The age and the source of what the guard has read, and of what this process keeps.
GuardOK ==
    guard.pc # "idle" =>
        /\ guard.at <= now /\ now <= guard.at + MaxFetch
        /\ \/ guard.row = RowVersion /\ guard.status = row.status /\ guard.plan = row.plan
           \/ guard.row \in 1..Len(rowEnded) /\ guard.at <= rowEnded[guard.row]
        /\ guard.status \in Statuses
        /\ IF guard.pc = "plan" THEN guard.status # "trial" /\ guard.plan \in Slugs
           ELSE guard.status = "trial" \/ guard.plan = None

FeaturesOf(s) == IF plans[s] = None THEN {} ELSE plans[s].features
EntryOK ==
    entry # None =>
        /\ \/ /\ entry.row = RowVersion /\ entry.until <= now + TTL /\ entry.status = row.status
              /\ entry.plans = 0 => entry.features = {} /\ (row.status = "trial" \/ row.plan = None)
              /\ entry.plans > 0 => row.status # "trial" /\ row.plan \in Slugs
              /\ entry.plans = PlansVersion => entry.features = FeaturesOf(row.plan)
           \/ entry.row \in 1..Len(rowEnded) /\ entry.until <= rowEnded[entry.row] + TTL + MaxFetch
        /\ \/ entry.plans = 0
           \/ entry.plans = PlansVersion /\ entry.until <= now + TTL
           \/ entry.plans \in 1..Len(plansEnded) /\ entry.until <= plansEnded[entry.plans] + TTL

IInv == TypeOK /\ WritesOK /\ PairsSeen /\ ReadsAlone /\ PlansNamed /\ GuardOK /\ EntryOK
=============================================================================
