--------------------------- MODULE BillingWebhook ---------------------------
(***************************************************************************)
(* The billing state of one workspace: the Stripe webhook with its          *)
(* idempotency lock (BillingService.handleWebhook), the trial check of      *)
(* GET /workspace/me (WorkspacesService), and the subscribe and cancel      *)
(* endpoints (SubscriptionsService).                                        *)
(*                                                                         *)
(* Stripe emits events in the order of history and delivers each until it   *)
(* is acknowledged: again after an error or a timeout, so two deliveries of *)
(* one event may run at once, and late ones may overtake newer ones.        *)
(***************************************************************************)
EXTENDS Integers, FiniteSets

CONSTANTS
    Handlers,     \* webhook requests that may run at once
    Subs,         \* Stripe subscriptions of the workspace
    NEvents,      \* events Stripe emits
    history,      \* what the n-th event says
    InOrder,      \* whether Stripe waits for an ack before the next event
    LocalEdits,   \* whether the owner uses the subscribe and cancel endpoints
    MaxFailures,  \* bound: queries that fail
    MaxDeaths,    \* bound: requests that end without running their catch block
    NoSub

Events == 1..NEvents
Types == {"checkout", "updated", "deleted", "payment_failed"}
StripeStatus == {"active", "trialing", "past_due", "canceled", "incomplete", "unpaid", "unknown"}
Status == {"trial", "active", "expired", "canceled"}
HandlerPC == {"idle", "lock", "find", "write", "rollback"}

ASSUME BillingAssumption ==
    /\ NEvents \in Nat /\ MaxFailures \in Nat /\ MaxDeaths \in Nat
    /\ history \in [Events -> [type : Types, sub : Subs, status : StripeStatus, ending : BOOLEAN]]
    /\ InOrder \in BOOLEAN /\ LocalEdits \in BOOLEAN
    /\ NoSub \notin Subs
    /\ IsFiniteSet(Handlers)

VARIABLES
    ws,        \* the workspace row
    trialOver, \* trialEndsAt has passed
    locks,     \* ids in stripe_webhook_events
    handler,   \* each request: position, event, the status it read
    emitted,   \* events Stripe has emitted
    acked,     \* events Stripe got a 2xx for
    handled,   \* events whose processing ran to its end
    trialCheck,     \* the trial check is between its read and its write
    failures, deaths

vars == <<ws, trialOver, locks, handler, emitted, acked, handled, trialCheck, failures, deaths>>

Workspace == [status : Status, sub : Subs \cup {NoSub}, ending : BOOLEAN]

TypeOK ==
    /\ ws \in Workspace
    /\ trialOver \in BOOLEAN
    /\ locks \subseteq Events /\ acked \subseteq Events /\ handled \subseteq Events
    /\ handler \in [Handlers -> [pc : HandlerPC, event : 0..NEvents, read : Status]]
    /\ emitted \in 0..NEvents
    /\ trialCheck \in {"idle", "expire"}
    /\ failures \in 0..MaxFailures
    /\ deaths \in 0..MaxDeaths

Idle == [pc |-> "idle", event |-> 0, read |-> "trial"]

Init ==
    /\ ws = [status |-> "trial", sub |-> NoSub, ending |-> FALSE]
    /\ trialOver = FALSE
    /\ locks = {} /\ acked = {} /\ handled = {}
    /\ handler = [h \in Handlers |-> Idle]
    /\ emitted = 0
    /\ trialCheck = "idle"
    /\ failures = 0 /\ deaths = 0

-----------------------------------------------------------------------------
\* Stripe.

Emit ==
    /\ emitted < NEvents
    /\ emitted' = emitted + 1
    /\ UNCHANGED <<ws, trialOver, locks, handler, acked, handled, trialCheck, failures, deaths>>

Deliver(h, e) ==
    /\ handler[h].pc = "idle"
    /\ e <= emitted /\ e \notin acked
    /\ InOrder => \A d \in Events : d < e => d \in acked
    /\ handler' = [handler EXCEPT ![h] = [pc |-> "lock", event |-> e, read |-> "trial"]]
    /\ UNCHANGED <<ws, trialOver, locks, emitted, acked, handled, trialCheck, failures, deaths>>

-----------------------------------------------------------------------------
\* handleWebhook.

Event(h) == history[handler[h].event]

\* The response is 200: Stripe does not deliver the event again.
Answer(h) == /\ handler' = [handler EXCEPT ![h] = Idle]
             /\ acked' = acked \cup {handler[h].event}

Processed(h) == /\ Answer(h)
                /\ handled' = handled \cup {handler[h].event}

FirstStep(h) == IF Event(h).type = "checkout" THEN "write" ELSE "find"

\* Mutated forms of InsertLock: the lock is tested but not reserved, so that
\* only a finished request stops a second one; the lock is taken per type and
\* subscription instead of per event.
InsertLock_TestOnly(h) ==
    /\ handler[h].pc = "lock"
    /\ \/ /\ handler[h].event \in handled
          /\ Answer(h)
          /\ UNCHANGED locks
       \/ /\ handler[h].event \notin handled
          /\ locks' = locks \cup {handler[h].event}
          /\ handler' = [handler EXCEPT ![h].pc = FirstStep(h)]
          /\ UNCHANGED acked
    /\ UNCHANGED <<ws, trialOver, emitted, handled, trialCheck, failures, deaths>>
SameKind(d, e) == history[d].type = history[e].type /\ history[d].sub = history[e].sub
InsertLock_PerKind(h) ==
    /\ handler[h].pc = "lock"
    /\ \/ /\ \E d \in locks : SameKind(d, handler[h].event)
          /\ Answer(h)
          /\ UNCHANGED locks
       \/ /\ \A d \in locks : ~SameKind(d, handler[h].event)
          /\ locks' = locks \cup {handler[h].event}
          /\ handler' = [handler EXCEPT ![h].pc = FirstStep(h)]
          /\ UNCHANGED acked
    /\ UNCHANGED <<ws, trialOver, emitted, handled, trialCheck, failures, deaths>>

\* INSERT ... ON CONFLICT DO NOTHING RETURNING id: a request that finds the id
\* in the table returns at once, whatever became of the one that inserted it.
InsertLock(h) ==
    /\ handler[h].pc = "lock"
    /\ \/ /\ handler[h].event \in locks
          /\ Answer(h)
          /\ UNCHANGED locks
       \/ /\ handler[h].event \notin locks
          /\ locks' = locks \cup {handler[h].event}
          /\ handler' = [handler EXCEPT ![h].pc = FirstStep(h)]
          /\ UNCHANGED acked
    /\ UNCHANGED <<ws, trialOver, emitted, handled, trialCheck, failures, deaths>>

\* Created and updated events name their workspace in the metadata; deleted and
\* payment_failed ones look it up by subscription, and a failed payment writes
\* nothing.
Finds(h) == \/ Event(h).type = "updated"
            \/ Event(h).type = "deleted" /\ ws.sub = Event(h).sub

FindWorkspace(h) ==
    /\ handler[h].pc = "find"
    /\ \/ /\ Finds(h)
          /\ handler' = [handler EXCEPT ![h].pc = "write", ![h].read = ws.status]
          /\ UNCHANGED <<acked, handled>>
       \/ /\ ~Finds(h)
          /\ Processed(h)
    /\ UNCHANGED <<ws, trialOver, locks, emitted, trialCheck, failures, deaths>>

\* Mutated forms of MappedStatus: Stripe's status is stored as it is; a
\* subscription in its Stripe trial puts the workspace back in trial.
MappedStatus_Unmapped(stripe, read) == IF stripe = "unknown" THEN read ELSE stripe
MappedStatus_TrialingIsTrial(stripe, read) ==
    CASE stripe = "trialing" -> "trial"
      [] stripe \in {"active", "past_due"} -> "active"
      [] stripe = "canceled" -> "canceled"
      [] stripe \in {"incomplete", "unpaid"} -> "expired"
      [] OTHER -> read

\* statusMap, with the status read before for one it does not list.
MappedStatus(stripe, read) ==
    CASE stripe \in {"active", "trialing", "past_due"} -> "active"
      [] stripe = "canceled" -> "canceled"
      [] stripe \in {"incomplete", "unpaid"} -> "expired"
      [] OTHER -> read

\* Mutated form of Applied: a deletion leaves the status as it is.
Applied_DeletionKeepsStatus(e, read) ==
    CASE history[e].type = "checkout" ->
            [ws EXCEPT !.status = "active", !.sub = history[e].sub]
      [] history[e].type = "updated" ->
            [status |-> MappedStatus(history[e].status, read),
             sub |-> history[e].sub, ending |-> history[e].ending]
      [] OTHER -> [ws EXCEPT !.ending = FALSE]

\* The row after an event: one UPDATE of the columns each handler names.
Applied(e, read) ==
    CASE history[e].type = "checkout" ->
            [ws EXCEPT !.status = "active", !.sub = history[e].sub]
      [] history[e].type = "updated" ->
            [status |-> MappedStatus(history[e].status, read),
             sub |-> history[e].sub, ending |-> history[e].ending]
      [] OTHER -> [ws EXCEPT !.status = "canceled", !.ending = FALSE]

WriteWorkspace(h) ==
    /\ handler[h].pc = "write"
    /\ ws' = Applied(handler[h].event, handler[h].read)
    /\ Processed(h)
    /\ UNCHANGED <<trialOver, locks, emitted, trialCheck, failures, deaths>>

\* A query fails after the lock was written: on to the catch block.
QueryFails(h) ==
    /\ handler[h].pc \in {"find", "write"}
    /\ failures < MaxFailures
    /\ failures' = failures + 1
    /\ handler' = [handler EXCEPT ![h].pc = "rollback"]
    /\ UNCHANGED <<ws, trialOver, locks, emitted, acked, handled, trialCheck, deaths>>

\* Mutated form of Rollback: the error is answered but the lock stays.
Rollback_KeepsLock(h) ==
    /\ handler[h].pc = "rollback"
    /\ handler' = [handler EXCEPT ![h] = Idle]
    /\ UNCHANGED <<ws, trialOver, locks, emitted, acked, handled, trialCheck, failures, deaths>>

\* The catch block deletes the lock; the response is an error.
Rollback(h) ==
    /\ handler[h].pc = "rollback"
    /\ locks' = locks \ {handler[h].event}
    /\ handler' = [handler EXCEPT ![h] = Idle]
    /\ UNCHANGED <<ws, trialOver, emitted, acked, handled, trialCheck, failures, deaths>>

\* The instance dies under the request, or the DELETE of the catch block fails.
Die(h) ==
    /\ handler[h].pc # "idle"
    /\ deaths < MaxDeaths
    /\ deaths' = deaths + 1
    /\ handler' = [handler EXCEPT ![h] = Idle]
    /\ UNCHANGED <<ws, trialOver, locks, emitted, acked, handled, trialCheck, failures>>

-----------------------------------------------------------------------------
\* The other writers of the status.

EndTrial ==
    /\ ~trialOver
    /\ trialOver' = TRUE
    /\ UNCHANGED <<ws, locks, handler, emitted, acked, handled, trialCheck, failures, deaths>>

\* findOneWithTrial, whenever a screen asks for its workspace.  (SubscriptionGuard
\* has the same check, but runs before the guard that knows the user.)
ReadTrial ==
    /\ trialCheck = "idle"
    /\ ws.status = "trial" /\ trialOver
    /\ trialCheck' = "expire"
    /\ UNCHANGED <<ws, trialOver, locks, handler, emitted, acked, handled, failures, deaths>>

ExpireTrial ==
    /\ trialCheck = "expire"
    /\ trialCheck' = "idle"
    /\ ws' = [ws EXCEPT !.status = "expired"]
    /\ UNCHANGED <<trialOver, locks, handler, emitted, acked, handled, failures, deaths>>

Subscribe ==
    /\ LocalEdits
    /\ ws' = [ws EXCEPT !.status = "active"]
    /\ UNCHANGED <<trialOver, locks, handler, emitted, acked, handled, trialCheck, failures, deaths>>

Cancel ==
    /\ LocalEdits
    /\ ws' = [ws EXCEPT !.status = "canceled"]
    /\ UNCHANGED <<trialOver, locks, handler, emitted, acked, handled, trialCheck, failures, deaths>>

-----------------------------------------------------------------------------
Handle(h) == \/ InsertLock(h) \/ FindWorkspace(h) \/ WriteWorkspace(h) \/ Rollback(h)

Next ==
    \/ Emit
    \/ \E h \in Handlers, e \in Events : Deliver(h, e)
    \/ \E h \in Handlers : Handle(h) \/ QueryFails(h) \/ Die(h)
    \/ EndTrial \/ ReadTrial \/ ExpireTrial
    \/ Subscribe \/ Cancel

Spec == Init /\ [][Next]_vars

\* Stripe retries what was not acknowledged; a request and a trial check that
\* have begun run to their end.
FairSpec ==
    /\ Spec
    /\ WF_vars(\E h \in Handlers, e \in Events : Deliver(h, e))
    /\ \A h \in Handlers : WF_vars(Handle(h))
    /\ WF_vars(ExpireTrial)

-----------------------------------------------------------------------------
\* "Closes TOCTOU between SELECT and PROCESS that could double-apply side
\* effects under simultaneous Stripe retries": no two requests process one
\* event, and none processes an event that was processed before.
Processing(h, e) == handler[h].pc \in {"find", "write", "rollback"} /\ handler[h].event = e

ProcessedOnce ==
    \A e \in Events, h \in Handlers : Processing(h, e) =>
        /\ e \notin handled
        /\ \A g \in Handlers \ {h} : ~Processing(g, e)

\* Acknowledged, never processed, and nobody working on it: Stripe will not
\* send it again.
Lost == {e \in acked \ handled : \A h \in Handlers : ~Processing(h, e)}

\* Duplicates, reordering and retries lose nothing by themselves: each failed
\* query and each request that died loses at most one event.
FaultsBoundLoss == Cardinality(Lost) <= failures + deaths

\* "Roll back the lock so the event can be retried by Stripe": as long as no
\* request dies, a failing one loses nothing.
RetriedAfterError == deaths = 0 => Lost = {}

\* A workspace that left its trial never returns to it, or the trial check of
\* its next request would lock a paying customer out (statusMap maps Stripe's
\* own trials to active).
NeverBackToTrial == [][ws.status # "trial" => ws'.status # "trial"]_vars

\* What Stripe says of the workspace after its first n events: the subscription
\* last checked out or updated, unless it was deleted.
After(e, before) ==
    CASE e.type = "checkout" -> [sub |-> e.sub, status |-> "active"]
      [] e.type = "updated" -> [sub |-> e.sub, status |-> MappedStatus(e.status, before.status)]
      [] e.type = "deleted" /\ e.sub = before.sub -> [sub |-> e.sub, status |-> "canceled"]
      [] OTHER -> before

StripeView[n \in 0..NEvents] ==
    IF n = 0 THEN [sub |-> NoSub, status |-> "trial"]
    ELSE After(history[n], StripeView[n - 1])

\* With events one at a time and in order, the workspace agrees with Stripe
\* between requests, whatever failed and was retried on the way; only a trial
\* check that overlapped the first events can leave it expired instead.
MirrorsStripe ==
    (\A h \in Handlers : handler[h].pc = "idle") =>
        LET view == StripeView[Cardinality(handled)] IN
        /\ ws.sub = view.sub
        /\ ws.status = view.status \/ (ws.status = "expired" /\ trialOver)

\* Both, for events one at a time, in order, and no deaths.
EventsMirrored == RetriedAfterError /\ MirrorsStripe

\* Every event Stripe emits is processed in the end.
EventuallyHandled == \A e \in Events : e <= emitted ~> e \in handled
=============================================================================
