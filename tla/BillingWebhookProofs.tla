------------------------ MODULE BillingWebhookProofs ------------------------
(***************************************************************************)
(* Proofs about BillingWebhook, for every number of concurrent requests,    *)
(* every history of events, and any failures and deaths.                    *)
(***************************************************************************)
EXTENDS BillingWebhook, FiniteSetTheorems, WellFoundedInduction, TLAPS

-----------------------------------------------------------------------------
\* The lock at work: an event being processed is locked and was not processed
\* before, by one request only; a processed event stays locked.

LockInv ==
    /\ handler \in [Handlers -> [pc : HandlerPC, event : 0..NEvents, read : Status]]
    /\ \A h \in Handlers : handler[h].pc # "idle" => handler[h].event \in Events
    /\ handled \subseteq locks
    /\ \A h \in Handlers, e \in Events : Processing(h, e) => e \in locks
    /\ ProcessedOnce

LEMMA InitLock == Init => LockInv
BY BillingAssumption
   DEF Init, LockInv, ProcessedOnce, Processing, Idle, HandlerPC, Status

\* Steps that leave the handlers and the two tables of events alone.
LEMMA LockUnchanged ==
    ASSUME LockInv, UNCHANGED <<handler, locks, handled>>
    PROVE  LockInv'
BY DEF LockInv, ProcessedOnce, Processing

\* A request that ends without a processed event.
LEMMA RequestEnds ==
    ASSUME LockInv, NEW h \in Handlers,
           handler' = [handler EXCEPT ![h] = Idle], UNCHANGED <<locks, handled>>
    PROVE  LockInv'
<1>1. Idle \in [pc : HandlerPC, event : 0..NEvents, read : Status] /\ Idle.pc = "idle"
  BY BillingAssumption DEF Idle, HandlerPC, Status
<1> QED BY <1>1 DEF LockInv, ProcessedOnce, Processing

\* A request that ends with its event processed.
LEMMA RequestProcessed ==
    ASSUME LockInv, NEW h \in Handlers, handler[h].pc \in {"find", "write"},
           Processed(h), UNCHANGED locks
    PROVE  LockInv'
<1>1. Idle \in [pc : HandlerPC, event : 0..NEvents, read : Status] /\ Idle.pc = "idle"
  BY BillingAssumption DEF Idle, HandlerPC, Status
<1>2. /\ handler' = [handler EXCEPT ![h] = Idle]
      /\ handled' = handled \cup {handler[h].event}
  BY DEF Processed, Answer
<1>3. handler[h].event \in Events
  BY DEF LockInv
<1>4. Processing(h, handler[h].event)
  BY DEF Processing
<1>5. \A g \in Handlers, e \in Events : Processing(g, e)' => g # h /\ Processing(g, e)
  BY <1>1, <1>2 DEF Processing, LockInv
<1>6. ProcessedOnce'
  <2> SUFFICES ASSUME NEW e \in Events, NEW g \in Handlers, Processing(g, e)'
               PROVE  /\ e \notin handled'
                      /\ \A f \in Handlers \ {g} : ~Processing(f, e)'
    BY DEF ProcessedOnce
  <2>1. g # h /\ Processing(g, e)
    BY <1>5
  <2>2. e # handler[h].event
    BY <1>3, <1>4, <2>1 DEF LockInv, ProcessedOnce
  <2> QED BY <1>2, <1>5, <2>1, <2>2 DEF LockInv, ProcessedOnce
<1> QED BY <1>1, <1>2, <1>3, <1>4, <1>5, <1>6 DEF LockInv

\* A request that moves on with its event.
LEMMA RequestMoves ==
    ASSUME LockInv, NEW h \in Handlers, NEW r \in [pc : HandlerPC, event : 0..NEvents, read : Status],
           handler[h].pc \in {"find", "write"}, r.event = handler[h].event, r.pc # "idle",
           handler' = [handler EXCEPT ![h] = r], UNCHANGED <<locks, handled>>
    PROVE  LockInv'
<1>1. \A g \in Handlers, e \in Events : Processing(g, e)' => Processing(g, e)
  BY DEF Processing, LockInv
<1>2. \A g \in Handlers : handler'[g].pc # "idle" => handler'[g].event \in Events
  BY DEF LockInv
<1> QED BY <1>1, <1>2 DEF LockInv, ProcessedOnce

LEMMA StepDeliver ==
    ASSUME LockInv, NEW h \in Handlers, NEW e \in Events, Deliver(h, e)
    PROVE  LockInv'
<1> DEFINE r == [pc |-> "lock", event |-> e, read |-> "trial"]
<1>1. r \in [pc : HandlerPC, event : 0..NEvents, read : Status] /\ r.pc = "lock" /\ r.event \in Events
  BY BillingAssumption DEF HandlerPC, Status, Events
<1>2. handler' = [handler EXCEPT ![h] = r] /\ UNCHANGED <<locks, handled>>
  BY DEF Deliver
<1> HIDE DEF r
<1>3. \A g \in Handlers, d \in Events : Processing(g, d)' => Processing(g, d)
  BY <1>1, <1>2 DEF Processing, LockInv
<1> QED BY <1>1, <1>2, <1>3 DEF LockInv, ProcessedOnce

LEMMA StepInsertLock ==
    ASSUME LockInv, NEW h \in Handlers, InsertLock(h)
    PROVE  LockInv'
<1>1. CASE handler[h].event \in locks
  BY <1>1, RequestEnds DEF InsertLock, Answer
<1>2. CASE handler[h].event \notin locks
  <2> DEFINE e == handler[h].event
             r == [handler[h] EXCEPT !.pc = FirstStep(h)]
  <2>1. /\ handler[h].pc = "lock"
        /\ locks' = locks \cup {e} /\ handled' = handled
        /\ handler' = [handler EXCEPT ![h].pc = FirstStep(h)]
    BY <1>2 DEF InsertLock
  <2>2. e \in Events /\ e \notin handled
    BY <1>2, <2>1 DEF LockInv
  <2>3. r \in [pc : HandlerPC, event : 0..NEvents, read : Status]
        /\ r.pc \in {"write", "find"} /\ r.event = e
    BY DEF FirstStep, HandlerPC, LockInv
  <2>4. handler' = [handler EXCEPT ![h] = r]
    BY <2>1
  <2> HIDE DEF r
  <2>5. \A g \in Handlers, d \in Events :
            Processing(g, d)' => (g = h /\ d = e) \/ (g # h /\ Processing(g, d))
    BY <2>3, <2>4 DEF Processing, LockInv
  <2>6. \A g \in Handlers : ~Processing(g, e)
    BY <1>2, <2>2 DEF LockInv
  <2>7. ProcessedOnce'
    <3> HIDE DEF e
    <3> SUFFICES ASSUME NEW d \in Events, NEW g \in Handlers, Processing(g, d)'
                 PROVE  /\ d \notin handled'
                        /\ \A f \in Handlers \ {g} : ~Processing(f, d)'
      BY DEF ProcessedOnce
    <3> QED BY <2>1, <2>2, <2>5, <2>6 DEF LockInv, ProcessedOnce
  <2> QED BY <2>1, <2>2, <2>3, <2>4, <2>5, <2>7 DEF LockInv
<1> QED BY <1>1, <1>2

LEMMA StepFindWorkspace ==
    ASSUME LockInv, NEW h \in Handlers, FindWorkspace(h), ws.status \in Status
    PROVE  LockInv'
<1>1. CASE Processed(h)
  BY <1>1, RequestProcessed DEF FindWorkspace
<1>2. CASE ~Processed(h)
  <2> DEFINE r == [handler[h] EXCEPT !.pc = "write", !.read = ws.status]
  <2>1. /\ handler[h].pc = "find" /\ UNCHANGED <<locks, handled>>
        /\ handler' = [handler EXCEPT ![h].pc = "write", ![h].read = ws.status]
    BY <1>2 DEF FindWorkspace
  <2>2. r \in [pc : HandlerPC, event : 0..NEvents, read : Status]
        /\ r.pc = "write" /\ r.event = handler[h].event
    BY DEF HandlerPC, LockInv
  <2>3. handler' = [handler EXCEPT ![h] = r]
    BY <2>1
  <2> HIDE DEF r
  <2> QED BY <2>1, <2>2, <2>3, RequestMoves
<1> QED BY <1>1, <1>2

LEMMA StepQueryFails ==
    ASSUME LockInv, NEW h \in Handlers, QueryFails(h)
    PROVE  LockInv'
<1> DEFINE r == [handler[h] EXCEPT !.pc = "rollback"]
<1>1. /\ handler[h].pc \in {"find", "write"} /\ UNCHANGED <<locks, handled>>
      /\ handler' = [handler EXCEPT ![h].pc = "rollback"]
  BY DEF QueryFails
<1>2. r \in [pc : HandlerPC, event : 0..NEvents, read : Status]
      /\ r.pc = "rollback" /\ r.event = handler[h].event
  BY DEF HandlerPC, LockInv
<1>3. handler' = [handler EXCEPT ![h] = r]
  BY <1>1
<1> HIDE DEF r
<1> QED BY <1>1, <1>2, <1>3, RequestMoves

\* The lock is deleted only by the request that holds it, and only while its
\* event is not processed.
LEMMA StepRollback ==
    ASSUME LockInv, NEW h \in Handlers, Rollback(h)
    PROVE  LockInv'
<1>1. /\ handler[h].pc = "rollback" /\ handled' = handled
      /\ locks' = locks \ {handler[h].event}
      /\ handler' = [handler EXCEPT ![h] = Idle]
  BY DEF Rollback
<1>2. handler[h].event \in Events /\ Processing(h, handler[h].event)
  BY <1>1 DEF LockInv, Processing
<1>3. Idle \in [pc : HandlerPC, event : 0..NEvents, read : Status] /\ Idle.pc = "idle"
  BY BillingAssumption DEF Idle, HandlerPC, Status
<1>4. \A g \in Handlers, e \in Events : Processing(g, e)' => g # h /\ Processing(g, e)
  BY <1>1, <1>3 DEF Processing, LockInv
<1>5. ProcessedOnce'
  BY <1>1, <1>4 DEF LockInv, ProcessedOnce
<1>6. handled' \subseteq locks'
  BY <1>1, <1>2 DEF LockInv, ProcessedOnce
<1>7. \A g \in Handlers, e \in Events : Processing(g, e)' => e \in locks'
  BY <1>1, <1>2, <1>4 DEF LockInv, ProcessedOnce
<1> QED BY <1>1, <1>3, <1>5, <1>6, <1>7 DEF LockInv

-----------------------------------------------------------------------------
\* Types.

LEMMA AppliedType ==
    ASSUME TypeOK, NEW e \in Events, NEW read \in Status
    PROVE  Applied(e, read) \in Workspace
<1>1. history[e] \in [type : Types, sub : Subs, status : StripeStatus, ending : BOOLEAN]
  BY BillingAssumption
<1>2. MappedStatus(history[e].status, read) \in Status
  BY DEF MappedStatus, Status
<1>3. ws \in Workspace
  BY DEF TypeOK
<1> QED BY <1>1, <1>2, <1>3 DEF Applied, Workspace, Status

LEMMA HandlerType ==
    ASSUME TypeOK, LockInv, NEW h \in Handlers
    PROVE  /\ handler[h].event \in 0..NEvents
           /\ handler[h].read \in Status
           /\ handler[h].pc # "idle" => handler[h].event \in Events
BY DEF TypeOK, LockInv

LEMMA InitType == Init => TypeOK
<1> SUFFICES ASSUME Init PROVE TypeOK
  OBVIOUS
<1>1. Idle \in [pc : HandlerPC, event : 0..NEvents, read : Status]
  BY BillingAssumption DEF Idle, HandlerPC, Status
<1>2. handler \in [Handlers -> [pc : HandlerPC, event : 0..NEvents, read : Status]]
  BY <1>1 DEF Init
<1>3. ws \in Workspace
  BY DEF Init, Workspace, Status
<1>4. trialOver \in BOOLEAN
  BY DEF Init
<1> QED BY <1>2, <1>3, <1>4, BillingAssumption DEF Init, TypeOK

LEMMA NextType ==
    ASSUME TypeOK, LockInv, LockInv', [Next]_vars
    PROVE  TypeOK'
<1>0. handler' \in [Handlers -> [pc : HandlerPC, event : 0..NEvents, read : Status]]
  BY DEF LockInv
<1> USE BillingAssumption
<1>1. CASE UNCHANGED vars
  BY <1>1 DEF TypeOK, vars
<1>2. CASE Emit
  BY <1>0, <1>2 DEF TypeOK, Emit
<1>3. ASSUME NEW h \in Handlers, NEW e \in Events, Deliver(h, e) PROVE TypeOK'
  BY <1>0, <1>3 DEF TypeOK, Deliver
<1>4. ASSUME NEW h \in Handlers, InsertLock(h) PROVE TypeOK'
  <2>1. handler[h].event \in Events
    BY <1>4, HandlerType DEF InsertLock
  <2>2. locks' \subseteq Events /\ acked' \subseteq Events
    BY <1>4, <2>1 DEF TypeOK, InsertLock, Answer
  <2> QED BY <1>0, <1>4, <2>2 DEF TypeOK, InsertLock
<1>5. ASSUME NEW h \in Handlers, FindWorkspace(h) PROVE TypeOK'
  <2>1. handler[h].event \in Events
    BY <1>5, HandlerType DEF FindWorkspace
  <2>2. acked' \subseteq Events /\ handled' \subseteq Events
    BY <1>5, <2>1 DEF TypeOK, FindWorkspace, Processed, Answer
  <2> QED BY <1>0, <1>5, <2>2 DEF TypeOK, FindWorkspace
<1>6. ASSUME NEW h \in Handlers, WriteWorkspace(h) PROVE TypeOK'
  <2>1. handler[h].event \in Events /\ handler[h].read \in Status
    BY <1>6, HandlerType DEF WriteWorkspace
  <2>2. acked' \subseteq Events /\ handled' \subseteq Events
    BY <1>6, <2>1 DEF TypeOK, WriteWorkspace, Processed, Answer
  <2>3. ws' \in Workspace
    BY <1>6, <2>1, AppliedType DEF WriteWorkspace
  <2> QED BY <1>0, <1>6, <2>2, <2>3 DEF TypeOK, WriteWorkspace
<1>7. ASSUME NEW h \in Handlers, Rollback(h) PROVE TypeOK'
  BY <1>0, <1>7 DEF TypeOK, Rollback
<1>8. ASSUME NEW h \in Handlers, QueryFails(h) PROVE TypeOK'
  BY <1>0, <1>8 DEF TypeOK, QueryFails
<1>9. ASSUME NEW h \in Handlers, Die(h) PROVE TypeOK'
  BY <1>0, <1>9 DEF TypeOK, Die
<1>10. CASE EndTrial \/ ReadTrial
  BY <1>0, <1>10 DEF TypeOK, EndTrial, ReadTrial
<1>11. CASE ExpireTrial \/ Subscribe \/ Cancel
  <2>1. ws' \in Workspace
    BY <1>11 DEF TypeOK, Workspace, Status, ExpireTrial, Subscribe, Cancel
  <2> QED BY <1>0, <1>11, <2>1 DEF TypeOK, ExpireTrial, Subscribe, Cancel
<1> QED BY <1>1, <1>2, <1>3, <1>4, <1>5, <1>6, <1>7, <1>8, <1>9, <1>10, <1>11 DEF Next, Handle

LEMMA NextLock ==
    ASSUME TypeOK, LockInv, [Next]_vars
    PROVE  LockInv'
<1>1. CASE UNCHANGED vars
  BY <1>1, LockUnchanged DEF vars
<1>2. CASE Emit \/ EndTrial \/ ReadTrial \/ ExpireTrial \/ Subscribe \/ Cancel
  BY <1>2, LockUnchanged DEF Emit, EndTrial, ReadTrial, ExpireTrial, Subscribe, Cancel
<1>3. ASSUME NEW h \in Handlers, NEW e \in Events, Deliver(h, e) PROVE LockInv'
  BY <1>3, StepDeliver
<1>4. ASSUME NEW h \in Handlers, InsertLock(h) PROVE LockInv'
  BY <1>4, StepInsertLock
<1>5. ASSUME NEW h \in Handlers, FindWorkspace(h) PROVE LockInv'
  BY <1>5, StepFindWorkspace DEF TypeOK, Workspace
<1>6. ASSUME NEW h \in Handlers, WriteWorkspace(h) PROVE LockInv'
  BY <1>6, RequestProcessed DEF WriteWorkspace
<1>7. ASSUME NEW h \in Handlers, Rollback(h) PROVE LockInv'
  BY <1>7, StepRollback
<1>8. ASSUME NEW h \in Handlers, QueryFails(h) PROVE LockInv'
  BY <1>8, StepQueryFails
<1>9. ASSUME NEW h \in Handlers, Die(h) PROVE LockInv'
  BY <1>9, RequestEnds DEF Die
<1> QED BY <1>1, <1>2, <1>3, <1>4, <1>5, <1>6, <1>7, <1>8, <1>9 DEF Next, Handle

LEMMA Invariance == Spec => [](TypeOK /\ LockInv)
<1>1. TypeOK /\ LockInv /\ [Next]_vars => (TypeOK /\ LockInv)'
  BY NextType, NextLock
<1> QED BY InitType, InitLock, <1>1, PTL DEF Spec

-----------------------------------------------------------------------------
\* Every reachable state of the billing model is well typed.
THEOREM TypeSafe == Spec => []TypeOK
BY Invariance, PTL

\* The insert-first lock of handleWebhook makes the processing of an event
\* exclusive and final: no two requests work on one event, none on an event
\* that was processed, for any number of requests, events, failures and deaths.
THEOREM LockIsExclusive == Spec => []ProcessedOnce
<1>1. LockInv => ProcessedOnce
  BY DEF LockInv
<1> QED BY Invariance, <1>1, PTL

\* As long as Stripe reports only the statuses statusMap lists, no event, trial
\* check or endpoint returns a workspace to its trial.
THEOREM TrialIsLeftForGood ==
    ASSUME \A e \in Events : history[e].status # "unknown"
    PROVE  Spec => NeverBackToTrial
<1>1. ASSUME TypeOK, LockInv, [Next]_vars, ws.status # "trial" PROVE ws'.status # "trial"
  <2>1. ASSUME NEW h \in Handlers, WriteWorkspace(h) PROVE ws'.status # "trial"
    <3> DEFINE e == handler[h].event
    <3>1. e \in Events /\ handler[h].read \in Status /\ ws' = Applied(e, handler[h].read)
      BY <2>1, HandlerType, <1>1 DEF WriteWorkspace
    <3>2. history[e].status \in StripeStatus \ {"unknown"}
      BY <3>1, BillingAssumption
    <3>3. MappedStatus(history[e].status, handler[h].read) # "trial"
      BY <3>2 DEF MappedStatus, StripeStatus
    <3>4. ws \in Workspace
      BY <1>1 DEF TypeOK
    <3> QED BY <3>1, <3>3, <3>4 DEF Applied, Workspace
  <2>2. CASE ExpireTrial \/ Subscribe \/ Cancel
    BY <1>1, <2>2 DEF ExpireTrial, Subscribe, Cancel, TypeOK, Workspace
  <2>3. CASE UNCHANGED ws
    BY <1>1, <2>3
  <2> QED BY <1>1, <2>1, <2>2, <2>3
          DEF Next, Handle, vars, Emit, Deliver, InsertLock, FindWorkspace, Rollback,
              QueryFails, Die, EndTrial, ReadTrial
<1>2. TypeOK /\ LockInv /\ [Next]_vars => (ws.status # "trial" => ws'.status # "trial")
  BY <1>1
<1> QED BY Invariance, <1>2, PTL DEF Spec, NeverBackToTrial

-----------------------------------------------------------------------------
\* What a fault costs.  An event is doomed when its lock or its acknowledgement
\* keeps every other request from processing it and no request is about to do
\* it: only a failing query and a dying request doom one, one event each.  Lost
\* itself is not inductive: a request that fails still holds its event until
\* its lock is rolled back.

Working(h, e) == handler[h].pc \in {"find", "write"} /\ handler[h].event = e

Doomed == {e \in Events \ handled : /\ e \in locks \cup acked
                                    /\ \A h \in Handlers : ~Working(h, e)}

LossInv == Cardinality(Doomed) <= failures + deaths

LEMMA DoomedFinite == IsFiniteSet(Doomed) /\ Cardinality(Doomed) \in Nat
<1>1. IsFiniteSet(Events)
  BY FS_Interval, BillingAssumption DEF Events
<1>2. Doomed \subseteq Events
  BY DEF Doomed
<1> QED BY <1>1, <1>2, FS_Subset, FS_CardinalityType

LEMMA DoomedFiniteNext == IsFiniteSet(Doomed') /\ Cardinality(Doomed') \in Nat
<1>1. IsFiniteSet(Events)
  BY FS_Interval, BillingAssumption DEF Events
<1>2. Doomed' \subseteq Events
  BY DEF Doomed
<1> QED BY <1>1, <1>2, FS_Subset, FS_CardinalityType

\* A step that dooms no event and counts no fault back.
LEMMA NoneDoomed ==
    ASSUME TypeOK, LossInv, Doomed' \subseteq Doomed, UNCHANGED <<failures, deaths>>
    PROVE  LossInv'
<1>1. Cardinality(Doomed') <= Cardinality(Doomed)
  BY DoomedFinite, FS_Subset
<1> QED BY <1>1, DoomedFinite, DoomedFiniteNext DEF LossInv, TypeOK

\* A fault dooms one event.
LEMMA OneDoomed ==
    ASSUME TypeOK, LossInv, NEW e, Doomed' \subseteq Doomed \cup {e},
           failures' + deaths' = failures + deaths + 1
    PROVE  LossInv'
<1>1. /\ IsFiniteSet(Doomed \cup {e})
      /\ Cardinality(Doomed \cup {e}) <= Cardinality(Doomed) + 1
      /\ Cardinality(Doomed \cup {e}) \in Nat
  <2>1. IsFiniteSet(Doomed) /\ Cardinality(Doomed) \in Nat
    BY DoomedFinite
  <2>2. IsFiniteSet(Doomed \cup {e})
    BY <2>1, FS_AddElement
  <2>3. CASE e \in Doomed
    <3>1. Doomed \cup {e} = Doomed
      BY <2>3
    <3> QED BY <2>1, <3>1
  <2>4. CASE e \notin Doomed
    <3>1. Cardinality(Doomed \cup {e}) = Cardinality(Doomed) + 1
      BY <2>1, <2>4, FS_AddElement
    <3> QED BY <2>1, <2>2, <3>1
  <2> QED BY <2>3, <2>4
<1>2. Cardinality(Doomed') <= Cardinality(Doomed \cup {e})
  BY <1>1, FS_Subset
<1>3. failures \in Nat /\ deaths \in Nat
  BY BillingAssumption DEF TypeOK
<1>4. Cardinality(Doomed) <= failures + deaths
  BY DEF LossInv
<1>5. Cardinality(Doomed') <= failures' + deaths'
  BY <1>1, <1>2, <1>3, <1>4, DoomedFinite, DoomedFiniteNext
<1> QED BY <1>5 DEF LossInv

LEMMA InitLoss == Init => LossInv
<1> SUFFICES ASSUME Init PROVE LossInv
  OBVIOUS
<1>1. Doomed = {}
  BY DEF Init, Doomed
<1> QED BY <1>1, FS_EmptySet DEF Init, LossInv

LEMMA NextLoss ==
    ASSUME TypeOK, LockInv, LossInv, [Next]_vars
    PROVE  LossInv'
<1>0. Idle.pc = "idle" /\ handler \in [Handlers -> [pc : HandlerPC, event : 0..NEvents, read : Status]]
  BY DEF Idle, TypeOK
<1>1. CASE UNCHANGED <<handler, locks, acked, handled, failures, deaths>>
  <2>1. Doomed' \subseteq Doomed
    BY <1>1 DEF Doomed, Working
  <2> QED BY <1>1, <2>1, NoneDoomed
<1>2. ASSUME NEW h \in Handlers, NEW e \in Events, Deliver(h, e) PROVE LossInv'
  <2>1. \A g \in Handlers, d \in Events : Working(g, d) => Working(g, d)'
    BY <1>0, <1>2 DEF Deliver, Working
  <2>2. UNCHANGED <<locks, acked, handled, failures, deaths>>
    BY <1>2 DEF Deliver
  <2>3. Doomed' \subseteq Doomed
    BY <2>1, <2>2 DEF Doomed
  <2> QED BY <2>2, <2>3, NoneDoomed
<1>3. ASSUME NEW h \in Handlers, InsertLock(h) PROVE LossInv'
  <2> DEFINE e == handler[h].event
  <2>1. /\ handler[h].pc = "lock" /\ UNCHANGED <<handled, failures, deaths>>
        /\ \A g \in Handlers \ {h} : handler'[g] = handler[g]
    BY <1>0, <1>3 DEF InsertLock, Answer
  <2>2. \A g \in Handlers, d \in Events : Working(g, d) => Working(g, d)'
    BY <2>1 DEF Working
  <2>3. CASE e \in locks
    <3>1. locks' = locks /\ acked' = acked \cup {e}
      BY <1>3, <2>3 DEF InsertLock, Answer
    <3>2. Doomed' \subseteq Doomed
      BY <2>1, <2>2, <2>3, <3>1 DEF Doomed
    <3> QED BY <2>1, <3>2, NoneDoomed
  <2>4. CASE e \notin locks
    <3>1. /\ locks' = locks \cup {e} /\ acked' = acked
          /\ handler'[h].pc \in {"find", "write"} /\ handler'[h].event = e
      BY <1>0, <1>3, <2>4 DEF InsertLock, FirstStep
    <3>2. \A d \in Events : d = e => Working(h, d)'
      BY <3>1 DEF Working
    <3> HIDE DEF e
    <3>3. Doomed' \subseteq Doomed
      BY <2>1, <2>2, <3>1, <3>2 DEF Doomed
    <3> QED BY <2>1, <3>3, NoneDoomed
  <2> QED BY <2>3, <2>4
<1>4. ASSUME NEW h \in Handlers, Processed(h), UNCHANGED <<locks, failures, deaths>> PROVE LossInv'
  <2> DEFINE e == handler[h].event
  <2>1. /\ handled' = handled \cup {e} /\ acked' = acked \cup {e}
        /\ \A g \in Handlers \ {h} : handler'[g] = handler[g]
    BY <1>0, <1>4 DEF Processed, Answer
  <2>2. \A g \in Handlers, d \in Events : Working(g, d) => d = e \/ Working(g, d)'
    BY <2>1 DEF Working
  <2> HIDE DEF e
  <2>3. Doomed' \subseteq Doomed
    BY <1>4, <2>1, <2>2 DEF Doomed
  <2> QED BY <1>4, <2>3, NoneDoomed
<1>5. ASSUME NEW h \in Handlers, FindWorkspace(h) PROVE LossInv'
  <2>1. CASE Processed(h)
    BY <1>4, <1>5, <2>1 DEF FindWorkspace
  <2>2. CASE ~Processed(h)
    <3>1. /\ UNCHANGED <<locks, acked, handled, failures, deaths>>
          /\ handler'[h].pc = "write" /\ handler'[h].event = handler[h].event
          /\ \A g \in Handlers \ {h} : handler'[g] = handler[g]
      BY <1>0, <1>5, <2>2 DEF FindWorkspace
    <3>2. \A g \in Handlers, d \in Events : Working(g, d) => Working(g, d)'
      BY <3>1 DEF Working
    <3>3. Doomed' \subseteq Doomed
      BY <3>1, <3>2 DEF Doomed
    <3> QED BY <3>1, <3>3, NoneDoomed
  <2> QED BY <2>1, <2>2
<1>6. ASSUME NEW h \in Handlers, WriteWorkspace(h) PROVE LossInv'
  BY <1>4, <1>6 DEF WriteWorkspace
<1>7. ASSUME NEW h \in Handlers, Rollback(h) PROVE LossInv'
  <2>1. /\ handler[h].pc = "rollback" /\ locks' \subseteq locks
        /\ UNCHANGED <<acked, handled, failures, deaths>>
        /\ \A g \in Handlers \ {h} : handler'[g] = handler[g]
    BY <1>0, <1>7 DEF Rollback
  <2>2. \A g \in Handlers, d \in Events : Working(g, d) => Working(g, d)'
    BY <2>1 DEF Working
  <2>3. Doomed' \subseteq Doomed
    BY <2>1, <2>2 DEF Doomed
  <2> QED BY <2>1, <2>3, NoneDoomed
<1>8. ASSUME NEW h \in Handlers, QueryFails(h) \/ Die(h) PROVE LossInv'
  <2> DEFINE e == handler[h].event
  <2>1. /\ UNCHANGED <<locks, acked, handled>>
        /\ \A g \in Handlers \ {h} : handler'[g] = handler[g]
    BY <1>0, <1>8 DEF QueryFails, Die
  <2>2. failures' + deaths' = failures + deaths + 1
    BY <1>8, BillingAssumption DEF QueryFails, Die, TypeOK
  <2>3. \A g \in Handlers, d \in Events : Working(g, d) => d = e \/ Working(g, d)'
    BY <2>1 DEF Working
  <2> HIDE DEF e
  <2>4. Doomed' \subseteq Doomed \cup {e}
    BY <2>1, <2>3 DEF Doomed
  <2> QED BY <2>2, <2>4, OneDoomed
<1>9. CASE Emit \/ EndTrial \/ ReadTrial \/ ExpireTrial \/ Subscribe \/ Cancel \/ UNCHANGED vars
  BY <1>1, <1>9 DEF Emit, EndTrial, ReadTrial, ExpireTrial, Subscribe, Cancel, vars
<1> QED BY <1>2, <1>3, <1>5, <1>6, <1>7, <1>8, <1>9 DEF Next, Handle

\* Duplicated, reordered and retried deliveries lose no event by themselves:
\* at any moment the events that Stripe takes for received and nobody processes
\* are at most as many as the queries that failed and the requests that died.
THEOREM OnlyFaultsLose == Spec => []FaultsBoundLoss
<1>1. TypeOK /\ LockInv /\ LossInv /\ [Next]_vars => LossInv'
  BY NextLoss
<1>2. TypeOK /\ LossInv => FaultsBoundLoss
  <2> SUFFICES ASSUME TypeOK, LossInv PROVE FaultsBoundLoss
    OBVIOUS
  <2>1. Lost \subseteq Doomed
    BY DEF Lost, Doomed, Processing, Working, TypeOK
  <2>2. Cardinality(Lost) <= Cardinality(Doomed)
    BY <2>1, DoomedFinite, FS_Subset
  <2>3. Cardinality(Lost) \in Nat
    BY <2>1, DoomedFinite, FS_Subset, FS_CardinalityType
  <2> QED BY <2>2, <2>3, DoomedFinite, BillingAssumption DEF LossInv, FaultsBoundLoss, TypeOK
<1> QED BY Invariance, InitLoss, <1>1, <1>2, PTL DEF Spec

-----------------------------------------------------------------------------
\* Stripe's view, a recursive function.  The library's induction theorems take an
\* operator; this one takes a set.

Below == {ss \in Nat \X Nat : ss[1] < ss[2]}

LEMMA NatWellFounded == IsWellFoundedOn(Below, Nat)
BY NatLessThanWellFounded DEF OpToRel, Below

LEMMA SetInduction ==
    ASSUME NEW T \in SUBSET Nat, 0 \in T, \A n \in T : n + 1 \in T
    PROVE  T = Nat
<1> SUFFICES ASSUME Nat \ T # {} PROVE FALSE
  OBVIOUS
<1>1. Nat \ T \subseteq Nat
  OBVIOUS
<1>2. PICK n \in Nat \ T : \A m \in Nat \ T : ~(<<m, n>> \in Below)
  BY <1>1, WFMin, NatWellFounded
<1>3. \A m \in Nat \ T : ~(m < n)
  BY <1>2 DEF Below
<1>4. n - 1 \in Nat /\ n - 1 \in T
  BY <1>3
<1> QED BY <1>4

First == [sub |-> NoSub, status |-> "trial"]

\* The views of the first m events.
IsView(f, m) == f = [n \in 0..m |-> IF n = 0 THEN First ELSE After(history[n], f[n - 1])]

LEMMA ViewExists == \A m \in Nat : \E f : IsView(f, m)
<1> DEFINE T == {m \in Nat : \E f : IsView(f, m)}
<1>1. 0 \in T
  <2>1. IsView([n \in 0..0 |-> First], 0)
    BY DEF IsView
  <2> QED BY <2>1
<1>2. ASSUME NEW m \in T PROVE m + 1 \in T
  <2>1. m \in Nat
    OBVIOUS
  <2>2. PICK f : IsView(f, m)
    OBVIOUS
  <2> DEFINE g == [n \in 0..(m + 1) |-> IF n <= m THEN f[n] ELSE After(history[m + 1], f[m])]
  <2>3. \A n \in 0..(m + 1) : g[n] = IF n = 0 THEN First ELSE After(history[n], g[n - 1])
    <3> TAKE n \in 0..(m + 1)
    <3>1. CASE n = 0
      <4>1. g[n] = f[0]
        BY <2>1, <3>1
      <4> QED BY <2>1, <2>2, <3>1, <4>1 DEF IsView
    <3>2. CASE n # 0 /\ n <= m
      <4>1. n - 1 \in 0..(m + 1) /\ n - 1 <= m /\ n \in 0..m
        BY <2>1, <3>2
      <4>2. g[n] = f[n] /\ g[n - 1] = f[n - 1]
        BY <3>2, <4>1
      <4> HIDE DEF g
      <4>3. f[n] = After(history[n], f[n - 1])
        BY <2>2, <3>2, <4>1 DEF IsView
      <4> QED BY <3>2, <4>2, <4>3
    <3>3. CASE n = m + 1
      <4>1. n # 0 /\ n - 1 = m /\ m \in 0..(m + 1) /\ ~(n <= m)
        BY <2>1, <3>3
      <4>2. g[n] = After(history[m + 1], f[m]) /\ g[m] = f[m]
        BY <2>1, <4>1
      <4> HIDE DEF g
      <4> QED BY <3>3, <4>1, <4>2
    <3> QED BY <2>1, <3>1, <3>2, <3>3
  <2>4. IsView(g, m + 1)
    <3>1. DOMAIN g = 0..(m + 1) /\ g = [n \in 0..(m + 1) |-> g[n]]
      OBVIOUS
    <3> HIDE DEF g
    <3> QED BY <2>3, <3>1 DEF IsView
  <2> QED BY <2>1, <2>4
<1>3. T = Nat
  <2>1. T \in SUBSET Nat
    OBVIOUS
  <2> HIDE DEF T
  <2> QED BY <1>1, <1>2, <2>1, SetInduction
<1> QED BY <1>3

LEMMA StripeViewIs ==
    /\ StripeView[0] = First
    /\ \A n \in 1..NEvents : StripeView[n] = After(history[n], StripeView[n - 1])
<1>1. NEvents \in Nat
  BY BillingAssumption
<1>2. \E f : IsView(f, NEvents)
  BY <1>1, ViewExists
<1>3. StripeView = CHOOSE f : IsView(f, NEvents)
  BY DEF StripeView, IsView, First
<1>4. IsView(StripeView, NEvents)
  BY <1>2, <1>3
<1>5. \A n \in 0..NEvents : StripeView[n] = IF n = 0 THEN First ELSE After(history[n], StripeView[n - 1])
  BY <1>4 DEF IsView
<1> QED BY <1>1, <1>5

-----------------------------------------------------------------------------
\* One request at a time.  A lock then stands for an event that was processed or
\* is being processed, so that a delivery which finds it is a duplicate.

OneAtATime == \A g, h \in Handlers : g = h

RetryInv ==
    deaths = 0 =>
        /\ acked \subseteq handled
        /\ \A e \in locks : e \in handled \/ \E h \in Handlers : Processing(h, e)

LEMMA InitRetry == Init => RetryInv
BY DEF Init, RetryInv

LEMMA NextRetry ==
    ASSUME OneAtATime, TypeOK, LockInv, RetryInv, [Next]_vars
    PROVE  RetryInv'
<1> SUFFICES ASSUME deaths' = 0 PROVE RetryInv'
  BY DEF RetryInv
<1>0. Idle.pc = "idle" /\ handler \in [Handlers -> [pc : HandlerPC, event : 0..NEvents, read : Status]]
  BY DEF Idle, TypeOK
<1>1. CASE UNCHANGED <<handler, locks, acked, handled, deaths>>
  BY <1>1 DEF RetryInv, Processing
<1>2. ASSUME NEW h \in Handlers, NEW e \in Events, Deliver(h, e) PROVE RetryInv'
  <2>1. \A g \in Handlers, d \in Events : Processing(g, d) => Processing(g, d)'
    BY <1>0, <1>2 DEF Deliver, Processing
  <2> QED BY <1>2, <2>1 DEF Deliver, RetryInv, TypeOK
<1>3. ASSUME NEW h \in Handlers, InsertLock(h) PROVE RetryInv'
  <2> DEFINE e == handler[h].event
  <2>1. /\ handler[h].pc = "lock" /\ UNCHANGED <<handled, deaths>> /\ e \in Events
    BY <1>0, <1>3 DEF InsertLock, LockInv
  <2>2. \A g \in Handlers, d \in Events : ~Processing(g, d)
    BY <2>1 DEF OneAtATime, Processing
  <2>3. acked \subseteq handled /\ locks \subseteq handled
    BY <2>1, <2>2 DEF RetryInv, TypeOK
  <2>4. CASE e \in locks
    <3>1. locks' = locks /\ acked' = acked \cup {e}
      BY <1>3, <2>4 DEF InsertLock, Answer
    <3> QED BY <2>1, <2>3, <2>4, <3>1 DEF RetryInv
  <2>5. CASE e \notin locks
    <3>1. /\ locks' = locks \cup {e} /\ acked' = acked
          /\ handler'[h].pc \in {"find", "write"} /\ handler'[h].event = e
      BY <1>0, <1>3, <2>5 DEF InsertLock, FirstStep
    <3>2. \A d \in Events : d = e => Processing(h, d)'
      BY <3>1 DEF Processing
    <3> HIDE DEF e
    <3> QED BY <2>1, <2>3, <3>1, <3>2 DEF RetryInv
  <2> QED BY <2>4, <2>5
<1>4. ASSUME NEW h \in Handlers, Processed(h), UNCHANGED <<locks, deaths>> PROVE RetryInv'
  <2> DEFINE e == handler[h].event
  <2>1. /\ handled' = handled \cup {e} /\ acked' = acked \cup {e}
        /\ \A g \in Handlers \ {h} : handler'[g] = handler[g]
    BY <1>0, <1>4 DEF Processed, Answer
  <2>2. \A g \in Handlers, d \in Events : Processing(g, d) => d = e
    BY DEF OneAtATime, Processing
  <2> HIDE DEF e
  <2> QED BY <1>4, <2>1, <2>2 DEF RetryInv, TypeOK
<1>5. ASSUME NEW h \in Handlers, FindWorkspace(h) PROVE RetryInv'
  <2>1. CASE Processed(h)
    BY <1>4, <1>5, <2>1 DEF FindWorkspace
  <2>2. CASE ~Processed(h)
    <3>1. /\ UNCHANGED <<locks, acked, handled, deaths>>
          /\ handler'[h].pc = "write" /\ handler'[h].event = handler[h].event
          /\ \A g \in Handlers \ {h} : handler'[g] = handler[g]
      BY <1>0, <1>5, <2>2 DEF FindWorkspace
    <3>2. \A g \in Handlers, d \in Events : Processing(g, d) => Processing(g, d)'
      BY <3>1 DEF Processing
    <3> QED BY <3>1, <3>2 DEF RetryInv, TypeOK
  <2> QED BY <2>1, <2>2
<1>6. ASSUME NEW h \in Handlers, WriteWorkspace(h) PROVE RetryInv'
  BY <1>4, <1>6 DEF WriteWorkspace
<1>7. ASSUME NEW h \in Handlers, QueryFails(h) PROVE RetryInv'
  <2>1. /\ UNCHANGED <<locks, acked, handled, deaths>>
        /\ handler'[h].pc = "rollback" /\ handler'[h].event = handler[h].event
        /\ \A g \in Handlers \ {h} : handler'[g] = handler[g]
    BY <1>0, <1>7 DEF QueryFails
  <2>2. \A g \in Handlers, d \in Events : Processing(g, d) => Processing(g, d)'
    BY <2>1 DEF Processing
  <2> QED BY <2>1, <2>2 DEF RetryInv, TypeOK
<1>8. ASSUME NEW h \in Handlers, Rollback(h) PROVE RetryInv'
  <2> DEFINE e == handler[h].event
  <2>1. locks' = locks \ {e} /\ UNCHANGED <<acked, handled, deaths>>
    BY <1>8 DEF Rollback
  <2>2. \A g \in Handlers, d \in Events : Processing(g, d) => d = e
    BY DEF OneAtATime, Processing
  <2> HIDE DEF e
  <2> QED BY <2>1, <2>2 DEF RetryInv, TypeOK
<1>9. ASSUME NEW h \in Handlers, Die(h) PROVE FALSE
  BY <1>9, BillingAssumption DEF Die, TypeOK
<1>10. CASE Emit \/ EndTrial \/ ReadTrial \/ ExpireTrial \/ Subscribe \/ Cancel \/ UNCHANGED vars
  BY <1>1, <1>10 DEF Emit, EndTrial, ReadTrial, ExpireTrial, Subscribe, Cancel, vars
<1> QED BY <1>2, <1>3, <1>5, <1>6, <1>7, <1>8, <1>9, <1>10 DEF Next, Handle

\* In order and one at a time: the processed events are the first n, the request
\* is at the next one, and the row agrees with Stripe's view of the first n.
Agrees(status, n) == status = StripeView[n].status \/ (status = "expired" /\ trialOver)

Mirrored(n) ==
    /\ handled = 1..n /\ acked = 1..n
    /\ ws.sub = StripeView[n].sub /\ Agrees(ws.status, n)
    /\ \A h \in Handlers :
          /\ handler[h].pc # "idle" => handler[h].event = n + 1
          /\ handler[h].pc = "find" => history[n + 1].type # "checkout"
          /\ handler[h].pc = "write" =>
                CASE history[n + 1].type = "checkout" -> TRUE
                  [] history[n + 1].type = "updated" -> Agrees(handler[h].read, n)
                  [] OTHER -> history[n + 1].type = "deleted" /\ ws.sub = history[n + 1].sub

MirrorInv == /\ \E n \in 0..NEvents : Mirrored(n)
             /\ trialCheck = "expire" => trialOver

LEMMA InitMirror == Init => MirrorInv
<1> SUFFICES ASSUME Init PROVE MirrorInv
  OBVIOUS
<1>1. 0 \in 0..NEvents /\ 1..0 = {}
  BY BillingAssumption
<1>2. Mirrored(0)
  BY <1>1, StripeViewIs DEF Init, Mirrored, Agrees, First, Idle
<1> QED BY <1>1, <1>2 DEF Init, MirrorInv

LEMMA NextMirror ==
    ASSUME OneAtATime, InOrder, ~LocalEdits, MaxDeaths = 0,
           TypeOK, TypeOK', LockInv, RetryInv, MirrorInv, [Next]_vars
    PROVE  MirrorInv'
<1>0. /\ Idle.pc = "idle" /\ handler \in [Handlers -> [pc : HandlerPC, event : 0..NEvents, read : Status]]
      /\ deaths = 0 /\ ws \in Workspace /\ NEvents \in Nat /\ history \in [Events -> [type : Types, sub : Subs, status : StripeStatus, ending : BOOLEAN]]
  BY BillingAssumption DEF Idle, TypeOK
<1>1. PICK n \in 0..NEvents : Mirrored(n)
  BY DEF MirrorInv
<1>2. SUFFICES ASSUME ~UNCHANGED vars
      PROVE  MirrorInv'
  <2>1. CASE UNCHANGED vars
    BY <1>1, <2>1 DEF vars, MirrorInv, Mirrored, Agrees
  <2> QED BY <2>1
\* The row is not written: what remains is the handlers.
<1>3. ASSUME UNCHANGED <<ws, acked, handled>>, trialOver => trialOver',
             trialCheck' = "expire" => trialOver',
             \A h \in Handlers :
                \/ handler'[h] = handler[h]
                \/ handler'[h].pc \in {"idle", "rollback"} /\ handler'[h].event = handler[h].event /\ handler[h].pc # "idle"
                \/ handler'[h].pc = "idle"
                \/ handler'[h].pc = "lock" /\ handler'[h].event = n + 1
                \/ /\ handler'[h].pc = "find" /\ handler'[h].event = n + 1
                   /\ history[n + 1].type # "checkout"
                \/ /\ handler'[h].pc = "write" /\ handler'[h].event = n + 1
                   /\ history[n + 1].type \in {"checkout", "updated", "deleted"}
                   /\ history[n + 1].type = "updated" => handler'[h].read = ws.status
                   /\ history[n + 1].type = "deleted" => ws.sub = history[n + 1].sub
      PROVE  MirrorInv'
  <2>1. \A status : Agrees(status, n) => Agrees(status, n)'
    BY <1>3 DEF Agrees
  <2>2. ASSUME NEW h \in Handlers
        PROVE  /\ handler'[h].pc # "idle" => handler'[h].event = n + 1
               /\ handler'[h].pc = "find" => history[n + 1].type # "checkout"
               /\ handler'[h].pc = "write" =>
                    CASE history[n + 1].type = "checkout" -> TRUE
                      [] history[n + 1].type = "updated" -> Agrees(handler'[h].read, n)
                      [] OTHER -> history[n + 1].type = "deleted" /\ ws'.sub = history[n + 1].sub
    BY <1>1, <1>3 DEF Mirrored
  <2>3. \A h \in Handlers : \A r : r = handler'[h].read /\ Agrees(r, n) => Agrees(r, n)'
    BY <2>1
  <2>4. Mirrored(n)'
    BY <1>1, <1>3, <2>1, <2>2, <2>3 DEF Mirrored
  <2> QED BY <1>3, <2>4 DEF MirrorInv
<1>4. ASSUME NEW h \in Handlers, NEW e \in Events, Deliver(h, e) PROVE MirrorInv'
  <2>1. e = n + 1
    <3>1. e \notin 1..n /\ \A d \in Events : d < e => d \in 1..n
      BY <1>1, <1>4 DEF Deliver, Mirrored
    <3>2. e \in 1..NEvents /\ n \in 0..NEvents
      BY DEF Events
    <3>3. e > n
      BY <1>0, <3>1, <3>2
    <3>4. n + 1 < e => n + 1 \in Events /\ n + 1 \notin 1..n
      BY <1>0, <3>2 DEF Events
    <3>5. ~(n + 1 < e)
      BY <3>1, <3>4
    <3> QED BY <1>0, <3>2, <3>3, <3>5
  <2>2. /\ handler'[h].pc = "lock" /\ handler'[h].event = n + 1
        /\ \A g \in Handlers \ {h} : handler'[g] = handler[g]
        /\ UNCHANGED <<ws, acked, handled, trialOver, trialCheck>>
    BY <1>0, <1>4, <2>1 DEF Deliver
  <2> QED BY <1>3, <2>2 DEF MirrorInv
<1>5. ASSUME NEW h \in Handlers, handler[h].pc # "idle"
      PROVE  /\ handler[h].event = n + 1 /\ n + 1 \in Events /\ n + 1 \notin 1..n
             /\ n + 1 \in 0..NEvents
             /\ history[n + 1].type \in Types
             /\ StripeView[n + 1] = After(history[n + 1], StripeView[n])
  <2>1. handler[h].event = n + 1 /\ n + 1 \in Events
    BY <1>1, <1>5 DEF Mirrored, LockInv
  <2>2. n + 1 \in 1..NEvents /\ n + 1 - 1 = n
    BY <2>1 DEF Events
  <2> QED BY <1>0, <2>1, <2>2, StripeViewIs
<1>6. ASSUME NEW h \in Handlers, InsertLock(h) PROVE MirrorInv'
  <2>1. handler[h].pc = "lock" /\ handler[h].event = n + 1 /\ n + 1 \notin 1..n /\ history[n + 1].type \in Types
    BY <1>5, <1>6 DEF InsertLock
  <2>2. n + 1 \notin locks
    BY <1>0, <1>1, <2>1 DEF RetryInv, Mirrored, OneAtATime, Processing
  <2>3. /\ handler' = [handler EXCEPT ![h].pc = FirstStep(h)]
        /\ UNCHANGED <<ws, acked, handled, trialOver, trialCheck>>
    BY <1>6, <2>1, <2>2 DEF InsertLock
  <2>4. FirstStep(h) = IF history[n + 1].type = "checkout" THEN "write" ELSE "find"
    BY <2>1 DEF FirstStep, Event
  <2>5. /\ handler'[h].pc = FirstStep(h) /\ handler'[h].event = n + 1
        /\ \A g \in Handlers \ {h} : handler'[g] = handler[g]
    BY <1>0, <2>1, <2>3
  <2> QED BY <1>3, <2>1, <2>3, <2>4, <2>5 DEF MirrorInv
\* The event is processed.
<1>7. ASSUME NEW h \in Handlers, Processed(h), handler[h].pc \in {"find", "write"},
             UNCHANGED <<trialOver, trialCheck>>,
             ws'.sub = StripeView[n + 1].sub, Agrees(ws'.status, n + 1)
      PROVE  MirrorInv'
  <2>1. handler[h].event = n + 1 /\ n + 1 \in 0..NEvents
    BY <1>5, <1>7
  <2>2. handled' = 1..(n + 1) /\ acked' = 1..(n + 1)
    BY <1>1, <1>7, <2>1 DEF Processed, Answer, Mirrored
  <2>3. \A g \in Handlers : handler'[g].pc = "idle"
    BY <1>0, <1>7 DEF Processed, Answer, OneAtATime
  <2>4. Agrees(ws.status, n + 1)'
    BY <1>7 DEF Agrees
  <2>5. Mirrored(n + 1)'
    BY <1>7, <2>2, <2>3, <2>4 DEF Mirrored
  <2> QED BY <1>7, <2>1, <2>5 DEF MirrorInv
<1>8. ASSUME NEW h \in Handlers, FindWorkspace(h) PROVE MirrorInv'
  <2>1. /\ handler[h].pc = "find" /\ handler[h].event = n + 1 /\ history[n + 1].type \in Types \ {"checkout"}
        /\ StripeView[n + 1] = After(history[n + 1], StripeView[n])
        /\ UNCHANGED <<ws, trialOver, trialCheck>>
    BY <1>1, <1>5, <1>8 DEF FindWorkspace, Mirrored
  <2>2. CASE Finds(h)
    <3>1. /\ handler' = [handler EXCEPT ![h].pc = "write", ![h].read = ws.status]
          /\ UNCHANGED <<acked, handled>>
      BY <1>8, <2>2 DEF FindWorkspace
    <3>2. /\ handler'[h].pc = "write" /\ handler'[h].event = n + 1 /\ handler'[h].read = ws.status
          /\ \A g \in Handlers \ {h} : handler'[g] = handler[g]
      BY <1>0, <2>1, <3>1
    <3>3. \/ history[n + 1].type = "updated"
          \/ history[n + 1].type = "deleted" /\ ws.sub = history[n + 1].sub
      BY <2>1, <2>2 DEF Finds, Event
    <3> QED BY <1>3, <2>1, <3>1, <3>2, <3>3 DEF MirrorInv
  <2>3. CASE ~Finds(h)
    <3>1. Processed(h)
      BY <1>8, <2>3 DEF FindWorkspace
    <3>2. \/ history[n + 1].type = "payment_failed"
          \/ history[n + 1].type = "deleted" /\ StripeView[n].sub # history[n + 1].sub
      BY <1>1, <2>1, <2>3 DEF Finds, Event, Types, Mirrored
    <3>3. StripeView[n + 1] = StripeView[n]
      BY <2>1, <3>2 DEF After
    <3>4. ws'.sub = StripeView[n + 1].sub /\ Agrees(ws'.status, n + 1)
      BY <1>1, <2>1, <3>3 DEF Mirrored, Agrees
    <3> QED BY <1>7, <2>1, <3>1, <3>4
  <2> QED BY <2>2, <2>3
<1>9. ASSUME NEW h \in Handlers, WriteWorkspace(h) PROVE MirrorInv'
  <2> DEFINE e == history[n + 1]
             read == handler[h].read
             before == StripeView[n]
  <2>1. /\ handler[h].pc = "write" /\ handler[h].event = n + 1 /\ e.type \in Types
        /\ StripeView[n + 1] = After(e, before)
        /\ UNCHANGED <<trialOver, trialCheck>> /\ Processed(h)
        /\ ws' = Applied(n + 1, read)
    BY <1>5, <1>9 DEF WriteWorkspace
  <2>2. \/ e.type = "checkout"
        \/ e.type = "updated" /\ Agrees(read, n)
        \/ e.type = "deleted" /\ ws.sub = e.sub /\ e.sub = before.sub
    BY <1>1, <2>1 DEF Mirrored, Types
  <2>3. CASE e.type = "checkout"
    <3>1. StripeView[n + 1] = [sub |-> e.sub, status |-> "active"]
      BY <2>1, <2>3 DEF After
    <3>2. ws'.sub = e.sub /\ ws'.status = "active"
      BY <1>0, <2>1, <2>3 DEF Applied, Workspace
    <3> QED BY <1>7, <2>1, <3>1, <3>2 DEF Agrees
  <2>4. CASE e.type = "updated" /\ Agrees(read, n)
    <3>1. StripeView[n + 1] = [sub |-> e.sub, status |-> MappedStatus(e.status, before.status)]
      BY <2>1, <2>4 DEF After
    <3>2. ws'.sub = e.sub /\ ws'.status = MappedStatus(e.status, read)
      BY <1>0, <2>1, <2>4 DEF Applied
    <3>3. \/ MappedStatus(e.status, read) = MappedStatus(e.status, before.status)
          \/ MappedStatus(e.status, read) = read /\ MappedStatus(e.status, before.status) = before.status
      BY DEF MappedStatus
    <3>4. Agrees(ws'.status, n + 1)
      BY <2>4, <3>1, <3>2, <3>3 DEF Agrees
    <3> QED BY <1>7, <2>1, <3>1, <3>2, <3>4
  <2>5. CASE e.type = "deleted" /\ ws.sub = e.sub /\ e.sub = before.sub
    <3>1. StripeView[n + 1] = [sub |-> e.sub, status |-> "canceled"]
      BY <2>1, <2>5 DEF After
    <3>2. ws'.sub = e.sub /\ ws'.status = "canceled"
      BY <1>0, <2>1, <2>5 DEF Applied, Workspace
    <3> QED BY <1>7, <2>1, <3>1, <3>2 DEF Agrees
  <2> QED BY <2>2, <2>3, <2>4, <2>5
<1>10. ASSUME NEW h \in Handlers, QueryFails(h) \/ Rollback(h) PROVE MirrorInv'
  <2>1. /\ UNCHANGED <<ws, acked, handled, trialOver, trialCheck>>
        /\ handler[h].pc # "idle" /\ handler[h].event = n + 1
        /\ \A g \in Handlers \ {h} : handler'[g] = handler[g]
        /\ \/ handler'[h].pc = "rollback" /\ handler'[h].event = handler[h].event
           \/ handler'[h].pc = "idle"
    BY <1>0, <1>5, <1>10 DEF QueryFails, Rollback
  <2> QED BY <1>3, <2>1 DEF MirrorInv
<1>11. ASSUME NEW h \in Handlers, Die(h) PROVE FALSE
  BY <1>0, <1>11 DEF Die
<1>12. CASE Emit \/ EndTrial \/ ReadTrial
  <2>1. /\ UNCHANGED <<ws, acked, handled, handler>>
        /\ (trialOver => trialOver') /\ (trialCheck' = "expire" => trialOver')
    BY <1>12 DEF Emit, EndTrial, ReadTrial, MirrorInv
  <2> QED BY <1>3, <2>1
<1>13. CASE ExpireTrial
  <2>1. /\ UNCHANGED <<acked, handled, handler, trialOver>> /\ trialOver
        /\ trialCheck' = "idle" /\ ws'.sub = ws.sub /\ ws'.status = "expired"
    BY <1>0, <1>13 DEF ExpireTrial, MirrorInv, Workspace
  <2>2. \A status : Agrees(status, n) => Agrees(status, n)'
    BY <2>1 DEF Agrees
  <2>3. Agrees(ws.status, n)'
    BY <2>1 DEF Agrees
  <2>4. \A h \in Handlers : Agrees(handler[h].read, n) => Agrees(handler[h].read, n)'
    BY <2>1 DEF Agrees
  <2>5. Mirrored(n)'
    BY <1>1, <2>1, <2>3, <2>4 DEF Mirrored
  <2> QED BY <2>1, <2>5 DEF MirrorInv
<1>14. CASE Subscribe \/ Cancel
  BY <1>14 DEF Subscribe, Cancel
<1> QED BY <1>2, <1>4, <1>6, <1>8, <1>9, <1>10, <1>11, <1>12, <1>13, <1>14 DEF Next, Handle

\* As long as requests come one at a time and none dies, an event whose request
\* failed is delivered again and processed, not taken for a duplicate.
THEOREM ErrorsAreRetried ==
    ASSUME OneAtATime
    PROVE  Spec => []RetriedAfterError
<1>1. TypeOK /\ LockInv /\ RetryInv /\ [Next]_vars => RetryInv'
  BY NextRetry
<1>2. RetryInv => RetriedAfterError
  BY DEF RetryInv, RetriedAfterError, Lost
<1> QED BY Invariance, InitRetry, <1>1, <1>2, PTL DEF Spec

\* With Stripe's events one at a time and in order, and nobody else at the row,
\* the workspace agrees with Stripe between requests, whatever history Stripe has
\* and however many queries fail and are retried.
THEOREM EventsAlwaysMirrored ==
    ASSUME OneAtATime, InOrder, ~LocalEdits, MaxDeaths = 0
    PROVE  Spec => []EventsMirrored
<1>1. TypeOK /\ LockInv /\ RetryInv /\ [Next]_vars => RetryInv'
  BY NextRetry
<1>2. TypeOK /\ TypeOK' /\ LockInv /\ RetryInv /\ MirrorInv /\ [Next]_vars => MirrorInv'
  BY NextMirror
<1>3. MirrorInv => MirrorsStripe
  <2> SUFFICES ASSUME NEW n \in 0..NEvents, Mirrored(n) PROVE MirrorsStripe
    BY DEF MirrorInv
  <2>1. Cardinality(handled) = n
    BY FS_Interval, BillingAssumption DEF Mirrored
  <2> QED BY <2>1 DEF Mirrored, MirrorsStripe, Agrees
<1>4. RetryInv => RetriedAfterError
  BY DEF RetryInv, RetriedAfterError, Lost
<1> QED BY Invariance, InitRetry, InitMirror, <1>1, <1>2, <1>3, <1>4, PTL DEF Spec, EventsMirrored
=============================================================================
