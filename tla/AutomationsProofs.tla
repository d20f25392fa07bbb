-------------------------- MODULE AutomationsProofs --------------------------
(***************************************************************************)
(* Theorems of Automations: the types; an automation starts once for a lead; *)
(* a completed execution has skipped nothing; repeated messages are paid for *)
(* by reruns and edits; an execution that ended is silent.                   *)
(***************************************************************************)
EXTENDS Automations, FiniteSetTheorems, TLAPS

\* The inductive invariant.  JobOK and MoveOK say what a job or a move holds
\* where it stands; Once, that the execution's row comes before its first job
\* and that at most one move is between the two.
JobOK(j) ==
    /\ jobs[j].state = "unused" <=> jobs[j].of \notin Pairs
    /\ jobs[j].state \in {"waiting"} \cup Running
         => jobs[j].attempts < MaxAttempts /\ jobs[j].stalls <= MaxStalls
    /\ jobs[j].delay => jobs[j].at > 0
    /\ jobs[j].state \in {"send", "save"} => More(j)

MoveOK(m) ==
    /\ moves[m].pc \notin {"idle", "done"}
         => moves[m].lead \in Leads /\ moves[m].prev \in Stages /\ moves[m].to \in Stages
    /\ moves[m].pc = "add" => moves[m].auto \in Autos

Adds(m, p) == moves[m].pc = "add" /\ <<moves[m].auto, moves[m].lead>> = p
Starts(j, p) == jobs[j].of = p /\ jobs[j].from = 0

Once(p) ==
    /\ exec[p] = NoExec => (\A j \in JobIds : jobs[j].of # p) /\ (\A m \in Moves : ~Adds(m, p))
    /\ \A m, n \in Moves : Adds(m, p) /\ Adds(n, p) => m = n
    /\ \A m \in Moves, j \in JobIds : ~(Adds(m, p) /\ Starts(j, p))
    /\ \A i, j \in JobIds : Starts(i, p) /\ Starts(j, p) => i = j

IInv == /\ TypeOK
        /\ \A j \in JobIds : JobOK(j)
        /\ \A m \in Moves : MoveOK(m)
        /\ \A p \in Pairs : Once(p)

LEMMA NoPair == <<NoAuto, NoLead>> \notin Pairs
BY AutomationAssumption DEF Pairs

LEMMA InitIInv == Init => IInv
<1> SUFFICES ASSUME Init PROVE IInv
  OBVIOUS
<1> DEFINE job == NewJob(<<NoAuto, NoLead>>, 0, "unused")
           move == MoveAt("idle", NoLead, NoStage, NoStage)
<1>1. job \in Job
  BY AutomationAssumption DEF NewJob, Job, JobState
<1>2. move \in Move
  BY DEF MoveAt, Move, MovePC
<1>3. job.state = "unused" /\ job.of = <<NoAuto, NoLead>> /\ ~job.delay
  BY DEF NewJob
<1>4. move.pc = "idle"
  BY DEF MoveAt
<1>5. jobs = [j \in JobIds |-> job] /\ moves = [m \in Moves |-> move]
  BY DEF Init
<1> HIDE DEF job, move
<1>6. TypeOK
  <2>1. autos \in [Autos -> [active : BOOLEAN, steps : StepLists]]
    <3> DEFINE R == [active : {TRUE}, steps : StepLists]
               S == [active : BOOLEAN, steps : StepLists]
    <3>1. ASSUME NEW x \in R PROVE x \in S
      BY Zenon
    <3>2. autos \in [Autos -> R]
      BY DEF Init
    <3> HIDE DEF R, S
    <3>3. autos \in [Autos -> S]
      BY <3>1, <3>2
    <3> QED
      BY <3>3 DEF S
  <2>2. convs \in [Phones -> Leads \cup {NoConv, Unqualified}]
    BY DEF Init
  <2>3. moves \in [Moves -> Move] /\ jobs \in [JobIds -> Job]
    BY <1>1, <1>2, <1>5
  <2>4. /\ stage \in [Leads -> Stages] /\ exec \in [Pairs -> Exec \cup {NoExec}]
        /\ sent \in [Pairs -> [Steps -> Nat]] /\ tried \in [Pairs -> SUBSET Steps]
        /\ crashes \in 0..MaxCrashes /\ edits \in 0..MaxEdits
    BY AutomationAssumption DEF Init
  <2> QED
    BY <2>1, <2>2, <2>3, <2>4 DEF TypeOK
<1>7. \A j \in JobIds : JobOK(j)
  BY <1>3, <1>5, NoPair DEF JobOK, Running
<1>8. \A m \in Moves : MoveOK(m)
  BY <1>4, <1>5 DEF MoveOK
<1>9. \A p \in Pairs : Once(p)
  BY <1>3, <1>4, <1>5, NoPair DEF Once, Adds, Starts
<1> QED
  BY <1>6, <1>7, <1>8, <1>9 DEF IInv

-----------------------------------------------------------------------------
\* A worker changes its job, whose execution has a row already.

ExecKept == /\ exec' \in [Pairs -> Exec \cup {NoExec}]
            /\ \A p \in Pairs : exec'[p] = NoExec <=> exec[p] = NoExec

Advances(j, r) ==
    /\ r \in Job /\ jobs' = [jobs EXCEPT ![j] = r]
    /\ r.of = jobs[j].of /\ r.from = jobs[j].from
    /\ r.state # "unused"
    /\ r.state \in {"waiting"} \cup Running => r.attempts < MaxAttempts /\ r.stalls <= MaxStalls
    /\ r.delay => r.at > 0
    /\ r.state \in {"send", "save"} => r.at < Len(r.steps)

LEMMA JobAdvances ==
  ASSUME IInv, NEW j \in JobIds, NEW r, Advances(j, r), jobs[j].state # "unused",
         ExecKept, UNCHANGED moves
  PROVE  /\ jobs' \in [JobIds -> Job]
         /\ \A k \in JobIds : JobOK(k)'
         /\ \A m \in Moves : MoveOK(m)'
         /\ \A p \in Pairs : Once(p)'
<1>1. /\ jobs' \in [JobIds -> Job] /\ jobs'[j] = r
      /\ \A k \in JobIds : k # j => jobs'[k] = jobs[k]
      /\ \A k \in JobIds : jobs'[k].of = jobs[k].of /\ jobs'[k].from = jobs[k].from
  BY DEF IInv, TypeOK, Advances
<1>2. \A k \in JobIds : JobOK(k)'
  <2> TAKE k \in JobIds
  <2>1. CASE k = j
    BY <2>1, <1>1 DEF IInv, JobOK, Advances, More
  <2>2. CASE k # j
    BY <2>2, <1>1 DEF IInv, JobOK, More
  <2> QED
    BY <2>1, <2>2
<1>3. \A m \in Moves : MoveOK(m)'
  BY DEF IInv, MoveOK
<1>4. \A p \in Pairs : Once(p)'
  BY <1>1 DEF IInv, Once, ExecKept, Adds, Starts
<1> QED
  BY <1>1, <1>2, <1>3, <1>4


LEMMA JobFields ==
  ASSUME IInv, NEW j \in JobIds, jobs[j].state # "unused"
  PROVE  /\ jobs[j] \in Job /\ jobs[j].of \in Pairs /\ jobs[j].from \in Nat /\ jobs[j].at \in Nat
         /\ jobs[j].steps \in Seq(Steps) /\ Len(jobs[j].steps) \in Nat
         /\ jobs[j].attempts \in Nat /\ jobs[j].stalls \in Nat
         /\ exec[jobs[j].of] \in Exec
         /\ jobs[j].state \in {"waiting"} \cup Running
              => jobs[j].attempts < MaxAttempts /\ jobs[j].stalls <= MaxStalls
         /\ jobs[j].delay => jobs[j].at > 0
<1>1. jobs[j] \in Job
  BY DEF IInv, TypeOK
<1>2. jobs[j].of \in Pairs /\ JobOK(j)
  BY DEF IInv, JobOK
<1>3. exec[jobs[j].of] \in Exec
  BY <1>2 DEF IInv, TypeOK, Once
<1>4. jobs[j].steps \in StepLists \cup {<<>>}
  BY <1>1 DEF Job
<1>5. jobs[j].steps \in Seq(Steps)
  <2>1. StepLists \subseteq Seq(Steps) /\ <<>> \in Seq(Steps)
    <3>1. StepLists \subseteq Seq(Steps)
      BY Zenon, AutomationAssumption
    <3> QED
      BY <3>1
  <2> QED
    BY <1>4, <2>1
<1>6. jobs[j].attempts \in Nat /\ jobs[j].stalls \in Nat
  BY <1>1, AutomationAssumption DEF Job
<1> QED
  BY <1>1, <1>2, <1>3, <1>5, <1>6 DEF JobOK, Job

LEMMA WorkerStep ==
  ASSUME IInv, NEW j \in JobIds, NEW r, Advances(j, r), jobs[j].state # "unused", ExecKept,
         convs' \in [Phones -> Leads \cup {NoConv, Unqualified}],
         sent' \in [Pairs -> [Steps -> Nat]], tried' \in [Pairs -> SUBSET Steps],
         UNCHANGED <<autos, stage, moves, crashes, edits>>
  PROVE  IInv'
<1>1. /\ jobs' \in [JobIds -> Job]
      /\ \A k \in JobIds : JobOK(k)'
      /\ \A m \in Moves : MoveOK(m)'
      /\ \A p \in Pairs : Once(p)'
  BY JobAdvances
<1> QED
  BY <1>1 DEF IInv, TypeOK, ExecKept

LEMMA ExecUnchanged == ASSUME IInv, UNCHANGED exec PROVE ExecKept
BY DEF IInv, TypeOK, ExecKept

LEMMA ExecSet ==
  ASSUME IInv, NEW p \in Pairs, exec[p] \in Exec, NEW e \in Exec, exec' = [exec EXCEPT ![p] = e]
  PROVE  ExecKept
BY NoExecAssumption DEF IInv, TypeOK, ExecKept

-----------------------------------------------------------------------------
\* One lemma per action of the worker.

LEMMA StepTakeJob == ASSUME IInv, NEW j \in JobIds, TakeJob(j) PROVE IInv'
<1>1. TypeOK
  BY DEF IInv
<1>2. jobs[j].state = "waiting"
      /\ UNCHANGED <<autos, stage, moves, exec, convs, sent, tried, crashes, edits>>
  BY DEF TakeJob
<1>3. jobs[j] \in Job /\ jobs[j].of \in Pairs /\ jobs[j].from \in Nat
  BY <1>2, JobFields
<1>4. AutoOf(j) \in Autos
  BY <1>3 DEF Pairs, AutoOf
<1>5. autos[AutoOf(j)].steps \in StepLists
  BY <1>1, <1>4 DEF TypeOK
<1>6. CASE autos[AutoOf(j)].active
  <2> DEFINE r == [jobs[j] EXCEPT !.state = "run", !.at = jobs[j].from, !.delay = FALSE,
                                  !.steps = autos[AutoOf(j)].steps]
  <2>1. jobs' = [jobs EXCEPT ![j] = r]
    BY <1>1, <1>6 DEF TakeJob, TypeOK
  <2>2. /\ r \in Job /\ r.of = jobs[j].of /\ r.from = jobs[j].from
        /\ r.state = "run" /\ r.delay = FALSE
        /\ r.attempts = jobs[j].attempts /\ r.stalls = jobs[j].stalls
    BY <1>3, <1>5 DEF Job, JobState, Running
  <2> HIDE DEF r
  <2>3. Advances(j, r)
    BY <1>2, <2>1, <2>2, JobFields DEF Advances
  <2> QED
    BY <1>1, <1>2, <2>3, WorkerStep, ExecUnchanged DEF TypeOK
<1>7. CASE ~autos[AutoOf(j)].active
  <2> DEFINE r == [jobs[j] EXCEPT !.state = "completed", !.steps = <<>>]
  <2>1. jobs' = [jobs EXCEPT ![j] = r]
    BY <1>1, <1>7 DEF TakeJob, TypeOK
  <2>2. /\ r \in Job /\ r.of = jobs[j].of /\ r.from = jobs[j].from
        /\ r.state = "completed" /\ r.delay = jobs[j].delay /\ r.at = jobs[j].at
    BY <1>3 DEF Job, JobState, Running
  <2> HIDE DEF r
  <2>3. Advances(j, r)
    BY <1>2, <2>1, <2>2, JobFields DEF Advances, Running
  <2> QED
    BY <1>1, <1>2, <2>3, WorkerStep, ExecUnchanged DEF TypeOK
<1> QED
  BY <1>6, <1>7

\* The steps of the list and of a send.
LEMMA StepOfList ==
  ASSUME IInv, NEW j \in JobIds, jobs[j].state \in Running,
         NEW r \in Job, jobs' = [jobs EXCEPT ![j] = r],
         r.of = jobs[j].of, r.from = jobs[j].from,
         r.attempts = jobs[j].attempts, r.stalls = jobs[j].stalls,
         r.state # "unused", r.delay => r.at > 0,
         r.state \in {"send", "save"} => r.at < Len(r.steps),
         ExecKept,
         convs' \in [Phones -> Leads \cup {NoConv, Unqualified}],
         sent' \in [Pairs -> [Steps -> Nat]], tried' \in [Pairs -> SUBSET Steps],
         UNCHANGED <<autos, stage, moves, crashes, edits>>
  PROVE  IInv'
<1>1. jobs[j].state # "unused"
  BY DEF Running
<1>2. Advances(j, r)
  BY <1>1, JobFields DEF Advances
<1> QED
  BY <1>1, <1>2, WorkerStep

Others == /\ convs' \in [Phones -> Leads \cup {NoConv, Unqualified}]
          /\ sent' \in [Pairs -> [Steps -> Nat]] /\ tried' \in [Pairs -> SUBSET Steps]
          /\ UNCHANGED <<autos, stage, moves, crashes, edits>>

LEMMA StateSet ==
  ASSUME IInv, NEW j \in JobIds, jobs[j].state \in Running,
         NEW state \in JobState \ {"unused"},
         state \in {"send", "save"} => jobs[j].at < Len(jobs[j].steps),
         jobs' = [jobs EXCEPT ![j].state = state], ExecKept, Others
  PROVE  IInv'
<1> DEFINE r == [jobs[j] EXCEPT !.state = state]
<1>1. jobs[j] \in Job /\ (jobs[j].delay => jobs[j].at > 0)
  BY JobFields DEF Running
<1>2. /\ r \in Job /\ r.of = jobs[j].of /\ r.from = jobs[j].from /\ r.state = state
      /\ r.attempts = jobs[j].attempts /\ r.stalls = jobs[j].stalls /\ r.delay = jobs[j].delay
      /\ r.at = jobs[j].at /\ r.steps = jobs[j].steps
  BY <1>1 DEF Job
<1>3. jobs' = [jobs EXCEPT ![j] = r]
  BY DEF IInv, TypeOK
<1> HIDE DEF r
<1> QED
  BY <1>1, <1>2, <1>3, StepOfList DEF Others

\* The job goes on to the next step.
LEMMA AtNext ==
  ASSUME IInv, NEW j \in JobIds, jobs[j].state \in Running,
         NEW r \in Job, jobs' = [jobs EXCEPT ![j] = r],
         r.of = jobs[j].of, r.from = jobs[j].from,
         r.attempts = jobs[j].attempts, r.stalls = jobs[j].stalls,
         r.state = "run", r.at = jobs[j].at + 1,
         ExecKept, Others
  PROVE  IInv'
<1>1. r.at > 0
  BY JobFields DEF Running
<1> QED
  BY <1>1, StepOfList DEF Others

LEMMA StepRunning ==
  ASSUME IInv, NEW j \in JobIds,
         \/ AccumulateWait(j) \/ RecordPosition(j) \/ PassFilter(j) \/ StopAtFilter(j) \/ Complete(j)
         \/ SkipSend(j) \/ FindConversation(j) \/ CallProvider(j) \/ SaveMessage(j)
  PROVE  IInv'
<1>1. TypeOK /\ JobOK(j) /\ jobs \in [JobIds -> Job]
  BY DEF IInv, TypeOK
<1>2. jobs[j].state \in Running
  BY DEF AccumulateWait, RecordPosition, PassFilter, StopAtFilter, Complete, SkipSend,
         FindConversation, CallProvider, SaveMessage, At, Running
<1>3. /\ jobs[j] \in Job /\ jobs[j].of \in Pairs /\ jobs[j].at \in Nat /\ exec[jobs[j].of] \in Exec
      /\ jobs[j].steps \in Seq(Steps) /\ Len(jobs[j].steps) \in Nat
      /\ jobs[j].delay \in BOOLEAN
  BY <1>2, JobFields DEF Running, Job
<1>4. /\ convs \in [Phones -> Leads \cup {NoConv, Unqualified}]
      /\ sent \in [Pairs -> [Steps -> Nat]] /\ tried \in [Pairs -> SUBSET Steps]
      /\ exec \in [Pairs -> Exec \cup {NoExec}]
  BY <1>1 DEF TypeOK
<1>5. {"run", "send", "save", "completed"} \subseteq JobState \ {"unused"}
  BY DEF JobState, Running
<1>6. ASSUME NEW status \in ExecStatus, SetExec(jobs[j].of, status, jobs[j].at) PROVE ExecKept
  <2>1. [status |-> status, position |-> jobs[j].at] \in Exec
    BY <1>3 DEF Exec
  <2> QED
    BY <1>3, <1>6, <2>1, ExecSet DEF SetExec
<1>7. More(j) => Step(j) \in Steps
  BY <1>3 DEF More, Step
<1>8. CASE AccumulateWait(j)
  <2>1. PICK delay \in BOOLEAN :
          jobs' = [jobs EXCEPT ![j].at = @ + 1, ![j].delay = delay]
    <3>1. (jobs[j].delay \/ kind[Step(j)] = "wait") \in BOOLEAN
      OBVIOUS
    <3> QED
      BY <1>8, <3>1, <1>1 DEF AccumulateWait
  <2>2. jobs[j].state = "run" /\ UNCHANGED <<autos, stage, moves, exec, convs, sent, tried, crashes, edits>>
    BY <1>8 DEF AccumulateWait, At
  <2> DEFINE n == jobs[j].at + 1
             r == [jobs[j] EXCEPT !.at = n, !.delay = delay]
  <2>3. /\ r \in Job /\ r.of = jobs[j].of /\ r.from = jobs[j].from /\ r.attempts = jobs[j].attempts
        /\ r.stalls = jobs[j].stalls /\ r.state = "run" /\ r.at = jobs[j].at + 1
    <3>1. n \in Nat /\ jobs[j].state \in {"run", "save"}
      BY <1>3, <2>1, <2>2
    <3> HIDE DEF n
    <3>2. r \in Job /\ r.of = jobs[j].of /\ r.from = jobs[j].from /\ r.attempts = jobs[j].attempts
          /\ r.stalls = jobs[j].stalls /\ r.state = "run" /\ r.at = n
      BY <1>3, <3>1, <2>2 DEF Job, JobState, Running
    <3> QED
      BY <3>2 DEF n
  <2>4. jobs' = [jobs EXCEPT ![j] = r]
    BY <1>1, <2>1, <2>2
  <2> HIDE DEF r
  <2> QED
    BY <1>2, <1>4, <2>2, <2>3, <2>4, AtNext, ExecUnchanged DEF Others
<1>9. CASE PassFilter(j) \/ SkipSend(j)
  <2>1. /\ jobs' = [jobs EXCEPT ![j].at = @ + 1] /\ jobs[j].state = "run"
        /\ UNCHANGED <<autos, stage, moves, exec, convs, sent, tried, crashes, edits>>
    BY <1>9 DEF PassFilter, SkipSend, At
  <2> DEFINE r == [jobs[j] EXCEPT !.at = @ + 1]
  <2>2. /\ r \in Job /\ r.of = jobs[j].of /\ r.from = jobs[j].from /\ r.attempts = jobs[j].attempts
        /\ r.stalls = jobs[j].stalls /\ r.state = "run" /\ r.at = jobs[j].at + 1
    BY <1>3, <2>1 DEF Job, JobState, Running
  <2>3. jobs' = [jobs EXCEPT ![j] = r]
    BY <1>1, <2>1
  <2> HIDE DEF r
  <2> QED
    BY <1>2, <1>4, <2>1, <2>2, <2>3, AtNext, ExecUnchanged DEF Others
<1>10. CASE RecordPosition(j)
  <2>1. /\ jobs' = [jobs EXCEPT ![j].state = "completed"]
        /\ exec' = [exec EXCEPT ![jobs[j].of].position = jobs[j].at]
        /\ UNCHANGED <<autos, stage, moves, convs, sent, tried, crashes, edits>>
    BY <1>10 DEF RecordPosition
  <2> DEFINE e == [exec[jobs[j].of] EXCEPT !.position = jobs[j].at]
  <2>2. e \in Exec /\ exec' = [exec EXCEPT ![jobs[j].of] = e]
    BY <1>3, <1>4, <2>1 DEF Exec
  <2> HIDE DEF e
  <2>3. ExecKept
    BY <1>3, <2>2, ExecSet
  <2> QED
    BY <1>2, <1>4, <1>5, <2>1, <2>3, StateSet DEF Others
<1>11. CASE StopAtFilter(j) \/ Complete(j)
  <2>1. /\ jobs' = [jobs EXCEPT ![j].state = "completed"]
        /\ UNCHANGED <<autos, stage, moves, convs, sent, tried, crashes, edits>>
        /\ SetExec(jobs[j].of, "filtered", jobs[j].at) \/ SetExec(jobs[j].of, "completed", jobs[j].at)
    BY <1>11 DEF StopAtFilter, Complete
  <2>2. ExecKept
    BY <1>6, <2>1 DEF ExecStatus
  <2> QED
    BY <1>2, <1>4, <1>5, <2>1, <2>2, StateSet DEF Others
<1>12. CASE FindConversation(j)
  <2>1. /\ More(j) /\ phone[LeadOf(j)] # NoPhone
        /\ convs' = [convs EXCEPT ![phone[LeadOf(j)]] = LeadOf(j)]
        /\ jobs' = [jobs EXCEPT ![j].state = "send"]
        /\ UNCHANGED <<autos, stage, moves, exec, sent, tried, crashes, edits>>
    BY <1>12 DEF FindConversation, At
  <2>2. LeadOf(j) \in Leads
    BY <1>3 DEF LeadOf, Pairs
  <2>3. convs' \in [Phones -> Leads \cup {NoConv, Unqualified}]
    BY <1>4, <2>1, <2>2
  <2> QED
    BY <1>2, <1>4, <1>5, <2>1, <2>3, StateSet, ExecUnchanged DEF Others, More
<1>13. CASE CallProvider(j)
  <2>1. PICK accepted \in {0, 1} : sent' = [sent EXCEPT ![jobs[j].of][Step(j)] = @ + accepted]
    BY <1>13 DEF CallProvider
  <2>2. /\ jobs[j].state = "send" /\ jobs' = [jobs EXCEPT ![j].state = "save"]
        /\ UNCHANGED <<autos, stage, moves, exec, convs, tried, crashes, edits>>
    BY <1>13 DEF CallProvider
  <2>3. More(j)
    BY <1>1, <2>2 DEF JobOK
  <2>4. sent' \in [Pairs -> [Steps -> Nat]]
    BY <1>3, <1>4, <1>7, <2>1, <2>3
  <2> QED
    BY <1>2, <1>4, <1>5, <2>2, <2>3, <2>4, StateSet, ExecUnchanged DEF Others, More
<1>14. CASE SaveMessage(j)
  <2>1. /\ jobs[j].state = "save" /\ jobs' = [jobs EXCEPT ![j].state = "run", ![j].at = @ + 1]
        /\ tried' = [tried EXCEPT ![jobs[j].of] = @ \cup {Step(j)}]
        /\ UNCHANGED <<autos, stage, moves, exec, convs, sent, crashes, edits>>
    BY <1>14 DEF SaveMessage
  <2>2. tried' \in [Pairs -> SUBSET Steps]
    BY <1>1, <1>3, <1>4, <1>7, <2>1 DEF JobOK
  <2> DEFINE n == jobs[j].at + 1
             r == [jobs[j] EXCEPT !.state = "run", !.at = n]
  <2>3. /\ r \in Job /\ r.of = jobs[j].of /\ r.from = jobs[j].from /\ r.attempts = jobs[j].attempts
        /\ r.stalls = jobs[j].stalls /\ r.state = "run" /\ r.at = jobs[j].at + 1
    <3>1. n \in Nat /\ jobs[j].state \in {"run", "save"}
      BY <1>3, <2>1
    <3> HIDE DEF n
    <3>2. r \in Job /\ r.of = jobs[j].of /\ r.from = jobs[j].from /\ r.attempts = jobs[j].attempts
          /\ r.stalls = jobs[j].stalls /\ r.state = "run" /\ r.at = n
      BY <1>3, <3>1 DEF Job, JobState, Running
    <3> QED
      BY <3>2 DEF n
  <2>4. jobs' = [jobs EXCEPT ![j] = r]
    BY <1>1, <2>1
  <2> HIDE DEF r
  <2> QED
    BY <1>2, <1>4, <2>1, <2>2, <2>3, <2>4, AtNext, ExecUnchanged DEF Others
<1> QED
  BY <1>8, <1>9, <1>10, <1>11, <1>12, <1>13, <1>14

LEMMA NewJobType ==
  ASSUME NEW p \in Pairs, NEW n \in Nat, NEW r, r = NewJob(p, n, "waiting")
  PROVE  /\ r \in Job /\ r.of = p /\ r.from = n /\ r.state = "waiting" /\ r.at = n
         /\ ~r.delay /\ r.attempts = 0 /\ r.stalls = 0
BY AutomationAssumption DEF NewJob, Job, JobState

LEMMA StepAddContinuation == ASSUME IInv, NEW j \in JobIds, AddContinuation(j) PROVE IInv'
<1>1. TypeOK
  BY DEF IInv
<1>2. PICK k \in JobIds :
        /\ IsNext(k)
        /\ jobs' = [jobs EXCEPT ![k] = NewJob(jobs[j].of, jobs[j].at, "waiting"), ![j].state = "relay"]
  BY DEF AddContinuation
<1>3. /\ jobs[j].state = "run" /\ jobs[j].delay /\ jobs[k].state = "unused" /\ k # j
      /\ UNCHANGED <<autos, stage, moves, exec, convs, sent, tried, crashes, edits>>
  BY <1>2 DEF AddContinuation, At, IsNext
<1>4. /\ jobs[j] \in Job /\ jobs[j].of \in Pairs /\ jobs[j].at \in Nat /\ jobs[j].at > 0
      /\ exec[jobs[j].of] \in Exec
      /\ jobs[j].attempts < MaxAttempts /\ jobs[j].stalls <= MaxStalls
  BY <1>3, JobFields DEF Running
<1> DEFINE new == NewJob(jobs[j].of, jobs[j].at, "waiting")
           r == [jobs[j] EXCEPT !.state = "relay"]
<1>5. /\ r \in Job /\ r.of = jobs[j].of /\ r.from = jobs[j].from /\ r.state = "relay"
      /\ r.attempts = jobs[j].attempts /\ r.stalls = jobs[j].stalls
      /\ r.delay = jobs[j].delay /\ r.at = jobs[j].at
  BY <1>4 DEF Job, JobState, Running
<1>6. /\ new \in Job /\ new.of = jobs[j].of /\ new.from = jobs[j].at /\ new.state = "waiting"
      /\ ~new.delay /\ new.attempts = 0 /\ new.stalls = 0
  BY <1>4, NewJobType
<1>7. jobs' = [[jobs EXCEPT ![k] = new] EXCEPT ![j] = r]
  BY <1>1, <1>2, <1>3 DEF TypeOK
<1> HIDE DEF new, r
<1>8. /\ jobs' \in [JobIds -> Job] /\ jobs'[k] = new /\ jobs'[j] = r
      /\ \A i \in JobIds : i # k /\ i # j => jobs'[i] = jobs[i]
  BY <1>1, <1>3, <1>5, <1>6, <1>7 DEF TypeOK
<1>9. TypeOK'
  BY <1>1, <1>3, <1>8 DEF TypeOK
<1>10. \A i \in JobIds : JobOK(i)'
  <2> TAKE i \in JobIds
  <2>1. CASE i = k
    BY <2>1, <1>4, <1>6, <1>8, AutomationAssumption DEF JobOK
  <2>2. CASE i = j
    BY <2>2, <1>3, <1>4, <1>5, <1>8 DEF JobOK
  <2>3. CASE i # k /\ i # j
    BY <2>3, <1>8 DEF IInv, JobOK, More
  <2> QED
    BY <2>1, <2>2, <2>3
<1>11. \A m \in Moves : MoveOK(m)'
  BY <1>3 DEF IInv, MoveOK
<1>12. \A p \in Pairs : Once(p)'
  <2> TAKE p \in Pairs
  <2>1. Once(p) /\ exec' = exec /\ moves' = moves
    BY <1>3 DEF IInv
  <2>2. \A i \in JobIds : Starts(i, p)' => Starts(i, p)
    BY <1>4, <1>5, <1>6, <1>8 DEF Starts
  <2>3. exec[p] = NoExec => \A i \in JobIds : jobs'[i].of # p
    BY <2>1, <1>4, <1>5, <1>6, <1>8, NoExecAssumption DEF Once
  <2> QED
    BY <2>1, <2>2, <2>3 DEF Once, Adds
<1> QED
  BY <1>9, <1>10, <1>11, <1>12 DEF IInv

LEMMA StepFailJob == ASSUME IInv, NEW j \in JobIds, FailJob(j) PROVE IInv'
<1>1. TypeOK
  BY DEF IInv
<1>2. /\ jobs' = [jobs EXCEPT ![j] = Retry(jobs[j])] /\ jobs[j].state \in Running
      /\ UNCHANGED <<autos, stage, moves, exec, convs, sent, tried, crashes, edits>>
  BY DEF FailJob, Throws, At, Running
<1> DEFINE job == jobs[j]
<1>3. /\ job \in Job /\ job.state # "unused" /\ job.attempts \in Nat
      /\ job.attempts < MaxAttempts /\ job.stalls <= MaxStalls /\ (job.delay => job.at > 0)
  BY <1>2, JobFields DEF Running
<1>4. job.attempts + 1 \in 0..MaxAttempts
  BY <1>3, AutomationAssumption
<1>5. jobs' = [jobs EXCEPT ![j] = Retry(job)]
  BY <1>2
<1> HIDE DEF job
<1> DEFINE r == Retry(job)
<1>6. PICK state \in {"waiting", "failed"} :
        /\ r = [job EXCEPT !.state = state, !.attempts = @ + 1]
        /\ state = "waiting" => job.attempts + 1 < MaxAttempts
  BY DEF Retry
<1> HIDE DEF r
<1>7. /\ r \in Job /\ r.of = job.of /\ r.from = job.from /\ r.state = state
      /\ r.attempts = job.attempts + 1 /\ r.stalls = job.stalls /\ r.delay = job.delay /\ r.at = job.at
  BY <1>3, <1>4, <1>6 DEF Job, JobState
<1>8. Advances(j, r)
  BY <1>3, <1>5, <1>6, <1>7 DEF Advances, job, r, Running
<1> QED
  BY <1>1, <1>2, <1>3, <1>8, WorkerStep, ExecUnchanged DEF TypeOK, job

LEMMA StepCrash == ASSUME IInv, Crash PROVE IInv'
<1>1. TypeOK /\ crashes' \in 0..MaxCrashes
  BY AutomationAssumption DEF IInv, TypeOK, Crash
<1>2. /\ jobs' = [j \in JobIds |-> IF jobs[j].state \in Running THEN Stall(jobs[j]) ELSE jobs[j]]
      /\ moves' = [m \in Moves |-> IF moves[m].pc = "idle" THEN moves[m] ELSE Ended]
      /\ UNCHANGED <<autos, stage, exec, convs, sent, tried, edits>>
  BY DEF Crash
<1>3. Ended \in Move /\ Ended.pc = "done"
  BY DEF Ended, MoveAt, Move, MovePC
<1>4. /\ moves' \in [Moves -> Move] /\ \A m \in Moves : moves'[m].pc \in {"idle", "done"}
  BY <1>1, <1>2, <1>3 DEF TypeOK
<1>5. ASSUME NEW j \in JobIds
      PROVE  /\ jobs'[j] \in Job /\ JobOK(j)' /\ jobs'[j].of = jobs[j].of
             /\ jobs'[j].from = jobs[j].from
  <2>1. jobs[j] \in Job /\ JobOK(j)
    BY <1>1 DEF IInv, TypeOK
  <2>2. CASE jobs[j].state \notin Running
    BY <1>2, <2>1, <2>2 DEF JobOK, Running, More
  <2>3. CASE jobs[j].state \in Running
    <3> DEFINE job == jobs[j]
               r == Stall(job)
    <3>1. /\ job \in Job /\ job.state # "unused" /\ job.stalls \in Nat /\ job.of \in Pairs
          /\ job.attempts < MaxAttempts /\ job.stalls <= MaxStalls /\ (job.delay => job.at > 0)
      BY <2>3, JobFields DEF Running
    <3>2. job.stalls + 1 \in 0..(MaxStalls + 1)
      BY <3>1, AutomationAssumption
    <3>3. jobs'[j] = r
      BY <1>2, <2>3
    <3> HIDE DEF job
    <3>4. PICK state \in {"waiting", "failed"} :
            /\ r = [job EXCEPT !.state = state, !.stalls = @ + 1]
            /\ state = "waiting" => job.stalls < MaxStalls
      BY DEF Stall
    <3> HIDE DEF r
    <3>5. /\ r \in Job /\ r.of = job.of /\ r.from = job.from /\ r.state = state
          /\ r.attempts = job.attempts /\ r.stalls = job.stalls + 1 /\ r.delay = job.delay
          /\ r.at = job.at
      BY <3>1, <3>2, <3>4 DEF Job, JobState
    <3>6. JobOK(j)'
      BY <3>1, <3>3, <3>4, <3>5, AutomationAssumption DEF JobOK, Running
    <3> QED
      BY <3>3, <3>5, <3>6 DEF job
  <2> QED
    BY <2>2, <2>3
<1>6. jobs' \in [JobIds -> Job]
  BY <1>2, <1>5
<1>7. TypeOK'
  BY <1>1, <1>2, <1>4, <1>6 DEF TypeOK
<1>8. \A m \in Moves : MoveOK(m)'
  BY <1>4 DEF MoveOK
<1>9. \A p \in Pairs : Once(p)'
  BY <1>2, <1>4, <1>5 DEF IInv, Once, Adds, Starts
<1> QED
  BY <1>5, <1>7, <1>8, <1>9 DEF IInv

-----------------------------------------------------------------------------
\* One lemma per action of a move; MoveOn is what those have in common that do
\* not add a job.

LEMMA MoveOn ==
  ASSUME IInv, NEW m \in Moves, NEW r \in Move, moves' = [moves EXCEPT ![m] = r],
         r.pc # "add",
         r.pc # "done" => r.lead \in Leads /\ r.prev \in Stages /\ r.to \in Stages,
         stage' \in [Leads -> Stages],
         UNCHANGED <<autos, exec, jobs, convs, sent, tried, crashes, edits>>
  PROVE  IInv'
<1>1. /\ moves' \in [Moves -> Move] /\ moves'[m] = r
      /\ \A n \in Moves : n # m => moves'[n] = moves[n]
  BY DEF IInv, TypeOK
<1>2. TypeOK'
  BY <1>1 DEF IInv, TypeOK
<1>3. \A j \in JobIds : JobOK(j)'
  BY DEF IInv, JobOK, More
<1>4. \A n \in Moves : MoveOK(n)'
  BY <1>1 DEF IInv, MoveOK
<1>5. \A p \in Pairs : Once(p)'
  BY <1>1 DEF IInv, Once, Adds, Starts
<1> QED
  BY <1>2, <1>3, <1>4, <1>5 DEF IInv

LEMMA MoveFields ==
  ASSUME IInv, NEW m \in Moves, moves[m].pc \notin {"idle", "done"}
  PROVE  /\ moves[m] \in Move /\ moves[m].lead \in Leads
         /\ moves[m].prev \in Stages /\ moves[m].to \in Stages
BY DEF IInv, TypeOK, MoveOK

LEMMA StepStartMove ==
  ASSUME IInv, NEW m \in Moves, NEW l \in Leads, NEW s \in Stages, StartMove(m, l, s) PROVE IInv'
<1> DEFINE r == MoveAt("read", l, stage[l], s)
<1>1. TypeOK /\ stage[l] \in Stages
  BY DEF IInv, TypeOK
<1>2. /\ r \in Move /\ r.pc = "read" /\ r.lead = l /\ r.prev = stage[l] /\ r.to = s
  BY <1>1 DEF MoveAt, Move, MovePC
<1>3. moves' = [moves EXCEPT ![m] = r]
      /\ UNCHANGED <<autos, stage, exec, jobs, convs, sent, tried, crashes, edits>>
  BY DEF StartMove
<1> HIDE DEF r
<1> QED
  BY <1>1, <1>2, <1>3, MoveOn DEF TypeOK

LEMMA StepWriteMove == ASSUME IInv, NEW m \in Moves, WriteMove(m) PROVE IInv'
<1> DEFINE r == [moves[m] EXCEPT !.pc = "written"]
<1>1. /\ moves[m].pc = "read" /\ stage' = [stage EXCEPT ![moves[m].lead] = moves[m].to]
      /\ moves' = [moves EXCEPT ![m].pc = "written"]
      /\ UNCHANGED <<autos, exec, jobs, convs, sent, tried, crashes, edits>>
  BY DEF WriteMove
<1>2. /\ moves[m] \in Move /\ moves[m].lead \in Leads
      /\ moves[m].prev \in Stages /\ moves[m].to \in Stages
  BY <1>1, MoveFields
<1>3. /\ r \in Move /\ r.pc = "written" /\ r.lead = moves[m].lead /\ r.prev = moves[m].prev
      /\ r.to = moves[m].to
  BY <1>2 DEF Move, MovePC
<1>4. moves' = [moves EXCEPT ![m] = r] /\ stage' \in [Leads -> Stages]
  BY <1>1, <1>2 DEF IInv, TypeOK
<1> HIDE DEF r
<1> QED
  BY <1>1, <1>2, <1>3, <1>4, MoveOn

LEMMA StepTriggers ==
  ASSUME IInv, NEW m \in Moves,
         FindStageTriggers(m) \/ FindPipelineTriggers(m) \/ EndTriggers(m)
  PROVE  IInv'
<1>1. /\ moves[m].pc \in {"written", "stage", "pipeline"}
      /\ UNCHANGED <<autos, stage, exec, jobs, convs, sent, tried, crashes, edits>>
  BY DEF FindStageTriggers, FindPipelineTriggers, EndTriggers
<1>2. /\ moves[m] \in Move /\ moves[m].lead \in Leads
      /\ moves[m].prev \in Stages /\ moves[m].to \in Stages
  BY <1>1, MoveFields
<1>3. stage' \in [Leads -> Stages] /\ moves \in [Moves -> Move]
  BY <1>1 DEF IInv, TypeOK
<1>4. \A t, at : Active(t, at) \subseteq Autos
  BY DEF Active
<1>5. Ended \in Move /\ Ended.pc = "done"
  BY DEF Ended, MoveAt, Move, MovePC
<1>6. CASE moves' = [moves EXCEPT ![m] = Ended]
  BY <1>1, <1>3, <1>5, <1>6, MoveOn
<1>7. CASE FindStageTriggers(m)
  <2> DEFINE todo == Active("stage", moves[m].to)
             r == [moves[m] EXCEPT !.pc = "stage", !.todo = todo]
  <2>1. moves' = [moves EXCEPT ![m] = r]
    BY <1>3, <1>7 DEF FindStageTriggers
  <2>2. todo \in SUBSET Autos
    BY <1>4
  <2> HIDE DEF todo
  <2>3. r \in Move /\ r.pc = "stage" /\ r.lead = moves[m].lead /\ r.prev = moves[m].prev
        /\ r.to = moves[m].to
    BY <1>2, <2>2 DEF Move, MovePC
  <2> HIDE DEF r
  <2> QED
    BY <1>1, <1>2, <1>3, <2>1, <2>3, MoveOn
<1>8. CASE FindPipelineTriggers(m)
  <2> DEFINE todo == Active("pipeline", pipelineOf[moves[m].to])
             r == [moves[m] EXCEPT !.pc = "pipeline", !.phase = "pipeline", !.todo = todo]
  <2>1. moves' = [moves EXCEPT ![m] = r] \/ moves' = [moves EXCEPT ![m] = Ended]
    BY <1>3, <1>8 DEF FindPipelineTriggers
  <2>2. todo \in SUBSET Autos
    BY <1>4
  <2> HIDE DEF todo
  <2>3. r \in Move /\ r.pc = "pipeline" /\ r.lead = moves[m].lead /\ r.prev = moves[m].prev
        /\ r.to = moves[m].to
    BY <1>2, <2>2 DEF Move, MovePC
  <2> HIDE DEF r
  <2> QED
    BY <1>1, <1>2, <1>3, <1>6, <2>1, <2>3, MoveOn
<1>9. CASE EndTriggers(m)
  BY <1>6, <1>9 DEF EndTriggers
<1> QED
  BY <1>7, <1>8, <1>9

LEMMA StepInsertExecution ==
  ASSUME IInv, NEW m \in Moves, NEW a \in Autos, InsertExecution(m, a) PROVE IInv'
<1>1. /\ moves[m].pc \in {"stage", "pipeline"}
      /\ UNCHANGED <<autos, stage, jobs, convs, sent, tried, crashes, edits>>
  BY DEF InsertExecution
<1>2. /\ moves[m] \in Move /\ moves[m].lead \in Leads
      /\ moves[m].prev \in Stages /\ moves[m].to \in Stages
  BY <1>1, MoveFields
<1>3. TypeOK /\ moves[m].todo \ {a} \in SUBSET Autos
  BY <1>2 DEF IInv, Move
<1> DEFINE p == <<a, moves[m].lead>>
<1>4. CASE /\ exec[p] = NoExec
           /\ exec' = [exec EXCEPT ![p] = [status |-> "pending", position |-> 0]]
           /\ moves' = [moves EXCEPT ![m].pc = "add", ![m].todo = @ \ {a}, ![m].auto = a]
  <2> DEFINE todo == moves[m].todo \ {a}
             r == [moves[m] EXCEPT !.pc = "add", !.todo = todo, !.auto = a]
             e == [status |-> "pending", position |-> 0]
  <2>1. moves' = [moves EXCEPT ![m] = r]
    BY <1>3, <1>4 DEF TypeOK
  <2>2. e \in Exec /\ e # NoExec
    BY NoExecAssumption DEF Exec, ExecStatus
  <2> HIDE DEF todo
  <2>3. r \in Move /\ r.pc = "add" /\ r.lead = moves[m].lead /\ r.prev = moves[m].prev
        /\ r.to = moves[m].to /\ r.auto = a
    BY <1>2, <1>3 DEF Move, MovePC, todo
  <2> HIDE DEF r, e
  <2>4. PICK q \in Pairs : q = p
    BY <1>2 DEF Pairs
  <2>5. /\ moves' \in [Moves -> Move] /\ moves'[m] = r
        /\ \A n \in Moves : n # m => moves'[n] = moves[n]
    BY <1>3, <2>1, <2>3 DEF TypeOK
  <2>6. exec' \in [Pairs -> Exec \cup {NoExec}] /\ exec'[q] = e
        /\ \A o \in Pairs : o # q => exec'[o] = exec[o]
    BY <1>3, <1>4, <2>2, <2>4 DEF TypeOK, e
  <2>7. TypeOK'
    BY <1>1, <1>3, <2>5, <2>6 DEF TypeOK
  <2>8. \A j \in JobIds : JobOK(j)'
    BY <1>1 DEF IInv, JobOK, More
  <2>9. \A n \in Moves : MoveOK(n)'
    BY <1>2, <2>3, <2>5 DEF IInv, MoveOK
  <2>10. \A n \in Moves, o \in Pairs : Adds(n, o)' => (n = m /\ o = q) \/ Adds(n, o)
    BY <2>3, <2>4, <2>5 DEF Adds
  <2>11. ASSUME NEW o \in Pairs PROVE Once(o)'
    <3>1. Once(o) /\ Once(q) /\ exec[q] = NoExec
      BY <1>4, <2>4 DEF IInv
    <3>2. CASE o = q
      BY <3>1, <3>2, <1>1, <2>2, <2>6, <2>10 DEF Once, Starts
    <3>3. CASE o # q
      BY <3>1, <3>3, <1>1, <2>6, <2>10 DEF Once, Starts
    <3> QED
      BY <3>2, <3>3
  <2> QED
    BY <2>7, <2>8, <2>9, <2>11 DEF IInv
<1>5. CASE UNCHANGED exec /\ moves' = [moves EXCEPT ![m].todo = @ \ {a}]
  <2> DEFINE todo == moves[m].todo \ {a}
             r == [moves[m] EXCEPT !.todo = todo]
  <2>1. moves' = [moves EXCEPT ![m] = r]
    BY <1>3, <1>5 DEF TypeOK
  <2> HIDE DEF todo
  <2>2. r \in Move /\ r.pc = moves[m].pc /\ r.lead = moves[m].lead /\ r.prev = moves[m].prev
        /\ r.to = moves[m].to
    BY <1>2, <1>3 DEF Move, MovePC, todo
  <2> HIDE DEF r
  <2> QED
    BY <1>1, <1>2, <1>3, <1>5, <2>1, <2>2, MoveOn DEF TypeOK
<1> QED
  BY <1>4, <1>5 DEF InsertExecution

LEMMA StepAddFirstJob == ASSUME IInv, NEW m \in Moves, AddFirstJob(m) PROVE IInv'
<1>1. TypeOK
  BY DEF IInv
<1>2. /\ moves[m].pc = "add" /\ moves' = [moves EXCEPT ![m].pc = moves[m].phase]
      /\ UNCHANGED <<autos, stage, exec, convs, sent, tried, crashes, edits>>
  BY DEF AddFirstJob
<1>3. PICK k \in JobIds :
        /\ IsNext(k)
        /\ jobs' = [jobs EXCEPT ![k] = NewJob(<<moves[m].auto, moves[m].lead>>, 0, "waiting")]
  BY DEF AddFirstJob
<1>4. /\ moves[m] \in Move /\ moves[m].lead \in Leads /\ moves[m].auto \in Autos
      /\ moves[m].prev \in Stages /\ moves[m].to \in Stages
  BY <1>2, MoveFields DEF IInv, MoveOK
<1>5. PICK p \in Pairs : p = <<moves[m].auto, moves[m].lead>>
  BY <1>4 DEF Pairs
<1>6. /\ Adds(m, p) /\ Once(p) /\ exec[p] # NoExec
      /\ \A n \in Moves : n # m => ~Adds(n, p)
      /\ \A j \in JobIds : ~Starts(j, p)
  BY <1>2, <1>5 DEF IInv, Once, Adds
<1> DEFINE new == NewJob(p, 0, "waiting")
           r == [moves[m] EXCEPT !.pc = moves[m].phase]
<1>7. /\ new \in Job /\ new.of = p /\ new.from = 0 /\ new.state = "waiting"
      /\ ~new.delay /\ new.attempts = 0 /\ new.stalls = 0
  BY NewJobType
<1>8. /\ r \in Move /\ r.pc \in {"stage", "pipeline"} /\ r.lead = moves[m].lead
      /\ r.prev = moves[m].prev /\ r.to = moves[m].to
  BY <1>4 DEF Move, MovePC
<1>9. jobs' = [jobs EXCEPT ![k] = new] /\ moves' = [moves EXCEPT ![m] = r]
  BY <1>1, <1>2, <1>3, <1>5 DEF TypeOK
<1> HIDE DEF new, r
<1>10. /\ jobs' \in [JobIds -> Job] /\ jobs'[k] = new /\ \A j \in JobIds : j # k => jobs'[j] = jobs[j]
       /\ moves' \in [Moves -> Move] /\ moves'[m] = r
       /\ \A n \in Moves : n # m => moves'[n] = moves[n]
  BY <1>1, <1>7, <1>8, <1>9 DEF TypeOK
<1>11. TypeOK'
  BY <1>1, <1>2, <1>10 DEF TypeOK
<1>12. \A j \in JobIds : JobOK(j)'
  <2> TAKE j \in JobIds
  <2>1. CASE j = k
    BY <2>1, <1>7, <1>10, AutomationAssumption DEF JobOK
  <2>2. CASE j # k
    BY <2>2, <1>10 DEF IInv, JobOK, More
  <2> QED
    BY <2>1, <2>2
<1>13. \A n \in Moves : MoveOK(n)'
  BY <1>4, <1>8, <1>10 DEF IInv, MoveOK
<1>14. ASSUME NEW o \in Pairs PROVE Once(o)'
  <2>1. \A n \in Moves : Adds(n, o)' => Adds(n, o) /\ n # m
    BY <1>8, <1>10 DEF Adds
  <2>2. \A j \in JobIds : Starts(j, o)' => (j = k /\ o = p) \/ Starts(j, o)
    BY <1>7, <1>10 DEF Starts
  <2>3. exec'[o] = NoExec => o # p /\ exec[o] = NoExec
    BY <1>2, <1>6
  <2>4. Once(o)
    BY DEF IInv
  <2>5. CASE o = p
    BY <2>1, <2>2, <2>3, <2>5, <1>6 DEF Once
  <2>6. CASE o # p
    <3>1. exec[o] = NoExec => \A j \in JobIds : jobs'[j].of # o
      BY <2>4, <2>6, <1>7, <1>10 DEF Once
    <3> QED
      BY <2>1, <2>2, <2>3, <2>4, <2>6, <3>1 DEF Once
  <2> QED
    BY <2>5, <2>6
<1> QED
  BY <1>11, <1>12, <1>13, <1>14 DEF IInv

-----------------------------------------------------------------------------
LEMMA StepOthers ==
  ASSUME IInv, (\E a \in Autos : EditAutomation(a)) \/ (\E ph \in Phones : ReceiveInbound(ph))
               \/ UNCHANGED vars
  PROVE  IInv'
<1>1. UNCHANGED <<stage, moves, exec, jobs, sent, tried, crashes>>
  BY DEF EditAutomation, ReceiveInbound, vars
<1>2. TypeOK
  BY DEF IInv
<1>3. /\ autos' \in [Autos -> [active : BOOLEAN, steps : StepLists]] /\ edits' \in 0..MaxEdits
      /\ convs' \in [Phones -> Leads \cup {NoConv, Unqualified}]
  <2>1. CASE \E a \in Autos : EditAutomation(a)
    <3>1. PICK a \in Autos, active \in BOOLEAN, list \in StepLists :
            autos' = [autos EXCEPT ![a] = [active |-> active, steps |-> list]]
      BY <2>1 DEF EditAutomation
    <3>2. [active |-> active, steps |-> list] \in [active : BOOLEAN, steps : StepLists]
      OBVIOUS
    <3>3. edits < MaxEdits /\ edits' = edits + 1 /\ convs' = convs
      BY <2>1 DEF EditAutomation
    <3> DEFINE R == [active : BOOLEAN, steps : StepLists]
    <3>4. autos \in [Autos -> R]
      BY <1>2 DEF TypeOK
    <3> HIDE DEF R
    <3>5. autos' \in [Autos -> R]
      BY <3>1, <3>2, <3>4 DEF R
    <3> QED
      BY <1>2, <3>3, <3>5, AutomationAssumption DEF TypeOK, R
  <2>2. CASE \E ph \in Phones : ReceiveInbound(ph)
    BY <1>2, <2>2 DEF ReceiveInbound, TypeOK
  <2>3. CASE UNCHANGED vars
    BY <1>2, <2>3 DEF vars, TypeOK
  <2> QED
    BY <2>1, <2>2, <2>3
<1>4. TypeOK'
  BY <1>1, <1>2, <1>3 DEF TypeOK
<1>5. \A j \in JobIds : JobOK(j)'
  BY <1>1 DEF IInv, JobOK, More
<1>6. \A m \in Moves : MoveOK(m)'
  BY <1>1 DEF IInv, MoveOK
<1>7. \A p \in Pairs : Once(p)'
  BY <1>1 DEF IInv, Once, Adds, Starts
<1> QED
  BY <1>4, <1>5, <1>6, <1>7 DEF IInv

LEMMA NextIInv == IInv /\ [Next]_vars => IInv'
<1> SUFFICES ASSUME IInv, [Next]_vars PROVE IInv'
  OBVIOUS
<1>1. CASE \E m \in Moves, l \in Leads, s \in Stages : StartMove(m, l, s)
  BY <1>1, StepStartMove
<1>2. ASSUME NEW m \in Moves, Moving(m) PROVE IInv'
  BY <1>2, StepWriteMove, StepTriggers, StepInsertExecution, StepAddFirstJob DEF Moving
<1>3. ASSUME NEW j \in JobIds, Work(j) PROVE IInv'
  BY <1>3, StepTakeJob, StepRunning, StepAddContinuation, StepFailJob DEF Work
<1>4. CASE Crash
  BY <1>4, StepCrash
<1>5. CASE \/ \E a \in Autos : EditAutomation(a)
           \/ \E ph \in Phones : ReceiveInbound(ph)
           \/ UNCHANGED vars
  BY <1>5, StepOthers
<1> QED
  BY <1>1, <1>2, <1>3, <1>4, <1>5 DEF Next

LEMMA Invariance == Spec => []IInv
BY InitIInv, NextIInv, PTL DEF Spec

\* Every variable keeps its type; attempts and stalls keep the bounds of the
\* queue's defaultJobOptions.
THEOREM TypeSafe == Spec => []TypeOK
BY Invariance, PTL DEF IInv

\* For every number of concurrent moves, leads and automations: the unique index
\* of automation_executions lets AutomationTriggerListener.enqueue add one first
\* job for an automation and a lead.
THEOREM StartsOnce == Spec => []StartedOnce
<1>1. IInv => StartedOnce
  <2> SUFFICES ASSUME IInv, NEW p \in Pairs
               PROVE  Cardinality({j \in JobsOf(p) : jobs[j].from = 0}) <= 1
    BY DEF StartedOnce
  <2> DEFINE S == {j \in JobsOf(p) : jobs[j].from = 0}
  <2>1. \A i, j \in S : i = j
    BY DEF IInv, Once, Starts, JobsOf
  <2> HIDE DEF S
  <2>2. CASE S = {}
    BY <2>2, FS_EmptySet DEF S
  <2>3. CASE S # {}
    <3>1. PICK j : S = {j}
      BY <2>1, <2>3
    <3>2. Cardinality(S) = 1
      BY <3>1, FS_Singleton
    <3> QED
      BY <3>2 DEF S
  <2> QED
    BY <2>2, <2>3
<1> QED
  BY <1>1, Invariance, PTL

-----------------------------------------------------------------------------
\* Completed executions.  Every send step up to the position of a job, and to
\* the position it starts from, was answered and stored, and a running job holds
\* the steps of its automation: as long as the automation is not edited.

List(p) == autos[p[1]].steps

Ran(p, n) == \A i \in DOMAIN List(p) : i <= n /\ kind[List(p)[i]] = "send" => List(p)[i] \in tried[p]

Track(j) ==
    jobs[j].state # "unused" =>
        /\ jobs[j].state \in Running => jobs[j].steps = List(jobs[j].of)
        /\ phone[jobs[j].of[2]] # NoPhone => Ran(jobs[j].of, jobs[j].from) /\ Ran(jobs[j].of, jobs[j].at)

RanAll(p) ==
    exec[p] # NoExec /\ exec[p].status = "completed" /\ phone[p[2]] # NoPhone
        => \A i \in DOMAIN List(p) : kind[List(p)[i]] = "send" => List(p)[i] \in tried[p]

RanInv == edits = 0 => (\A j \in JobIds : Track(j)) /\ (\A p \in Pairs : RanAll(p))

Grows == UNCHANGED <<autos, edits>> /\ edits = 0 /\ \A p \in Pairs : tried[p] \subseteq tried'[p]

LEMMA RanGrows == ASSUME Grows, NEW p \in Pairs, NEW n, Ran(p, n) PROVE Ran(p, n)'
BY DEF Grows, Ran, List

LEMMA TrackKept ==
  ASSUME IInv, Grows, NEW j \in JobIds, Track(j), jobs'[j] = jobs[j]
  PROVE  Track(j)'
<1>1. jobs[j].state # "unused" => jobs[j].of \in Pairs
  BY JobFields
<1> QED
  BY <1>1, RanGrows DEF Track, Grows, List

LEMMA RanAllKept ==
  ASSUME Grows, NEW p \in Pairs, RanAll(p), exec'[p] = exec[p]
  PROVE  RanAll(p)'
BY DEF RanAll, Grows, List

\* One job changes, and at most the row of its execution.
LEMMA RanStep ==
  ASSUME IInv, RanInv, Grows, NEW j \in JobIds, jobs[j].state # "unused",
         \A k \in JobIds : k # j => jobs'[k] = jobs[k],
         NEW p \in Pairs, p = jobs[j].of, NEW n, n = jobs'[j].at,
         jobs'[j].of = p, jobs'[j].from = jobs[j].from,
         jobs'[j].state \in Running => jobs'[j].steps = List(p),
         phone[p[2]] # NoPhone => Ran(p, n)',
         RanAll(p)', \A q \in Pairs : q # p => exec'[q] = exec[q]
  PROVE  RanInv'
<1>1. /\ \A k \in JobIds : Track(k)
      /\ \A q \in Pairs : RanAll(q)
  BY DEF RanInv, Grows
<1>2. Track(j)'
  <2>1. List(p)' = List(p)
    BY DEF Grows, List
  <2>2. PICK f : f = jobs[j].from
    OBVIOUS
  <2>3. phone[p[2]] # NoPhone => Ran(p, f)
    BY <1>1, <2>2 DEF Track
  <2>4. phone[p[2]] # NoPhone => Ran(p, f)'
    BY <2>3, RanGrows
  <2>5. (jobs[j].state \in Running => jobs[j].steps = List(jobs[j].of))'
    BY <2>1
  <2>6. (phone[jobs[j].of[2]] # NoPhone
           => Ran(jobs[j].of, jobs[j].from) /\ Ran(jobs[j].of, jobs[j].at))'
    BY <2>2, <2>4
  <2> QED
    BY <2>5, <2>6 DEF Track
<1>3. \A k \in JobIds : Track(k)'
  BY <1>1, <1>2, TrackKept
<1>4. \A q \in Pairs : RanAll(q)'
  BY <1>1, RanAllKept
<1> QED
  BY <1>3, <1>4 DEF RanInv

\* What RanInv says of a job that runs.
LEMMA RunningFields ==
  ASSUME IInv, RanInv, edits = 0, NEW j \in JobIds, jobs[j].state # "unused"
  PROVE  \E p \in Pairs :
           /\ p = jobs[j].of /\ exec[p] \in Exec /\ RanAll(p)
           /\ List(p) \in Seq(Steps) /\ Len(List(p)) \in Nat
           /\ jobs[j].state \in Running => jobs[j].steps = List(p)
           /\ jobs[j].at \in Nat
           /\ phone[p[2]] # NoPhone => Ran(p, jobs[j].from) /\ Ran(p, jobs[j].at)
<1>1. PICK p \in Pairs : p = jobs[j].of
  BY JobFields
<1>2. autos[p[1]].steps \in StepLists
  BY DEF IInv, TypeOK, Pairs
<1>3. StepLists \subseteq Seq(Steps)
  BY Zenon, AutomationAssumption
<1>4. List(p) \in Seq(Steps) /\ Len(List(p)) \in Nat
  BY <1>2, <1>3 DEF List
<1>5. Track(j) /\ RanAll(p)
  BY DEF RanInv
<1> QED
  BY <1>1, <1>4, <1>5, JobFields DEF Track

LEMMA RanTake == ASSUME IInv, RanInv, edits = 0, NEW j \in JobIds, TakeJob(j) PROVE RanInv'
<1>1. /\ jobs[j].state = "waiting"
      /\ UNCHANGED <<autos, stage, moves, exec, convs, sent, tried, crashes, edits>>
  BY DEF TakeJob
<1>2. PICK p \in Pairs :
           /\ p = jobs[j].of /\ RanAll(p)
           /\ phone[p[2]] # NoPhone => Ran(p, jobs[j].from) /\ Ran(p, jobs[j].at)
  BY <1>1, RunningFields
<1>3. jobs \in [JobIds -> Job] /\ jobs[j] \in Job
  BY DEF IInv, TypeOK
<1>4. /\ \A k \in JobIds : k # j => jobs'[k] = jobs[k]
      /\ jobs'[j].of = jobs[j].of /\ jobs'[j].from = jobs[j].from
      /\ jobs'[j].at \in {jobs[j].from, jobs[j].at}
      /\ jobs'[j].state \in Running => jobs'[j].steps = List(p)
  BY <1>2, <1>3 DEF TakeJob, List, Job, AutoOf, Running
<1>5. Grows
  BY <1>1 DEF Grows
<1>6. PICK n : n = jobs'[j].at
  OBVIOUS
<1>7. phone[p[2]] # NoPhone => Ran(p, n)'
  BY <1>2, <1>4, <1>5, <1>6, RanGrows
<1>8. RanAll(p)' /\ \A q \in Pairs : q # p => exec'[q] = exec[q]
  BY <1>1, <1>2, <1>5, RanAllKept
<1> QED
  BY <1>1, <1>2, <1>4, <1>5, <1>6, <1>7, <1>8, RanStep

LEMMA NextRan ==
  ASSUME NEW p \in Pairs, NEW n \in Nat, List(p) \in Seq(Steps), n < Len(List(p)),
         Grows, Ran(p, n),
         kind[List(p)[n + 1]] = "send" => List(p)[n + 1] \in tried'[p]
  PROVE  Ran(p, n + 1)'
<1>1. DOMAIN List(p) = 1..Len(List(p)) /\ List(p)' = List(p)
  BY DEF Grows, List
<1>2. ASSUME NEW i \in DOMAIN List(p), i <= n + 1, kind[List(p)[i]] = "send"
      PROVE  List(p)[i] \in tried'[p]
  <2>1. i = n + 1 \/ i <= n
    BY <1>1, <1>2
  <2>2. CASE i = n + 1
    BY <1>2, <2>2
  <2>3. CASE i <= n
    BY <1>2, <2>3 DEF Ran, Grows
  <2> QED
    BY <2>1, <2>2, <2>3
<1> QED
  BY <1>1, <1>2 DEF Ran

LEMMA RanRunning ==
  ASSUME IInv, RanInv, edits = 0, NEW j \in JobIds,
         \/ AccumulateWait(j) \/ RecordPosition(j) \/ PassFilter(j) \/ StopAtFilter(j) \/ Complete(j)
         \/ SkipSend(j) \/ FindConversation(j) \/ CallProvider(j) \/ SaveMessage(j)
  PROVE  RanInv'
<1>1. jobs[j].state \in Running /\ jobs[j].state # "unused" /\ JobOK(j)
  BY DEF AccumulateWait, RecordPosition, PassFilter, StopAtFilter, Complete, SkipSend,
         FindConversation, CallProvider, SaveMessage, At, Running, IInv
<1>2. PICK p \in Pairs :
           /\ p = jobs[j].of /\ exec[p] \in Exec /\ RanAll(p)
           /\ List(p) \in Seq(Steps) /\ Len(List(p)) \in Nat /\ jobs[j].steps = List(p)
           /\ jobs[j].at \in Nat /\ (phone[p[2]] # NoPhone => Ran(p, jobs[j].at))
  BY <1>1, RunningFields
<1>3. /\ jobs \in [JobIds -> Job] /\ jobs[j] \in Job
      /\ exec \in [Pairs -> Exec \cup {NoExec}] /\ tried \in [Pairs -> SUBSET Steps]
  BY DEF IInv, TypeOK
<1>4. UNCHANGED <<autos, edits>>
  BY DEF AccumulateWait, RecordPosition, PassFilter, StopAtFilter, Complete, SkipSend,
         FindConversation, CallProvider, SaveMessage
<1>5. ASSUME NEW n \in Nat, n = jobs'[j].at, Grows,
             \A k \in JobIds : k # j => jobs'[k] = jobs[k],
             jobs'[j].of = p, jobs'[j].from = jobs[j].from, jobs'[j].steps = jobs[j].steps,
             n = jobs[j].at \/ (phone[p[2]] # NoPhone => Ran(p, n)'),
             \A q \in Pairs : q # p => exec'[q] = exec[q],
             exec'[p] = exec[p] \/ RanAll(p)'
      PROVE  RanInv'
  <2>1. phone[p[2]] # NoPhone => Ran(p, n)'
    BY <1>2, <1>5, RanGrows
  <2>2. RanAll(p)'
    BY <1>2, <1>5, RanAllKept
  <2>3. jobs'[j].state \in Running => jobs'[j].steps = List(p)
    BY <1>2, <1>5
  <2> QED
    BY <1>1, <1>2, <1>5, <2>1, <2>2, <2>3, RanStep
<1>6. CASE AccumulateWait(j) \/ PassFilter(j) \/ SkipSend(j)
  <2>1. /\ More(j) /\ UNCHANGED <<exec, tried>>
        /\ kind[Step(j)] = "send" => phone[LeadOf(j)] = NoPhone
    <3>1. CASE AccumulateWait(j)
      BY <3>1 DEF AccumulateWait, At
    <3>2. CASE PassFilter(j)
      BY <3>2 DEF PassFilter, At
    <3>3. CASE SkipSend(j)
      BY <3>3 DEF SkipSend, At
    <3> QED
      BY <1>6, <3>1, <3>2, <3>3
  <2>2. /\ \A k \in JobIds : k # j => jobs'[k] = jobs[k]
        /\ jobs'[j].of = jobs[j].of /\ jobs'[j].from = jobs[j].from
        /\ jobs'[j].steps = jobs[j].steps /\ jobs'[j].at = jobs[j].at + 1
    BY <1>2, <1>3, <1>6 DEF AccumulateWait, PassFilter, SkipSend, Job
  <2>3. Grows
    BY <1>4, <2>1 DEF Grows
  <2>4. PICK a \in Nat : a = jobs[j].at
    BY <1>2
  <2>5. phone[p[2]] # NoPhone => Ran(p, a + 1)'
    BY <1>2, <2>1, <2>3, <2>4, NextRan DEF More, Step, LeadOf
  <2>6. a + 1 \in Nat /\ a + 1 = jobs'[j].at
    BY <2>2, <2>4
  <2> QED
    BY <1>2, <1>5, <2>1, <2>2, <2>3, <2>5, <2>6
<1>7. CASE SaveMessage(j)
  <2>1. /\ jobs[j].state = "save" /\ jobs' = [jobs EXCEPT ![j].state = "run", ![j].at = @ + 1]
        /\ tried' = [tried EXCEPT ![jobs[j].of] = @ \cup {Step(j)}] /\ UNCHANGED exec
    BY <1>7 DEF SaveMessage
  <2>2. /\ \A k \in JobIds : k # j => jobs'[k] = jobs[k]
        /\ jobs'[j].of = jobs[j].of /\ jobs'[j].from = jobs[j].from
        /\ jobs'[j].steps = jobs[j].steps /\ jobs'[j].at = jobs[j].at + 1
    BY <1>2, <1>3, <2>1 DEF Job
  <2>3. Grows /\ More(j) /\ Step(j) \in tried'[p]
    BY <1>1, <1>2, <1>3, <1>4, <2>1 DEF Grows, JobOK
  <2>4. PICK a \in Nat : a = jobs[j].at
    BY <1>2
  <2>5. phone[p[2]] # NoPhone => Ran(p, a + 1)'
    BY <1>2, <2>3, <2>4, NextRan DEF More, Step
  <2>6. a + 1 \in Nat /\ a + 1 = jobs'[j].at
    BY <2>2, <2>4
  <2> QED
    BY <1>2, <1>5, <2>1, <2>2, <2>3, <2>5, <2>6
<1>8. CASE RecordPosition(j) \/ StopAtFilter(j) \/ Complete(j) \/ FindConversation(j) \/ CallProvider(j)
  <2>1. PICK state : jobs' = [jobs EXCEPT ![j].state = state] /\ UNCHANGED tried
    BY <1>8 DEF RecordPosition, StopAtFilter, Complete, FindConversation, CallProvider
  <2>2. /\ \A k \in JobIds : k # j => jobs'[k] = jobs[k]
        /\ jobs'[j].of = jobs[j].of /\ jobs'[j].from = jobs[j].from
        /\ jobs'[j].steps = jobs[j].steps /\ jobs'[j].at = jobs[j].at
    BY <1>3, <2>1 DEF Job
  <2>3. Grows /\ List(p)' = List(p)
    BY <1>4, <2>1 DEF Grows, List
  <2>4. (\A q \in Pairs : q # p => exec'[q] = exec[q]) /\ (exec'[p] = exec[p] \/ RanAll(p)')
    <3>1. CASE FindConversation(j) \/ CallProvider(j)
      BY <3>1 DEF FindConversation, CallProvider
    <3>2. CASE RecordPosition(j)
      <4>1. exec' = [exec EXCEPT ![p].position = jobs[j].at]
        BY <1>2, <3>2 DEF RecordPosition
      <4>2. exec'[p].status = exec[p].status /\ exec[p] # NoExec
            /\ \A q \in Pairs : q # p => exec'[q] = exec[q]
        BY <1>2, <1>3, <4>1, NoExecAssumption DEF Exec
      <4> QED
        BY <1>2, <2>1, <2>3, <4>2 DEF RanAll
    <3>3. CASE StopAtFilter(j)
      <4>1. exec' = [exec EXCEPT ![p] = [status |-> "filtered", position |-> jobs[j].at]]
        BY <1>2, <3>3 DEF StopAtFilter, SetExec
      <4>2. exec'[p].status = "filtered" /\ \A q \in Pairs : q # p => exec'[q] = exec[q]
        BY <1>3, <4>1
      <4> QED
        BY <4>2 DEF RanAll
    <3>4. CASE Complete(j)
      <4>1. exec' = [exec EXCEPT ![p] = [status |-> "completed", position |-> jobs[j].at]]
            /\ ~More(j)
        BY <1>2, <3>4 DEF Complete, SetExec
      <4>2. \A q \in Pairs : q # p => exec'[q] = exec[q]
        BY <1>3, <4>1
      <4>3. \A i \in DOMAIN List(p) : i <= jobs[j].at
        BY <1>2, <4>1 DEF More
      <4>4. RanAll(p)'
        BY <1>2, <2>1, <2>3, <4>3 DEF RanAll, Ran
      <4> QED
        BY <4>2, <4>4
    <3> QED
      BY <1>8, <3>1, <3>2, <3>3, <3>4
  <2>5. PICK n \in Nat : n = jobs[j].at
    BY <1>2
  <2> QED
    BY <1>2, <1>5, <2>2, <2>3, <2>4, <2>5
<1> QED
  BY <1>6, <1>7, <1>8

\* A job that does not run, or is not run yet, at the position it had.
LEMMA TrackSame ==
  ASSUME IInv, Grows, NEW j \in JobIds, Track(j), jobs[j].state # "unused",
         jobs'[j].of = jobs[j].of, jobs'[j].from = jobs[j].from, jobs'[j].at = jobs[j].at,
         jobs'[j].state \in Running => jobs[j].state \in Running /\ jobs'[j].steps = jobs[j].steps
  PROVE  Track(j)'
<1>1. PICK p \in Pairs : p = jobs[j].of
  BY JobFields
<1>2. PICK f, n : f = jobs[j].from /\ n = jobs[j].at
  OBVIOUS
<1>3. phone[p[2]] # NoPhone => Ran(p, f)' /\ Ran(p, n)'
  BY <1>1, <1>2, RanGrows DEF Track
<1>4. List(p)' = List(p)
  BY DEF Grows, List
<1>5. (jobs[j].state \in Running => jobs[j].steps = List(jobs[j].of))'
  BY <1>1, <1>4 DEF Track
<1>6. (phone[jobs[j].of[2]] # NoPhone
         => Ran(jobs[j].of, jobs[j].from) /\ Ran(jobs[j].of, jobs[j].at))'
  BY <1>1, <1>2, <1>3
<1> QED
  BY <1>5, <1>6 DEF Track

LEMMA TrackNew ==
  ASSUME NEW j \in JobIds, NEW p \in Pairs, NEW n, phone[p[2]] # NoPhone => Ran(p, n)',
         jobs'[j] = NewJob(p, n, "waiting")
  PROVE  Track(j)'
<1>1. jobs'[j].of = p /\ jobs'[j].from = n /\ jobs'[j].at = n /\ jobs'[j].state \notin Running
  BY DEF NewJob, Running
<1>2. (phone[jobs[j].of[2]] # NoPhone
         => Ran(jobs[j].of, jobs[j].from) /\ Ran(jobs[j].of, jobs[j].at))'
  BY <1>1
<1> QED
  BY <1>1, <1>2 DEF Track

LEMMA RanContinue ==
  ASSUME IInv, RanInv, edits = 0, NEW j \in JobIds, AddContinuation(j)
  PROVE  RanInv'
<1>1. /\ jobs[j].state = "run"
      /\ UNCHANGED <<autos, stage, moves, exec, convs, sent, tried, crashes, edits>>
  BY DEF AddContinuation, At
<1>2. PICK k \in JobIds :
         /\ jobs[k].state = "unused"
         /\ jobs' = [jobs EXCEPT ![k] = NewJob(jobs[j].of, jobs[j].at, "waiting"),
                                 ![j].state = "relay"]
  BY DEF AddContinuation, IsNext
<1>3. PICK p \in Pairs : p = jobs[j].of /\ (phone[p[2]] # NoPhone => Ran(p, jobs[j].at))
  BY <1>1, RunningFields
<1>4. PICK n : n = jobs[j].at
  OBVIOUS
<1>5. jobs \in [JobIds -> Job] /\ jobs[j] \in Job
  BY DEF IInv, TypeOK
<1>6. /\ jobs'[k] = NewJob(p, n, "waiting")
      /\ jobs'[j].of = jobs[j].of /\ jobs'[j].from = jobs[j].from /\ jobs'[j].at = jobs[j].at
      /\ jobs'[j].steps = jobs[j].steps
      /\ \A i \in JobIds : i # j /\ i # k => jobs'[i] = jobs[i]
  BY <1>1, <1>2, <1>3, <1>4, <1>5 DEF Job
<1>7. Grows
  BY <1>1 DEF Grows
<1>8. \A i \in JobIds : Track(i)
  BY DEF RanInv
<1>9. Track(k)'
  BY <1>3, <1>4, <1>6, <1>7, RanGrows, TrackNew
<1>10. Track(j)'
  BY <1>1, <1>6, <1>7, <1>8, TrackSame DEF Running
<1>11. \A i \in JobIds : Track(i)'
  BY <1>6, <1>7, <1>8, <1>9, <1>10, TrackKept
<1>12. \A q \in Pairs : RanAll(q)'
  BY <1>1, <1>7, RanAllKept DEF RanInv
<1> QED
  BY <1>11, <1>12 DEF RanInv

LEMMA RanFirst ==
  ASSUME IInv, RanInv, edits = 0, NEW m \in Moves, AddFirstJob(m)
  PROVE  RanInv'
<1>1. moves[m].pc = "add" /\ UNCHANGED <<autos, stage, exec, convs, sent, tried, crashes, edits>>
  BY DEF AddFirstJob
<1>2. PICK k \in JobIds :
         jobs' = [jobs EXCEPT ![k] = NewJob(<<moves[m].auto, moves[m].lead>>, 0, "waiting")]
  BY DEF AddFirstJob
<1>3. PICK p \in Pairs : p = <<moves[m].auto, moves[m].lead>>
  BY <1>1 DEF IInv, MoveOK, Pairs
<1>4. /\ jobs'[k] = NewJob(p, 0, "waiting")
      /\ \A i \in JobIds : i # k => jobs'[i] = jobs[i]
  BY <1>2, <1>3 DEF IInv, TypeOK
<1>5. Grows
  BY <1>1 DEF Grows
<1>6. Ran(p, 0)
  <2>1. autos[p[1]].steps \in StepLists
    BY DEF IInv, TypeOK, Pairs
  <2>2. StepLists \subseteq Seq(Steps)
    BY Zenon, AutomationAssumption
  <2>3. List(p) \in Seq(Steps)
    BY <2>1, <2>2 DEF List
  <2>4. \A i \in DOMAIN List(p) : ~(i <= 0)
    BY <2>3
  <2> QED
    BY <2>4 DEF Ran
<1>7. Track(k)'
  BY <1>4, <1>5, <1>6, RanGrows, TrackNew
<1>8. \A i \in JobIds : Track(i)'
  BY <1>4, <1>5, <1>7, TrackKept DEF RanInv
<1>9. \A q \in Pairs : RanAll(q)'
  BY <1>1, <1>5, RanAllKept DEF RanInv
<1> QED
  BY <1>8, <1>9 DEF RanInv

\* A retried or stalled job goes back to the position it was added with.
LEMMA RanRerun ==
  ASSUME IInv, RanInv, edits = 0, (\E j \in JobIds : FailJob(j)) \/ Crash
  PROVE  RanInv'
<1>1. UNCHANGED <<autos, exec, tried, edits>>
  BY DEF FailJob, Crash
<1>2. Grows
  BY <1>1 DEF Grows
<1>3. ASSUME NEW job \in Job
      PROVE  \A r \in {Retry(job), Stall(job)} :
               r.of = job.of /\ r.from = job.from /\ r.at = job.at /\ r.state \in {"waiting", "failed"}
  BY <1>3 DEF Retry, Stall, Job
<1>4. jobs \in [JobIds -> Job]
  BY DEF IInv, TypeOK
<1>5. ASSUME NEW k \in JobIds
      PROVE  \/ jobs'[k] = jobs[k]
             \/ jobs[k].state # "unused" /\ jobs'[k] \in {Retry(jobs[k]), Stall(jobs[k])}
  <2>1. CASE Crash
    BY <2>1 DEF Crash, Running
  <2>2. CASE \E j \in JobIds : FailJob(j)
    <3>1. PICK j \in JobIds : FailJob(j)
      BY <2>2
    <3>2. jobs[j].state # "unused"
      BY <3>1 DEF FailJob, Throws, At
    <3>3. jobs' = [jobs EXCEPT ![j] = Retry(jobs[j])]
      BY <3>1 DEF FailJob
    <3> QED
      BY <1>4, <3>2, <3>3
  <2> QED
    BY <2>1, <2>2
<1>6. ASSUME NEW k \in JobIds PROVE Track(k)'
  <2>1. Track(k) /\ jobs[k] \in Job
    BY <1>4 DEF RanInv
  <2>2. CASE jobs'[k] = jobs[k]
    BY <1>2, <2>1, <2>2, TrackKept
  <2>3. CASE jobs[k].state # "unused" /\ jobs'[k] \in {Retry(jobs[k]), Stall(jobs[k])}
    <3>1. /\ jobs'[k].of = jobs[k].of /\ jobs'[k].from = jobs[k].from /\ jobs'[k].at = jobs[k].at
          /\ jobs'[k].state \in {"waiting", "failed"}
      BY <1>3, <2>1, <2>3
    <3>2. jobs'[k].state \notin Running
      BY <3>1 DEF Running
    <3> QED
      BY <1>2, <2>1, <2>3, <3>1, <3>2, TrackSame
  <2> QED
    BY <1>5, <2>2, <2>3
<1>7. \A q \in Pairs : RanAll(q)'
  BY <1>1, <1>2, RanAllKept DEF RanInv
<1> QED
  BY <1>6, <1>7 DEF RanInv

\* The steps that leave the jobs alone; a row inserted is pending.
LEMMA RanOthers ==
  ASSUME IInv, RanInv, edits = 0, UNCHANGED <<autos, jobs, tried, edits>>,
         UNCHANGED exec \/ \E m \in Moves, a \in Autos : InsertExecution(m, a)
  PROVE  RanInv'
<1>1. Grows
  BY DEF Grows
<1>2. \A k \in JobIds : Track(k)'
  BY <1>1, TrackKept DEF RanInv
<1>3. ASSUME NEW q \in Pairs PROVE RanAll(q)'
  <2>1. exec'[q] = exec[q] \/ exec'[q] = [status |-> "pending", position |-> 0]
    BY DEF InsertExecution, IInv, TypeOK
  <2>2. CASE exec'[q] = exec[q]
    BY <1>1, <2>2, RanAllKept DEF RanInv
  <2>3. CASE exec'[q] = [status |-> "pending", position |-> 0]
    <3>1. exec'[q].status = "pending"
      BY <2>3
    <3> QED
      BY <3>1 DEF RanAll
  <2> QED
    BY <2>1, <2>2, <2>3
<1> QED
  BY <1>2, <1>3 DEF RanInv

LEMMA InitRanInv == Init => RanInv
<1> SUFFICES ASSUME Init PROVE RanInv
  OBVIOUS
<1>1. \A j \in JobIds : jobs[j].state = "unused"
  BY DEF Init, NewJob
<1>2. \A p \in Pairs : exec[p] = NoExec
  BY DEF Init
<1> QED
  BY <1>1, <1>2 DEF RanInv, Track, RanAll

LEMMA NextRanInv == IInv /\ RanInv /\ [Next]_vars => RanInv'
<1> SUFFICES ASSUME IInv, RanInv, [Next]_vars, edits' = 0 PROVE RanInv'
  BY DEF RanInv
<1>1. ASSUME NEW a \in Autos, EditAutomation(a) PROVE FALSE
  <2>1. edits \in Nat
    BY AutomationAssumption DEF IInv, TypeOK
  <2> QED
    BY <1>1, <2>1 DEF EditAutomation
<1>2. CASE \E m \in Moves, l \in Leads, s \in Stages : StartMove(m, l, s)
  BY <1>2, RanOthers DEF StartMove
<1>3. ASSUME NEW m \in Moves, Moving(m) PROVE RanInv'
  <2>1. CASE AddFirstJob(m)
    <3>1. edits = 0
      BY <2>1 DEF AddFirstJob
    <3> QED
      BY <2>1, <3>1, RanFirst
  <2>2. CASE \E a \in Autos : InsertExecution(m, a)
    BY <2>2, RanOthers DEF InsertExecution
  <2>3. CASE WriteMove(m) \/ FindStageTriggers(m) \/ FindPipelineTriggers(m) \/ EndTriggers(m)
    <3>1. UNCHANGED <<autos, jobs, tried, edits, exec>>
      BY <2>3 DEF WriteMove, FindStageTriggers, FindPipelineTriggers, EndTriggers
    <3> QED
      BY <3>1, RanOthers
  <2> QED
    BY <1>3, <2>1, <2>2, <2>3 DEF Moving
<1>4. ASSUME NEW j \in JobIds, Work(j) PROVE RanInv'
  <2>1. edits = 0
    BY <1>4 DEF Work, TakeJob, AccumulateWait, AddContinuation, RecordPosition, PassFilter,
                StopAtFilter, Complete, SkipSend, FindConversation, CallProvider, SaveMessage, FailJob
  <2> QED
    BY <1>4, <2>1, RanTake, RanRunning, RanContinue, RanRerun DEF Work
<1>5. CASE Crash
  <2>1. edits = 0
    BY <1>5 DEF Crash
  <2> QED
    BY <1>5, <2>1, RanRerun
<1>6. CASE (\E ph \in Phones : ReceiveInbound(ph)) \/ UNCHANGED vars
  BY <1>6, RanOthers DEF ReceiveInbound, vars
<1> QED
  BY <1>1, <1>2, <1>3, <1>4, <1>5, <1>6 DEF Next

\* AutomationProcessor.process marks an execution completed only after every send
\* step of the automation was answered and stored: whatever the number of
\* continuations, retries and restarts, unless the automation was edited.
THEOREM CompletedRan == Spec => []CompletedRanAll
<1>1. RanInv => CompletedRanAll
  BY DEF RanInv, RanAll, CompletedRanAll, List
<1> QED
  BY <1>1, InitRanInv, NextRanInv, Invariance, PTL DEF Spec

-----------------------------------------------------------------------------
\* Repeated messages.  A live job is in the queue or at the list; what it may
\* still send is the rest of its list (Owes) and, when the automation was edited
\* after the job took its list, what its continuation will find in the new one
\* (MayOwe).  SendsInv is a budget: messages sent, and those still owed, are paid
\* for by the first job, by the reruns and by the edits.  Live jobs, too, are at
\* most the first one and one for each rerun.

Ahead(list, n, s) == \E i \in DOMAIN list : i > n /\ list[i] = s

IsLive(j) == jobs[j].state \in {"waiting", "run", "send", "save"}
Live(p) == {j \in JobsOf(p) : IsLive(j)}

Owes(j, s) ==
    \/ jobs[j].state = "waiting" /\ Ahead(List(jobs[j].of), jobs[j].from, s)
    \/ jobs[j].state \in {"run", "send"} /\ Ahead(jobs[j].steps, jobs[j].at, s)
    \/ jobs[j].state = "save" /\ Ahead(jobs[j].steps, jobs[j].at + 1, s)
Own(p, s) == {j \in JobsOf(p) : Owes(j, s)}

MayOwe(j, s) == /\ jobs[j].state \in {"run", "send", "save"}
                /\ jobs[j].steps # List(jobs[j].of)
                /\ Ahead(List(jobs[j].of), jobs[j].at, s)
Later(p, s) == {j \in JobsOf(p) : MayOwe(j, s)}

Paid(p) == Cardinality(Reruns(p))

Budget(p) ==
    /\ Cardinality(Live(p)) <= 1 + Paid(p)
    /\ \A s \in Steps :
         sent[p][s] + Cardinality(Own(p, s)) + Cardinality(Later(p, s)) <= (1 + Paid(p)) * (1 + edits)

\* A first job comes before all others and before any message; the row of an
\* execution whose first job is yet to be added is pending.
Rooted(p) == /\ JobsOf(p) # {} => \E j \in JobIds : Starts(j, p)
             /\ JobsOf(p) = {} => \A s \in Steps : sent[p][s] = 0
Opened(p) == (\E m \in Moves : Adds(m, p)) => exec[p].status = "pending"

\* An execution that ended without a rerun has no live job.
Quiet(p) == exec[p] # NoExec /\ exec[p].status # "pending" /\ Reruns(p) = {} => Live(p) = {}

SendsInv == \A p \in Pairs : Budget(p) /\ Rooted(p) /\ Opened(p) /\ Quiet(p)

-----------------------------------------------------------------------------
\* Counting.

LEMMA JobsFinite == IsFiniteSet(JobIds)
BY FS_Interval, AutomationAssumption DEF JobIds

LEMMA CountJobs ==
  ASSUME NEW S \in SUBSET JobIds
  PROVE  IsFiniteSet(S) /\ Cardinality(S) \in Nat
BY JobsFinite, FS_Subset, FS_CardinalityType

LEMMA CountLess ==
  ASSUME NEW S \in SUBSET JobIds, NEW T \in SUBSET S
  PROVE  Cardinality(T) <= Cardinality(S)
BY CountJobs, FS_Subset

LEMMA CountUnion ==
  ASSUME NEW S \in SUBSET JobIds, NEW T \in SUBSET JobIds, NEW U \in SUBSET (S \cup T)
  PROVE  Cardinality(U) <= Cardinality(S) + Cardinality(T)
<1>1. /\ Cardinality(S \cup T) = Cardinality(S) + Cardinality(T) - Cardinality(S \cap T)
  BY CountJobs, FS_Union
<1>2. Cardinality(S \cap T) \in Nat /\ Cardinality(S) \in Nat /\ Cardinality(T) \in Nat
      /\ Cardinality(S \cup T) \in Nat /\ Cardinality(U) \in Nat
  BY CountJobs
<1>3. Cardinality(U) <= Cardinality(S \cup T)
  BY CountLess
<1> QED
  BY <1>1, <1>2, <1>3

LEMMA CountRemoved ==
  ASSUME NEW S \in SUBSET JobIds, NEW j \in S, NEW T \in SUBSET (S \ {j})
  PROVE  Cardinality(T) + 1 <= Cardinality(S)
<1>1. Cardinality(S \ {j}) = Cardinality(S) - 1
  BY CountJobs, FS_RemoveElement
<1>2. Cardinality(T) <= Cardinality(S \ {j})
  BY CountLess
<1> QED
  BY <1>1, <1>2, CountJobs

LEMMA CountOne == ASSUME NEW j \in JobIds PROVE Cardinality({j}) = 1
BY FS_Singleton

LEMMA RerunsFinite ==
  ASSUME NEW p
  PROVE  IsFiniteSet(Reruns(p)) /\ Paid(p) \in Nat /\ IsFiniteSet(Reruns(p)') /\ Paid(p)' \in Nat
<1> DEFINE N == 1..(MaxAttempts + MaxStalls + 1)
<1>1. IsFiniteSet(N)
  BY FS_Interval, AutomationAssumption
<1>2. IsFiniteSet(JobIds \X N)
  BY <1>1, JobsFinite, FS_Product
<1>3. Reruns(p) \subseteq JobIds \X N /\ Reruns(p)' \subseteq JobIds \X N
  BY DEF Reruns, JobsOf
<1> QED
  BY <1>2, <1>3, FS_Subset, FS_CardinalityType DEF Paid

LEMMA Products ==
  ASSUME NEW r \in Nat, NEW e \in Nat
  PROVE  /\ (1 + r) * (1 + e) \in Nat
         /\ (1 + r) * (1 + (e + 1)) = (1 + r) * (1 + e) + (1 + r)
         /\ \A t \in Nat : (1 + r) * (1 + e) + t <= (1 + (r + t)) * (1 + e)
<1>1. /\ (1 + r) * (1 + e) \in Nat
      /\ (1 + r) * (1 + (e + 1)) = (1 + r) * (1 + e) + (1 + r)
  OBVIOUS
<1>2. ASSUME NEW t \in Nat PROVE (1 + r) * (1 + e) + t <= (1 + (r + t)) * (1 + e)
  <2>1. (1 + (r + t)) * (1 + e) = (1 + r) * (1 + e) + t + t * e
    OBVIOUS
  <2>2. t * e \in Nat
    OBVIOUS
  <2> DEFINE a == (1 + r) * (1 + e)
             b == t * e
  <2>3. a \in Nat /\ b \in Nat
    BY <1>1, <2>2
  <2> HIDE DEF a, b
  <2>4. a + t <= a + t + b
    BY <2>3
  <2> QED
    BY <2>1, <2>4 DEF a, b
<1> QED
  BY <1>1, <1>2

-----------------------------------------------------------------------------
\* Jobs of an execution after a step.

LEMMA JobsOfInts ==
  ASSUME IInv
  PROVE  /\ edits \in Nat /\ \A p \in Pairs, s \in Steps : sent[p][s] \in Nat
         /\ jobs \in [JobIds -> Job]
         /\ \A j \in JobIds : jobs[j].attempts \in Nat /\ jobs[j].stalls \in Nat
                              /\ jobs[j].from \in Nat /\ jobs[j].at \in Nat
BY AutomationAssumption DEF IInv, TypeOK, Job

LEMMA Subsets ==
  ASSUME NEW p, NEW s
  PROVE  /\ Live(p) \subseteq JobIds /\ Own(p, s) \subseteq JobIds /\ Later(p, s) \subseteq JobIds
         /\ Live(p)' \subseteq JobIds /\ Own(p, s)' \subseteq JobIds /\ Later(p, s)' \subseteq JobIds
BY DEF Live, Own, Later, JobsOf

\* The restarts of p, when no job of it is restarted: jobs may join.
LEMMA RerunsSame ==
  ASSUME IInv, IInv', NEW p,
         \A j \in JobIds :
            IF jobs[j].of = p
            THEN jobs'[j].of = p /\ jobs'[j].attempts = jobs[j].attempts /\ jobs'[j].stalls = jobs[j].stalls
            ELSE jobs'[j].of = p => jobs'[j].attempts = 0 /\ jobs'[j].stalls = 0
  PROVE  Reruns(p)' = Reruns(p)
<1> DEFINE N == 1..(MaxAttempts + MaxStalls + 1)
<1>1. \A n \in N : ~(n <= 0 + 0)
  BY AutomationAssumption
<1>2. ASSUME NEW j \in JobIds, NEW n \in N
      PROVE  (jobs'[j].of = p /\ n <= jobs'[j].attempts + jobs'[j].stalls)
             <=> (jobs[j].of = p /\ n <= jobs[j].attempts + jobs[j].stalls)
  <2>1. CASE jobs[j].of = p
    BY <2>1
  <2>2. CASE jobs[j].of # p
    BY <1>1, <2>2
  <2> QED
    BY <2>1, <2>2
<1> HIDE DEF N
<1>3. Reruns(p) = {r \in JobIds \X N : jobs[r[1]].of = p /\ r[2] <= jobs[r[1]].attempts + jobs[r[1]].stalls}
  BY DEF Reruns, JobsOf, N
<1>4. Reruns(p)' = {r \in JobIds \X N : jobs'[r[1]].of = p /\ r[2] <= jobs'[r[1]].attempts + jobs'[r[1]].stalls}
  BY DEF Reruns, JobsOf, N
<1> QED
  BY <1>2, <1>3, <1>4

\* A step that spends nothing: what is owed falls by what is sent.
LEMMA BudgetKept ==
  ASSUME IInv, IInv', NEW p \in Pairs, Budget(p), edits' = edits, Reruns(p)' = Reruns(p),
         Cardinality(Live(p)') <= Cardinality(Live(p)),
         \A s \in Steps :
            sent'[p][s] + Cardinality(Own(p, s)') + Cardinality(Later(p, s)')
                <= sent[p][s] + Cardinality(Own(p, s)) + Cardinality(Later(p, s))
  PROVE  Budget(p)'
<1>1. Paid(p)' = Paid(p) /\ Paid(p) \in Nat
  BY RerunsFinite DEF Paid
<1>2. Cardinality(Live(p)) \in Nat /\ Cardinality(Live(p)') \in Nat
  BY CountJobs, Subsets
<1>3. Cardinality(Live(p)') <= 1 + Paid(p)'
  BY <1>1, <1>2 DEF Budget
<1>4. ASSUME NEW s \in Steps
      PROVE  sent'[p][s] + Cardinality(Own(p, s)') + Cardinality(Later(p, s)')
                 <= (1 + Paid(p)') * (1 + edits')
  <2>1. /\ sent[p][s] \in Nat /\ sent'[p][s] \in Nat
        /\ Cardinality(Own(p, s)) \in Nat /\ Cardinality(Later(p, s)) \in Nat
        /\ Cardinality(Own(p, s)') \in Nat /\ Cardinality(Later(p, s)') \in Nat
    <3>1. sent[p][s] \in Nat /\ sent'[p][s] \in Nat
      BY DEF IInv, TypeOK
    <3> QED
      BY <3>1, CountJobs, Subsets
  <2> DEFINE all == (1 + Paid(p)) * (1 + edits)
  <2>2. all \in Nat /\ sent[p][s] + Cardinality(Own(p, s)) + Cardinality(Later(p, s)) <= all
    BY <1>1, Products, JobsOfInts DEF Budget
  <2>3. (1 + Paid(p)') * (1 + edits') = all
    BY <1>1
  <2> HIDE DEF all
  <2> QED
    BY <2>1, <2>2, <2>3
<1> QED
  BY <1>3, <1>4 DEF Budget

\* Steps that leave the jobs of p, its list and its messages alone.
Apart(p) ==
    /\ \A j \in JobIds : jobs'[j] = jobs[j] \/ (jobs[j].of # p /\ jobs'[j].of # p)
    /\ List(p)' = List(p) /\ edits' = edits
    /\ sent'[p] = sent[p]

LEMMA ApartSets ==
  ASSUME NEW p, Apart(p)
  PROVE  /\ JobsOf(p)' = JobsOf(p) /\ Live(p)' = Live(p) /\ Reruns(p)' = Reruns(p)
         /\ \A s : Own(p, s)' = Own(p, s) /\ Later(p, s)' = Later(p, s)
<1>1. JobsOf(p)' = JobsOf(p) /\ \A j \in JobsOf(p) : j \in JobIds /\ jobs[j].of = p /\ jobs'[j] = jobs[j]
  BY DEF Apart, JobsOf
<1>2. \A j \in JobsOf(p) : /\ IsLive(j)' = IsLive(j)
                           /\ \A s : Owes(j, s)' = Owes(j, s) /\ MayOwe(j, s)' = MayOwe(j, s)
  <2> SUFFICES ASSUME NEW j \in JobsOf(p)
               PROVE  /\ IsLive(j)' = IsLive(j)
                      /\ \A s : Owes(j, s)' = Owes(j, s) /\ MayOwe(j, s)' = MayOwe(j, s)
    OBVIOUS
  <2>1. PICK q : q = p
    OBVIOUS
  <2>2. jobs'[j] = jobs[j] /\ jobs[j].of = q /\ List(q)' = List(q)
    BY <1>1, <2>1 DEF Apart
  <2>3. List(jobs[j].of)' = List(jobs[j].of)
    BY <2>2 DEF List
  <2> QED
    BY <2>2, <2>3 DEF IsLive, Owes, MayOwe
<1>3. Reruns(p)' = Reruns(p)
  BY <1>1 DEF Reruns
<1> QED
  BY <1>1, <1>2, <1>3 DEF Live, Own, Later

LEMMA BudgetApart ==
  ASSUME IInv, IInv', NEW p \in Pairs, Budget(p), Rooted(p), Apart(p)
  PROVE  Budget(p)' /\ Rooted(p)' /\ Live(p)' = Live(p) /\ Reruns(p)' = Reruns(p)
<1>1. Budget(p)'
  BY ApartSets DEF Apart, Budget, Paid
<1>2. JobsOf(p)' = JobsOf(p) /\ \A j \in JobIds : Starts(j, p) => Starts(j, p)'
  BY ApartSets DEF Apart, Starts
<1>3. Rooted(p)'
  BY <1>2 DEF Rooted, Apart
<1> QED
  BY <1>1, <1>3, ApartSets

\* The row of an execution whose jobs are left alone.
LEMMA QuietApart ==
  ASSUME NEW p \in Pairs, Quiet(p), Live(p)' \subseteq Live(p), Reruns(p) \subseteq Reruns(p)',
         exec'[p] # NoExec => exec'[p].status = "pending" \/
                              (exec[p] # NoExec /\ exec'[p].status = exec[p].status)
  PROVE  Quiet(p)'
BY DEF Quiet

-----------------------------------------------------------------------------
\* A worker's step on its job: it owes no more than before, and pays what it
\* sends.

LEMMA NoAdds ==
  ASSUME IInv, SendsInv, NEW p \in Pairs, JobsOf(p) # {}, NEW m \in Moves
  PROVE  ~Adds(m, p)
<1>1. \E j \in JobIds : Starts(j, p)
  BY DEF SendsInv, Rooted
<1> QED
  BY <1>1 DEF IInv, Once

WorksOn(j, p) ==
    /\ p = jobs[j].of /\ jobs[j].state # "unused"
    /\ \A k \in JobIds : k # j => jobs'[k] = jobs[k]
    /\ jobs'[j].of = p /\ jobs'[j].from = jobs[j].from
    /\ jobs'[j].attempts = jobs[j].attempts /\ jobs'[j].stalls = jobs[j].stalls
    /\ UNCHANGED <<autos, moves, edits>>
    /\ IsLive(j)' => IsLive(j)
    /\ \A s \in Steps : (Owes(j, s)' => Owes(j, s)) /\ (MayOwe(j, s)' => MayOwe(j, s))

Pays(j, p) ==
    /\ \A q \in Pairs : q # p => sent'[q] = sent[q] /\ exec'[q] = exec[q]
    /\ \A s \in Steps :
          \/ sent'[p][s] = sent[p][s]
          \/ sent'[p][s] = sent[p][s] + 1 /\ Owes(j, s) /\ ~(Owes(j, s)')
    /\ exec'[p].status = exec[p].status \/ (IsLive(j) /\ ~(IsLive(j)'))

LEMMA SendsWork ==
  ASSUME IInv, IInv', SendsInv, NEW j \in JobIds, NEW p \in Pairs, WorksOn(j, p), Pays(j, p)
  PROVE  SendsInv'
<1>1. JobsOf(p)' = JobsOf(p) /\ j \in JobsOf(p) /\ JobsOf(p) \subseteq JobIds
  BY DEF WorksOn, JobsOf
<1>2. Live(p)' \subseteq Live(p)
  <2>1. \A k \in JobsOf(p) : IsLive(k)' => IsLive(k)
    BY <1>1 DEF WorksOn, IsLive
  <2> QED
    BY <1>1, <2>1 DEF Live
<1>3. \A k \in JobsOf(p) : k # j => \A s \in Steps : Owes(k, s)' = Owes(k, s) /\ MayOwe(k, s)' = MayOwe(k, s)
  <2> SUFFICES ASSUME NEW k \in JobsOf(p), k # j, NEW s \in Steps
               PROVE  Owes(k, s)' = Owes(k, s) /\ MayOwe(k, s)' = MayOwe(k, s)
    OBVIOUS
  <2>1. jobs'[k] = jobs[k] /\ autos' = autos
    BY <1>1 DEF WorksOn
  <2> QED
    BY <2>1 DEF Owes, MayOwe, List
<1>4. ASSUME NEW s \in Steps
      PROVE  /\ Own(p, s)' \subseteq Own(p, s) /\ Later(p, s)' \subseteq Later(p, s)
             /\ Owes(j, s) /\ ~(Owes(j, s)') => j \in Own(p, s) /\ Own(p, s)' \subseteq Own(p, s) \ {j}
  <2>1. \A k \in JobsOf(p) : (Owes(k, s)' => Owes(k, s)) /\ (MayOwe(k, s)' => MayOwe(k, s))
    BY <1>3 DEF WorksOn
  <2> QED
    BY <1>1, <2>1 DEF Own, Later
<1>5. Reruns(p)' = Reruns(p)
  <2>1. \A k \in JobIds : IF jobs[k].of = p
            THEN jobs'[k].of = p /\ jobs'[k].attempts = jobs[k].attempts /\ jobs'[k].stalls = jobs[k].stalls
            ELSE jobs'[k].of = p => jobs'[k].attempts = 0 /\ jobs'[k].stalls = 0
    BY DEF WorksOn
  <2> QED
    BY <2>1, RerunsSame
<1>6. Budget(p)'
  <2>1. ASSUME NEW s \in Steps
        PROVE  sent'[p][s] + Cardinality(Own(p, s)') + Cardinality(Later(p, s)')
                 <= sent[p][s] + Cardinality(Own(p, s)) + Cardinality(Later(p, s))
    <3>1. /\ Cardinality(Own(p, s)) \in Nat /\ Cardinality(Later(p, s)) \in Nat
          /\ Cardinality(Own(p, s)') \in Nat /\ Cardinality(Later(p, s)') \in Nat
          /\ Cardinality(Later(p, s)') <= Cardinality(Later(p, s))
          /\ Cardinality(Own(p, s)') <= Cardinality(Own(p, s))
          /\ sent[p][s] \in Nat
      BY <1>4, CountJobs, CountLess, Subsets, JobsOfInts
    <3>2. CASE sent'[p][s] = sent[p][s]
      BY <3>1, <3>2
    <3>3. CASE sent'[p][s] = sent[p][s] + 1 /\ Owes(j, s) /\ ~(Owes(j, s)')
      <4>1. Cardinality(Own(p, s)') + 1 <= Cardinality(Own(p, s))
        BY <1>4, <3>3, CountRemoved, Subsets
      <4> QED
        BY <3>1, <3>3, <4>1
    <3> QED
      BY <3>2, <3>3 DEF Pays
  <2>2. Cardinality(Live(p)') <= Cardinality(Live(p))
    BY <1>2, CountLess, Subsets
  <2> QED
    BY <1>5, <2>1, <2>2, BudgetKept DEF WorksOn, SendsInv
<1>7. Rooted(p)'
  <2>1. \A k \in JobIds : Starts(k, p) => Starts(k, p)'
    BY DEF WorksOn, Starts
  <2> QED
    BY <1>1, <2>1 DEF Rooted, SendsInv
<1>8. Opened(p)'
  <2>1. \A m \in Moves : ~Adds(m, p)
    BY <1>1, NoAdds
  <2> QED
    BY <2>1 DEF Opened, WorksOn, Adds
<1>9. Quiet(p)'
  <2>1. exec[p] # NoExec
    BY JobFields, NoExecAssumption DEF WorksOn
  <2>2. CASE exec'[p].status = exec[p].status
    BY <1>2, <1>5, <2>1, <2>2, QuietApart DEF SendsInv
  <2>3. CASE IsLive(j) /\ ~(IsLive(j)')
    <3>1. j \in Live(p) /\ Live(p)' \subseteq Live(p) \ {j}
      BY <1>1, <1>2, <2>3 DEF Live
    <3>2. Cardinality(Live(p)') + 1 <= Cardinality(Live(p))
      BY <3>1, CountRemoved, Subsets
    <3>3. Reruns(p) = {} => Cardinality(Live(p)) <= 1
      BY FS_EmptySet DEF SendsInv, Budget, Paid
    <3>4. Reruns(p) = {} => Cardinality(Live(p)') = 0
      BY <3>2, <3>3, CountJobs, Subsets
    <3>5. Reruns(p) = {} => Live(p)' = {}
      BY <3>4, CountJobs, Subsets, FS_EmptySet
    <3> QED
      BY <1>5, <3>5 DEF Quiet
  <2> QED
    BY <2>2, <2>3 DEF Pays
<1>10. ASSUME NEW q \in Pairs, q # p
       PROVE  Budget(q)' /\ Rooted(q)' /\ Opened(q)' /\ Quiet(q)'
  <2>1. Apart(q)
    BY <1>10 DEF Apart, WorksOn, Pays, List
  <2>2. Budget(q)' /\ Rooted(q)' /\ Live(q)' = Live(q) /\ Reruns(q)' = Reruns(q)
    BY <2>1, BudgetApart DEF SendsInv
  <2>3. Quiet(q)' /\ Opened(q)'
    BY <1>10, <2>2 DEF SendsInv, Quiet, Opened, Pays, WorksOn, Adds
  <2> QED
    BY <2>2, <2>3
<1> QED
  BY <1>6, <1>7, <1>8, <1>9, <1>10 DEF SendsInv

\* A job's list and the automation's present one; a list names a step once.
LEMMA Lists ==
  ASSUME IInv, NEW j \in JobIds, jobs[j].state # "unused"
  PROVE  \E p \in Pairs :
           /\ p = jobs[j].of /\ jobs[j].at \in Nat /\ jobs[j].from \in Nat
           /\ jobs[j].steps \in Seq(Steps) /\ List(p) \in Seq(Steps)
           /\ \A i, k \in DOMAIN jobs[j].steps : jobs[j].steps[i] = jobs[j].steps[k] => i = k
<1>1. PICK p \in Pairs : p = jobs[j].of
  BY JobFields
<1>2. List(p) \in StepLists /\ jobs[j].steps \in StepLists \cup {<<>>}
  BY JobFields DEF IInv, TypeOK, Pairs, List, Job
<1>3. /\ StepLists \subseteq Seq(Steps)
      /\ \A list \in StepLists : \A i, k \in DOMAIN list : list[i] = list[k] => i = k
  BY Zenon, AutomationAssumption
<1>4. \A i, k \in DOMAIN jobs[j].steps : jobs[j].steps[i] = jobs[j].steps[k] => i = k
  BY <1>2, <1>3
<1>5. List(p) \in Seq(Steps)
  BY <1>2, <1>3
<1> QED
  BY <1>1, <1>4, <1>5, JobFields

LEMMA AheadLess ==
  ASSUME NEW list \in Seq(Steps), NEW m \in Nat, NEW n \in Nat, m <= n, NEW s, Ahead(list, n, s)
  PROVE  Ahead(list, m, s)
BY DEF Ahead

\* Where the job may stand after the step, seen from where it stood.
Onward(j) ==
    \/ /\ jobs[j].state = "waiting" /\ jobs'[j].state = "run"
       /\ jobs'[j].at = jobs[j].from /\ jobs'[j].steps = List(jobs[j].of)
    \/ /\ jobs[j].state \in {"run", "send"} /\ jobs'[j].state \in {"run", "send"}
       /\ jobs'[j].at \in {jobs[j].at, jobs[j].at + 1} /\ jobs'[j].steps = jobs[j].steps
    \/ /\ jobs[j].state = "send" /\ jobs'[j].state = "save"
       /\ jobs'[j].at = jobs[j].at /\ jobs'[j].steps = jobs[j].steps
    \/ /\ jobs[j].state = "save" /\ jobs'[j].state = "run"
       /\ jobs'[j].at = jobs[j].at + 1 /\ jobs'[j].steps = jobs[j].steps
    \/ jobs'[j].state \in {"completed", "failed"}

LEMMA OnwardOwes ==
  ASSUME IInv, NEW j \in JobIds, jobs[j].state # "unused", Onward(j),
         UNCHANGED autos, jobs'[j].of = jobs[j].of
  PROVE  /\ IsLive(j)' => IsLive(j)
         /\ \A s \in Steps : (Owes(j, s)' => Owes(j, s)) /\ (MayOwe(j, s)' => MayOwe(j, s))
<1>1. PICK p \in Pairs :
           /\ p = jobs[j].of /\ jobs[j].at \in Nat /\ jobs[j].from \in Nat
           /\ jobs[j].steps \in Seq(Steps) /\ List(p) \in Seq(Steps)
  BY Lists
<1>2. List(p)' = List(p) /\ List(jobs[j].of)' = List(p) /\ List(jobs[j].of) = List(p)
  BY <1>1 DEF List
<1>3. \A s : /\ Ahead(jobs[j].steps, jobs[j].at + 1, s) => Ahead(jobs[j].steps, jobs[j].at, s)
             /\ Ahead(List(p), jobs[j].at + 1, s) => Ahead(List(p), jobs[j].at, s)
  BY <1>1, AheadLess
<1>4. IsLive(j)' => IsLive(j)
  BY DEF Onward, IsLive
<1> DEFINE own(list, n, s) == Ahead(list, n, s)
<1>5. ASSUME NEW s \in Steps PROVE Owes(j, s)' => Owes(j, s)
  <2>1. Owes(j, s)' =>
          \/ jobs'[j].state = "waiting" /\ Ahead(List(p), jobs'[j].from, s)
          \/ jobs'[j].state \in {"run", "send"} /\ Ahead(jobs'[j].steps, jobs'[j].at, s)
          \/ jobs'[j].state = "save" /\ Ahead(jobs'[j].steps, jobs'[j].at + 1, s)
    BY <1>2 DEF Owes, Ahead
  <2>2. \/ jobs[j].state = "waiting" /\ Ahead(List(p), jobs[j].from, s)
        \/ jobs[j].state \in {"run", "send"} /\ Ahead(jobs[j].steps, jobs[j].at, s)
        \/ jobs[j].state = "save" /\ Ahead(jobs[j].steps, jobs[j].at + 1, s)
        => Owes(j, s)
    BY <1>2 DEF Owes
  <2> QED
    BY <1>2, <1>3, <2>1, <2>2 DEF Onward
<1>6. ASSUME NEW s \in Steps PROVE MayOwe(j, s)' => MayOwe(j, s)
  <2>1. MayOwe(j, s)' =>
          /\ jobs'[j].state \in {"run", "send", "save"} /\ jobs'[j].steps # List(p)
          /\ Ahead(List(p), jobs'[j].at, s)
    BY <1>2 DEF MayOwe, Ahead
  <2>2. /\ jobs[j].state \in {"run", "send", "save"} /\ jobs[j].steps # List(p)
        /\ Ahead(List(p), jobs[j].at, s)
        => MayOwe(j, s)
    BY <1>2 DEF MayOwe
  <2> QED
    BY <1>2, <1>3, <2>1, <2>2 DEF Onward
<1> QED
  BY <1>4, <1>5, <1>6

LEMMA SendsTake ==
  ASSUME IInv, IInv', SendsInv, NEW j \in JobIds, TakeJob(j)
  PROVE  SendsInv'
<1>1. /\ jobs[j].state = "waiting"
      /\ UNCHANGED <<autos, stage, moves, exec, convs, sent, tried, crashes, edits>>
  BY DEF TakeJob
<1>2. PICK p \in Pairs : p = jobs[j].of
  BY <1>1, JobFields
<1>3. jobs \in [JobIds -> Job] /\ jobs[j] \in Job
  BY DEF IInv, TypeOK
<1>4. /\ \A k \in JobIds : k # j => jobs'[k] = jobs[k]
      /\ jobs'[j].of = jobs[j].of /\ jobs'[j].from = jobs[j].from
      /\ jobs'[j].attempts = jobs[j].attempts /\ jobs'[j].stalls = jobs[j].stalls
      /\ Onward(j)
  BY <1>1, <1>3 DEF TakeJob, List, Job, AutoOf, Onward
<1>5. WorksOn(j, p)
  BY <1>1, <1>2, <1>4, OnwardOwes DEF WorksOn
<1>6. Pays(j, p)
  BY <1>1 DEF Pays
<1> QED
  BY <1>5, <1>6, SendsWork

LEMMA SendsRunning ==
  ASSUME IInv, IInv', SendsInv, NEW j \in JobIds,
         \/ AccumulateWait(j) \/ RecordPosition(j) \/ PassFilter(j) \/ StopAtFilter(j) \/ Complete(j)
         \/ SkipSend(j) \/ FindConversation(j) \/ CallProvider(j) \/ SaveMessage(j)
  PROVE  SendsInv'
<1>1. jobs[j].state \in Running /\ UNCHANGED <<autos, moves, edits>>
  BY DEF AccumulateWait, RecordPosition, PassFilter, StopAtFilter, Complete, SkipSend,
         FindConversation, CallProvider, SaveMessage, At, Running
<1>2. jobs[j].state # "unused" /\ jobs[j].state \notin {"waiting"}
  BY <1>1 DEF Running
<1>3. PICK p \in Pairs :
           /\ p = jobs[j].of /\ jobs[j].at \in Nat /\ jobs[j].from \in Nat
           /\ jobs[j].steps \in Seq(Steps)
           /\ \A i, k \in DOMAIN jobs[j].steps : jobs[j].steps[i] = jobs[j].steps[k] => i = k
  BY <1>2, Lists
<1>4. /\ jobs \in [JobIds -> Job] /\ jobs[j] \in Job /\ JobOK(j)
      /\ exec \in [Pairs -> Exec \cup {NoExec}] /\ sent \in [Pairs -> [Steps -> Nat]]
  BY DEF IInv, TypeOK
<1>5. /\ \A k \in JobIds : k # j => jobs'[k] = jobs[k]
      /\ jobs'[j].of = jobs[j].of /\ jobs'[j].from = jobs[j].from
      /\ jobs'[j].attempts = jobs[j].attempts /\ jobs'[j].stalls = jobs[j].stalls
      /\ Onward(j)
  <2>1. CASE AccumulateWait(j)
    BY <1>4, <2>1 DEF AccumulateWait, At, Job, Onward
  <2>2. CASE RecordPosition(j) \/ StopAtFilter(j) \/ Complete(j)
    BY <1>4, <2>2 DEF RecordPosition, StopAtFilter, Complete, Job, Onward
  <2>3. CASE PassFilter(j) \/ SkipSend(j)
    BY <1>4, <2>3 DEF PassFilter, SkipSend, At, Job, Onward
  <2>4. CASE FindConversation(j)
    BY <1>4, <2>4 DEF FindConversation, At, Job, Onward
  <2>5. CASE CallProvider(j)
    BY <1>4, <2>5 DEF CallProvider, Job, Onward
  <2>6. CASE SaveMessage(j)
    BY <1>4, <2>6 DEF SaveMessage, Job, Onward
  <2> QED
    BY <2>1, <2>2, <2>3, <2>4, <2>5, <2>6
<1>6. WorksOn(j, p)
  BY <1>1, <1>2, <1>3, <1>5, OnwardOwes DEF WorksOn
<1>7. Pays(j, p)
  <2>1. CASE UNCHANGED <<exec, sent>>
    BY <2>1 DEF Pays
  <2>2. CASE RecordPosition(j)
    <3>1. sent' = sent /\ exec' = [exec EXCEPT ![p].position = jobs[j].at]
      BY <1>3, <2>2 DEF RecordPosition
    <3>2. exec[p] \in Exec
      BY <1>2, <1>3, JobFields
    <3>3. exec'[p].status = exec[p].status /\ \A q \in Pairs : q # p => exec'[q] = exec[q]
      BY <1>4, <3>1, <3>2 DEF Exec
    <3> QED
      BY <3>1, <3>3 DEF Pays
  <2>3. CASE StopAtFilter(j) \/ Complete(j)
    <3>1. sent' = sent /\ \A q \in Pairs : q # p => exec'[q] = exec[q]
      BY <1>3, <1>4, <2>3 DEF StopAtFilter, Complete, SetExec
    <3>2. IsLive(j) /\ ~(IsLive(j)')
      BY <1>4, <2>3 DEF StopAtFilter, Complete, At, IsLive, Job
    <3> QED
      BY <3>1, <3>2 DEF Pays
  <2>4. CASE CallProvider(j)
    <3>1. PICK accepted \in {0, 1} : sent' = [sent EXCEPT ![p][Step(j)] = @ + accepted]
      BY <1>3, <2>4 DEF CallProvider
    <3>2. /\ exec' = exec /\ jobs[j].state = "send"
          /\ jobs'[j].state = "save" /\ jobs'[j].at = jobs[j].at /\ jobs'[j].steps = jobs[j].steps
      BY <1>4, <2>4 DEF CallProvider, Job
    <3>3. jobs[j].at + 1 \in DOMAIN jobs[j].steps /\ jobs[j].steps[jobs[j].at + 1] = Step(j)
          /\ Step(j) \in Steps
      BY <1>3, <1>4, <3>2 DEF JobOK, More, Step
    <3>4. /\ \A q \in Pairs : q # p => sent'[q] = sent[q]
          /\ \A s \in Steps : s # Step(j) => sent'[p][s] = sent[p][s]
          /\ sent'[p][Step(j)] = sent[p][Step(j)] + accepted
      BY <1>4, <3>1, <3>3
    <3>5. sent[p][Step(j)] \in Nat
      BY <1>4, <3>3
    <3>6. Owes(j, Step(j))
      BY <1>3, <3>2, <3>3 DEF Owes, Ahead
    <3>7. \A i \in DOMAIN jobs[j].steps : i > jobs[j].at + 1 => jobs[j].steps[i] # Step(j)
      BY <1>3, <3>3
    <3>8. PICK step : step = Step(j)
      OBVIOUS
    <3>9. ~(Owes(j, step)')
      BY <3>2, <3>7, <3>8 DEF Owes, Ahead
    <3>10. \A s \in Steps : \/ sent'[p][s] = sent[p][s]
                            \/ sent'[p][s] = sent[p][s] + 1 /\ Owes(j, s) /\ ~(Owes(j, s)')
      BY <3>4, <3>5, <3>6, <3>8, <3>9
    <3> QED
      BY <3>2, <3>4, <3>10 DEF Pays
  <2> QED
    BY <2>1, <2>2, <2>3, <2>4 DEF AccumulateWait, PassFilter, SkipSend, FindConversation, SaveMessage
<1> QED
  BY <1>2, <1>6, <1>7, SendsWork

LEMMA CountAdded ==
  ASSUME NEW S \in SUBSET JobIds, NEW k \in JobIds, NEW T \in SUBSET (S \cup {k})
  PROVE  Cardinality(T) <= Cardinality(S) + 1
<1>1. {k} \in SUBSET JobIds
  OBVIOUS
<1> QED
  BY <1>1, CountUnion, CountOne

LEMMA CountMoved ==
  ASSUME NEW S \in SUBSET JobIds, NEW j \in S, NEW k \in JobIds,
         NEW T \in SUBSET ((S \ {j}) \cup {k})
  PROVE  Cardinality(T) <= Cardinality(S)
<1>1. S \ {j} \in SUBSET (S \ {j}) /\ S \ {j} \in SUBSET JobIds
  OBVIOUS
<1>2. Cardinality(S \ {j}) + 1 <= Cardinality(S)
  BY <1>1, CountRemoved
<1>3. Cardinality(T) <= Cardinality(S \ {j}) + 1
  BY <1>1, CountAdded
<1>4. Cardinality(T) \in Nat /\ Cardinality(S) \in Nat /\ Cardinality(S \ {j}) \in Nat
  <2>1. T \in SUBSET JobIds
    OBVIOUS
  <2> QED
    BY <1>1, <2>1, CountJobs
<1> QED
  BY <1>2, <1>3, <1>4

\* What an execution keeps in a step on another one.
LEMMA ApartKept ==
  ASSUME IInv, IInv', SendsInv, NEW q \in Pairs, Apart(q), exec'[q] = exec[q],
         \A m \in Moves : Adds(m, q)' => Adds(m, q)
  PROVE  Budget(q)' /\ Rooted(q)' /\ Opened(q)' /\ Quiet(q)'
<1>1. Budget(q)' /\ Rooted(q)' /\ Live(q)' = Live(q) /\ Reruns(q)' = Reruns(q)
  BY BudgetApart DEF SendsInv
<1> QED
  BY <1>1 DEF SendsInv, Quiet, Opened

\* The continuation takes over what the job owed, or what it would have owed.
LEMMA SendsContinue ==
  ASSUME IInv, IInv', SendsInv, NEW j \in JobIds, AddContinuation(j)
  PROVE  SendsInv'
<1>1. PICK k \in JobIds :
        /\ IsNext(k)
        /\ jobs' = [jobs EXCEPT ![k] = NewJob(jobs[j].of, jobs[j].at, "waiting"), ![j].state = "relay"]
  BY DEF AddContinuation
<1>2. /\ jobs[j].state = "run" /\ jobs[k].state = "unused" /\ k # j
      /\ UNCHANGED <<autos, stage, moves, exec, convs, sent, tried, crashes, edits>>
  BY <1>1 DEF AddContinuation, At, IsNext
<1>3. PICK p \in Pairs : p = jobs[j].of
  BY <1>2, JobFields
<1>4. jobs[k].of \notin Pairs /\ jobs[j].at \in Nat
  BY <1>2, JobFields DEF IInv, JobOK
<1>5. /\ jobs'[k].of = p /\ jobs'[k].from = jobs[j].at /\ jobs'[k].state = "waiting"
      /\ jobs'[k].attempts = 0 /\ jobs'[k].stalls = 0
      /\ jobs'[j].state = "relay" /\ jobs'[j].of = p /\ jobs'[j].from = jobs[j].from
      /\ jobs'[j].attempts = jobs[j].attempts /\ jobs'[j].stalls = jobs[j].stalls
      /\ \A i \in JobIds : i # k /\ i # j => jobs'[i] = jobs[i]
  <2> DEFINE new == NewJob(jobs[j].of, jobs[j].at, "waiting")
  <2>1. /\ new \in Job /\ new.of = p /\ new.from = jobs[j].at /\ new.state = "waiting"
        /\ new.attempts = 0 /\ new.stalls = 0
    BY <1>3, <1>4, NewJobType
  <2> HIDE DEF new
  <2>2. jobs' = [jobs EXCEPT ![k] = new, ![j].state = "relay"] /\ jobs \in [JobIds -> Job]
    BY <1>1 DEF new, IInv, TypeOK
  <2> QED
    BY <1>2, <1>3, <2>1, <2>2 DEF Job
<1>6. \A i \in JobsOf(p) : i \in JobIds /\ i # k
  BY <1>4 DEF JobsOf
<1>7. JobsOf(p)' = JobsOf(p) \cup {k} /\ j \in JobsOf(p)
  BY <1>3, <1>5 DEF JobsOf
<1>8. ~(IsLive(j)') /\ \A s : ~(Owes(j, s)') /\ ~(MayOwe(j, s)') /\ ~(MayOwe(k, s)')
  BY <1>5 DEF IsLive, Owes, MayOwe
<1>9. \A i \in JobIds : i # k /\ i # j =>
          IsLive(i)' = IsLive(i) /\ \A s : Owes(i, s)' = Owes(i, s) /\ MayOwe(i, s)' = MayOwe(i, s)
  BY <1>2, <1>5 DEF IsLive, Owes, MayOwe, List
<1>10. j \in Live(p) /\ Live(p)' \in SUBSET ((Live(p) \ {j}) \cup {k})
  BY <1>2, <1>6, <1>7, <1>8, <1>9 DEF Live, IsLive
<1>11. \A s : /\ Own(p, s)' \subseteq (Own(p, s) \ {j}) \cup {k}
              /\ Later(p, s)' \subseteq Later(p, s) \ {j}
              /\ k \in Own(p, s)' => j \in Own(p, s) \/ j \in Later(p, s)
  <2> TAKE s
  <2>1. Own(p, s)' \subseteq (Own(p, s) \ {j}) \cup {k} /\ Later(p, s)' \subseteq Later(p, s) \ {j}
    BY <1>6, <1>7, <1>8, <1>9 DEF Own, Later
  <2>2. ASSUME Owes(k, s)' PROVE Ahead(List(p), jobs[j].at, s)
    <3>1. List(jobs[k].of)' = List(p)
      BY <1>2, <1>5 DEF List
    <3>2. PICK n : n = jobs[j].at
      OBVIOUS
    <3>3. Ahead(List(jobs[k].of), jobs[k].from, s)'
      BY <1>5, <2>2 DEF Owes
    <3> QED
      BY <1>5, <3>1, <3>3 DEF Ahead
  <2>3. Ahead(List(p), jobs[j].at, s) => Owes(j, s) \/ MayOwe(j, s)
    BY <1>2, <1>3 DEF Owes, MayOwe
  <2>4. k \in Own(p, s)' => j \in Own(p, s) \/ j \in Later(p, s)
    BY <1>7, <2>2, <2>3 DEF Own, Later
  <2> QED
    BY <2>1, <2>4
<1>12. Reruns(p)' = Reruns(p)
  <2>1. \A i \in JobIds : IF jobs[i].of = p
            THEN jobs'[i].of = p /\ jobs'[i].attempts = jobs[i].attempts /\ jobs'[i].stalls = jobs[i].stalls
            ELSE jobs'[i].of = p => jobs'[i].attempts = 0 /\ jobs'[i].stalls = 0
    BY <1>3, <1>4, <1>5
  <2> QED
    BY <2>1, RerunsSame
<1>13. Budget(p)'
  <2>1. Cardinality(Live(p)') <= Cardinality(Live(p))
    BY <1>10, CountMoved, Subsets
  <2>2. ASSUME NEW s \in Steps
        PROVE  sent'[p][s] + Cardinality(Own(p, s)') + Cardinality(Later(p, s)')
                 <= sent[p][s] + Cardinality(Own(p, s)) + Cardinality(Later(p, s))
    <3> DEFINE own == Own(p, s)
               later == Later(p, s)
    <3>1. PICK ownN : ownN = Own(p, s)'
      OBVIOUS
    <3>2. PICK laterN : laterN = Later(p, s)'
      OBVIOUS
    <3>3. /\ own \in SUBSET JobIds /\ later \in SUBSET JobIds
          /\ ownN \in SUBSET ((own \ {j}) \cup {k}) /\ laterN \in SUBSET (later \ {j})
          /\ k \in ownN => j \in own \/ j \in later
      BY <1>11, <3>1, <3>2, Subsets
    <3> HIDE DEF own, later
    <3>4. /\ Cardinality(own) \in Nat /\ Cardinality(later) \in Nat
          /\ Cardinality(ownN) \in Nat /\ Cardinality(laterN) \in Nat
          /\ ownN \in SUBSET JobIds /\ laterN \in SUBSET JobIds /\ laterN \in SUBSET later
          /\ sent[p][s] \in Nat /\ sent'[p][s] = sent[p][s]
      <4>1. ownN \in SUBSET JobIds /\ laterN \in SUBSET JobIds /\ laterN \in SUBSET later
        BY <3>3
      <4> QED
        BY <1>2, <3>3, <4>1, CountJobs, JobsOfInts
    <3>5. Cardinality(laterN) <= Cardinality(later)
      BY <3>3, <3>4, CountLess
    <3>6. Cardinality(ownN) + Cardinality(laterN) <= Cardinality(own) + Cardinality(later)
      <4>1. CASE j \in own
        <5>1. Cardinality(ownN) <= Cardinality(own)
          BY <3>3, <4>1, CountMoved
        <5> QED
          BY <3>4, <3>5, <5>1
      <4>2. CASE j \in later
        <5>1. Cardinality(laterN) + 1 <= Cardinality(later)
          BY <3>3, <4>2, CountRemoved
        <5>2. ownN \in SUBSET (own \cup {k})
          BY <3>3
        <5>3. Cardinality(ownN) <= Cardinality(own) + 1
          BY <3>3, <5>2, CountAdded
        <5> QED
          BY <3>4, <5>1, <5>3
      <4>3. CASE j \notin own /\ j \notin later
        <5>1. ownN \in SUBSET own
          BY <3>3, <4>3
        <5>2. Cardinality(ownN) <= Cardinality(own)
          BY <3>3, <5>1, CountLess
        <5> QED
          BY <3>4, <3>5, <5>2
      <4> QED
        BY <4>1, <4>2, <4>3
    <3> QED
      BY <3>1, <3>2, <3>4, <3>6 DEF own, later
  <2> QED
    BY <1>2, <1>12, <2>1, <2>2, BudgetKept DEF SendsInv
<1>14. Rooted(p)'
  <2>1. \E i \in JobIds : Starts(i, p)
    BY <1>7 DEF SendsInv, Rooted
  <2>2. \A i \in JobIds : Starts(i, p) => Starts(i, p)'
    BY <1>4, <1>5 DEF Starts
  <2> QED
    BY <1>7, <2>1, <2>2 DEF Rooted
<1>15. Opened(p)'
  BY <1>2 DEF SendsInv, Opened, Adds
<1>16. Quiet(p)'
  BY <1>2, <1>10, <1>12 DEF SendsInv, Quiet
<1>17. ASSUME NEW q \in Pairs, q # p
       PROVE  Budget(q)' /\ Rooted(q)' /\ Opened(q)' /\ Quiet(q)'
  <2>1. Apart(q)
    BY <1>2, <1>3, <1>4, <1>5, <1>17 DEF Apart, List
  <2> QED
    BY <1>2, <2>1, ApartKept DEF Adds
<1> QED
  BY <1>13, <1>14, <1>15, <1>16, <1>17 DEF SendsInv

\* The first job owes one message of each step, and nothing was sent before.
LEMMA SendsFirst ==
  ASSUME IInv, IInv', SendsInv, NEW m \in Moves, AddFirstJob(m)
  PROVE  SendsInv'
<1>1. /\ moves[m].pc = "add" /\ moves' = [moves EXCEPT ![m].pc = moves[m].phase]
      /\ UNCHANGED <<autos, stage, exec, convs, sent, tried, crashes, edits>>
  BY DEF AddFirstJob
<1>2. PICK k \in JobIds :
        /\ IsNext(k)
        /\ jobs' = [jobs EXCEPT ![k] = NewJob(<<moves[m].auto, moves[m].lead>>, 0, "waiting")]
  BY DEF AddFirstJob
<1>3. PICK p \in Pairs : p = <<moves[m].auto, moves[m].lead>>
  BY <1>1, MoveFields DEF IInv, MoveOK, Pairs
<1>4. Adds(m, p) /\ \A n \in Moves : Adds(n, p) => n = m
  BY <1>1, <1>3 DEF IInv, Once, Adds
<1>5. JobsOf(p) = {} /\ exec[p].status = "pending" /\ \A s \in Steps : sent[p][s] = 0
  BY <1>4 DEF SendsInv, Rooted, Opened, IInv, Once
<1>6. jobs[k].of \notin Pairs
  BY <1>2 DEF IInv, JobOK, IsNext
<1>7. /\ jobs'[k].of = p /\ jobs'[k].from = 0 /\ jobs'[k].state = "waiting"
      /\ jobs'[k].attempts = 0 /\ jobs'[k].stalls = 0
      /\ \A i \in JobIds : i # k => jobs'[i] = jobs[i]
  <2> DEFINE new == NewJob(p, 0, "waiting")
  <2>1. /\ new \in Job /\ new.of = p /\ new.from = 0 /\ new.state = "waiting"
        /\ new.attempts = 0 /\ new.stalls = 0
    BY NewJobType
  <2> HIDE DEF new
  <2>2. jobs' = [jobs EXCEPT ![k] = new] /\ jobs \in [JobIds -> Job]
    BY <1>2, <1>3 DEF new, IInv, TypeOK
  <2> QED
    BY <2>1, <2>2
<1>8. \A n \in Moves, q \in Pairs : Adds(n, q)' => Adds(n, q) /\ n # m
  <2>1. moves[m] \in Move /\ moves \in [Moves -> Move]
    BY DEF IInv, TypeOK
  <2>2. moves'[m].pc \in {"stage", "pipeline"} /\ \A n \in Moves : n # m => moves'[n] = moves[n]
    BY <1>1, <2>1 DEF Move
  <2> QED
    BY <2>2 DEF Adds
<1>9. JobsOf(p)' = {k}
  BY <1>5, <1>7 DEF JobsOf
<1>10. Reruns(p)' = Reruns(p) /\ Reruns(p) = {}
  <2>1. \A i \in JobIds : IF jobs[i].of = p
            THEN jobs'[i].of = p /\ jobs'[i].attempts = jobs[i].attempts /\ jobs'[i].stalls = jobs[i].stalls
            ELSE jobs'[i].of = p => jobs'[i].attempts = 0 /\ jobs'[i].stalls = 0
    BY <1>6, <1>7
  <2> QED
    BY <1>5, <2>1, RerunsSame DEF Reruns
<1>11. Budget(p)'
  <2>1. Paid(p)' = 0
    BY <1>10, FS_EmptySet DEF Paid
  <2>2. \A S \in SUBSET {k} : Cardinality(S) <= 1 /\ Cardinality(S) \in Nat
    BY CountOne, CountLess, CountJobs
  <2>3. Live(p)' \subseteq {k}
    BY <1>9 DEF Live
  <2>4. ASSUME NEW s \in Steps
        PROVE  sent'[p][s] + Cardinality(Own(p, s)') + Cardinality(Later(p, s)')
                 <= (1 + Paid(p)') * (1 + edits')
    <3>1. Own(p, s)' \in SUBSET {k} /\ Later(p, s)' = {} /\ sent'[p][s] = 0
      BY <1>1, <1>5, <1>7, <1>9 DEF Own, Later, MayOwe
    <3>2. Cardinality(Later(p, s)') = 0
      BY <3>1, FS_EmptySet
    <3>3. edits' \in Nat
      BY <1>1, JobsOfInts
    <3>4. (1 + Paid(p)') * (1 + edits') = 1 + edits'
      BY <2>1, <3>3
    <3> QED
      BY <2>2, <3>1, <3>2, <3>3, <3>4
  <2> QED
    BY <2>1, <2>2, <2>3, <2>4 DEF Budget
<1>12. Rooted(p)'
  BY <1>7, <1>9 DEF Rooted, Starts
<1>13. Opened(p)' /\ Quiet(p)'
  BY <1>1, <1>5 DEF Opened, Quiet
<1>14. ASSUME NEW q \in Pairs, q # p
       PROVE  Budget(q)' /\ Rooted(q)' /\ Opened(q)' /\ Quiet(q)'
  <2>1. Apart(q)
    BY <1>1, <1>6, <1>7, <1>14 DEF Apart, List
  <2> QED
    BY <1>1, <1>8, <2>1, ApartKept
<1> QED
  BY <1>11, <1>12, <1>13, <1>14 DEF SendsInv

\* Jobs run again are paid for: each adds a pair to Reruns.
LEMMA RerunsGrow ==
  ASSUME IInv, NEW p, NEW T \in SUBSET JobsOf(p),
         \A j \in JobIds : jobs'[j].of = jobs[j].of,
         \A j \in T : /\ jobs[j].state \in Running
                      /\ jobs'[j].attempts + jobs'[j].stalls = jobs[j].attempts + jobs[j].stalls + 1,
         \A j \in JobsOf(p) \ T : jobs'[j].attempts = jobs[j].attempts /\ jobs'[j].stalls = jobs[j].stalls
  PROVE  /\ Reruns(p) \subseteq Reruns(p)'
         /\ T # {} => Reruns(p)' # {}
         /\ \E t \in Nat : Cardinality(T) <= t /\ Paid(p)' = Paid(p) + t
<1> DEFINE N == 1..(MaxAttempts + MaxStalls + 1)
           nth == [j \in T |-> <<j, jobs[j].attempts + jobs[j].stalls + 1>>]
<1>1. \A j \in JobIds : jobs[j].attempts \in Nat /\ jobs[j].stalls \in Nat
  BY JobsOfInts
<1>2. JobsOf(p)' = JobsOf(p) /\ T \in SUBSET JobIds
  BY DEF JobsOf
<1>3. ASSUME NEW j \in T PROVE nth[j] \in JobsOf(p) \X N
  <2>1. jobs[j].state # "unused" /\ jobs[j].state \in {"waiting"} \cup Running
    BY DEF Running
  <2>2. /\ jobs[j].attempts < MaxAttempts /\ jobs[j].stalls <= MaxStalls
        /\ jobs[j].attempts \in Nat /\ jobs[j].stalls \in Nat
    BY <1>2, <2>1, JobFields
  <2>3. jobs[j].attempts + jobs[j].stalls + 1 \in N
    BY <2>2, AutomationAssumption
  <2> HIDE DEF N
  <2> QED
    BY <2>3
<1> HIDE DEF N
<1>4. Reruns(p) = {r \in JobsOf(p) \X N : r[2] <= jobs[r[1]].attempts + jobs[r[1]].stalls}
  BY DEF Reruns, N
<1>5. Reruns(p)' = {r \in JobsOf(p) \X N : r[2] <= jobs'[r[1]].attempts + jobs'[r[1]].stalls}
  BY <1>2 DEF Reruns, N
<1>6. \A r \in JobsOf(p) \X N : r[1] \in JobsOf(p) /\ r[1] \in JobIds /\ r[2] \in Int
  BY DEF N, JobsOf
<1>7. \A j \in JobsOf(p) : jobs[j].attempts + jobs[j].stalls <= jobs'[j].attempts + jobs'[j].stalls
  <2> TAKE j \in JobsOf(p)
  <2>1. jobs[j].attempts \in Nat /\ jobs[j].stalls \in Nat
    BY <1>1 DEF JobsOf
  <2>2. CASE j \in T
    BY <2>1, <2>2
  <2>3. CASE j \notin T
    BY <2>1, <2>3
  <2> QED
    BY <2>2, <2>3
<1>8. Reruns(p) \subseteq Reruns(p)'
  <2> SUFFICES ASSUME NEW r \in Reruns(p) PROVE r \in Reruns(p)'
    OBVIOUS
  <2>1. /\ r \in JobsOf(p) \X N /\ r[1] \in JobsOf(p) /\ r[1] \in JobIds /\ r[2] \in Int
        /\ r[2] <= jobs[r[1]].attempts + jobs[r[1]].stalls
    BY <1>4, <1>6
  <2> DEFINE old == jobs[r[1]].attempts + jobs[r[1]].stalls
             new == jobs'[r[1]].attempts + jobs'[r[1]].stalls
  <2>2. old <= new /\ old \in Nat /\ r[2] <= old
    BY <1>1, <1>7, <2>1
  <2>3. new = old \/ new = old + 1
    BY <2>1
  <2> HIDE DEF old, new
  <2>4. r[2] <= new
    BY <2>1, <2>2, <2>3
  <2> QED
    BY <1>5, <2>1, <2>4 DEF new
<1>9. ASSUME NEW j \in T PROVE nth[j] \in Reruns(p)' /\ nth[j] \notin Reruns(p)
  <2>1. jobs[j].attempts \in Nat /\ jobs[j].stalls \in Nat
    BY <1>1, <1>2
  <2>2. nth[j] = <<j, jobs[j].attempts + jobs[j].stalls + 1>>
    OBVIOUS
  <2>3. jobs'[j].attempts + jobs'[j].stalls = jobs[j].attempts + jobs[j].stalls + 1
    OBVIOUS
  <2> HIDE DEF nth
  <2>4. nth[j] \in Reruns(p)'
    BY <1>3, <1>5, <2>1, <2>2, <2>3
  <2>5. nth[j] \notin Reruns(p)
    BY <1>4, <2>1, <2>2
  <2> QED
    BY <2>4, <2>5
<1>10. PICK more : more = Reruns(p)' \ Reruns(p)
  OBVIOUS
<1>11. nth \in Injection(T, more)
  <2>1. nth \in [T -> more]
    BY <1>9, <1>10
  <2>2. \A i, j \in T : nth[i] = nth[j] => i = j
    OBVIOUS
  <2> HIDE DEF nth
  <2> QED
    BY <2>1, <2>2 DEF Injection, IsInjective
<1>12. IsFiniteSet(Reruns(p)) /\ IsFiniteSet(Reruns(p)')
  BY RerunsFinite
<1>13. IsFiniteSet(more) /\ more \subseteq Reruns(p)'
  BY <1>10, <1>12, FS_Subset
<1>14. Cardinality(T) <= Cardinality(more)
  BY <1>11, <1>13, FS_Injection
<1>15. Reruns(p)' = Reruns(p) \cup more /\ Reruns(p) \cap more = {}
  BY <1>8, <1>10
<1>16. Paid(p)' = Paid(p) + Cardinality(more)
  <2>1. Cardinality(Reruns(p) \cup more) = Cardinality(Reruns(p)) + Cardinality(more) - 0
    BY <1>12, <1>13, <1>15, FS_Union, FS_EmptySet
  <2>2. Cardinality(Reruns(p)) \in Nat /\ Cardinality(more) \in Nat
    BY <1>12, <1>13, FS_CardinalityType
  <2> QED
    BY <1>15, <2>1, <2>2 DEF Paid
<1>17. Cardinality(more) \in Nat
  BY <1>13, FS_CardinalityType
<1>18. T # {} => Reruns(p)' # {}
  BY <1>9
<1> QED
  BY <1>8, <1>14, <1>16, <1>17, <1>18

\* Some jobs of any executions are run again.
RunsAgain(k) == jobs[k].state \in Running /\ jobs'[k] \in {Retry(jobs[k]), Stall(jobs[k])}

LEMMA AgainFields ==
  ASSUME IInv, NEW k \in JobIds, RunsAgain(k)
  PROVE  /\ jobs'[k].of = jobs[k].of /\ jobs'[k].from = jobs[k].from
         /\ jobs'[k].state \in {"waiting", "failed"}
         /\ jobs'[k].attempts + jobs'[k].stalls = jobs[k].attempts + jobs[k].stalls + 1
<1> DEFINE job == jobs[k]
<1>1. job \in Job /\ job.attempts \in Nat /\ job.stalls \in Nat
  BY JobsOfInts
<1>2. jobs'[k] \in {Retry(job), Stall(job)}
  BY DEF RunsAgain
<1> HIDE DEF job
<1>3. \A r \in {Retry(job), Stall(job)} :
         /\ r.of = job.of /\ r.from = job.from /\ r.state \in {"waiting", "failed"}
         /\ r.attempts + r.stalls = job.attempts + job.stalls + 1
  <2>1. PICK state \in {"waiting", "failed"} :
          Retry(job) = [job EXCEPT !.state = state, !.attempts = @ + 1]
    BY DEF Retry
  <2>2. PICK state2 \in {"waiting", "failed"} :
          Stall(job) = [job EXCEPT !.state = state2, !.stalls = @ + 1]
    BY DEF Stall
  <2>3. ASSUME NEW r, r = Retry(job)
        PROVE  /\ r.of = job.of /\ r.from = job.from /\ r.state \in {"waiting", "failed"}
               /\ r.attempts + r.stalls = job.attempts + job.stalls + 1
    BY <1>1, <2>1, <2>3 DEF Job
  <2>4. ASSUME NEW r, r = Stall(job)
        PROVE  /\ r.of = job.of /\ r.from = job.from /\ r.state \in {"waiting", "failed"}
               /\ r.attempts + r.stalls = job.attempts + job.stalls + 1
    BY <1>1, <2>2, <2>4 DEF Job
  <2> QED
    BY <2>3, <2>4
<1> QED
  BY <1>2, <1>3 DEF job

LEMMA SendsAgain ==
  ASSUME IInv, IInv', SendsInv, NEW p \in Pairs,
         \A k \in JobIds : jobs'[k] = jobs[k] \/ RunsAgain(k),
         UNCHANGED <<autos, exec, sent, edits>>,
         \A m \in Moves : Adds(m, p)' => Adds(m, p)
  PROVE  Budget(p)' /\ Rooted(p)' /\ Opened(p)' /\ Quiet(p)'
<1> DEFINE T == {k \in JobsOf(p) : RunsAgain(k)}
<1>1. \A k \in JobIds : jobs'[k].of = jobs[k].of /\ jobs'[k].from = jobs[k].from
  BY AgainFields
<1>2. JobsOf(p)' = JobsOf(p) /\ JobsOf(p) \subseteq JobIds
  BY <1>1 DEF JobsOf
<1>3. /\ T \in SUBSET JobsOf(p) /\ T \in SUBSET JobIds
      /\ \A k \in T : /\ jobs[k].state \in Running /\ jobs'[k].state \in {"waiting", "failed"}
                      /\ jobs'[k].attempts + jobs'[k].stalls = jobs[k].attempts + jobs[k].stalls + 1
      /\ \A k \in JobsOf(p) \ T : k \in JobIds /\ jobs'[k] = jobs[k]
  BY <1>2, AgainFields DEF RunsAgain
<1> HIDE DEF T
<1>4. /\ Reruns(p) \subseteq Reruns(p)'
      /\ T # {} => Reruns(p)' # {}
      /\ \E t \in Nat : Cardinality(T) <= t /\ Paid(p)' = Paid(p) + t
  BY <1>1, <1>3, RerunsGrow
<1>5. \A k \in JobsOf(p) \ T :
          IsLive(k)' = IsLive(k) /\ \A s : Owes(k, s)' = Owes(k, s) /\ MayOwe(k, s)' = MayOwe(k, s)
  BY <1>3 DEF IsLive, Owes, MayOwe, List
<1>6. \A k \in T : \A s : ~(MayOwe(k, s)')
  BY <1>3 DEF MayOwe
<1>7. /\ Live(p)' \in SUBSET (Live(p) \cup T)
      /\ \A s : Own(p, s)' \in SUBSET (Own(p, s) \cup T) /\ Later(p, s)' \in SUBSET Later(p, s)
  BY <1>2, <1>5, <1>6 DEF Live, Own, Later
<1>8. Budget(p)'
  <2>1. PICK t \in Nat : Cardinality(T) <= t /\ Paid(p)' = Paid(p) + t
    BY <1>4
  <2>2. Paid(p) \in Nat /\ Cardinality(T) \in Nat /\ edits \in Nat
    BY <1>3, RerunsFinite, CountJobs, JobsOfInts
  <2>3. Cardinality(Live(p)') <= 1 + Paid(p)'
    <3>1. Cardinality(Live(p)') <= Cardinality(Live(p)) + Cardinality(T)
      BY <1>3, <1>7, CountUnion, Subsets
    <3>2. Cardinality(Live(p)') \in Nat /\ Cardinality(Live(p)) \in Nat
      BY CountJobs, Subsets
    <3>3. Cardinality(Live(p)) <= 1 + Paid(p)
      BY DEF SendsInv, Budget
    <3> QED
      BY <2>1, <2>2, <3>1, <3>2, <3>3
  <2>4. ASSUME NEW s \in Steps
        PROVE  sent'[p][s] + Cardinality(Own(p, s)') + Cardinality(Later(p, s)')
                 <= (1 + Paid(p)') * (1 + edits')
    <3>1. /\ Cardinality(Own(p, s)) \in Nat /\ Cardinality(Later(p, s)) \in Nat
          /\ Cardinality(Own(p, s)') \in Nat /\ Cardinality(Later(p, s)') \in Nat
          /\ sent[p][s] \in Nat /\ sent'[p][s] = sent[p][s]
      BY CountJobs, Subsets, JobsOfInts
    <3>2. Cardinality(Own(p, s)') <= Cardinality(Own(p, s)) + Cardinality(T)
      BY <1>3, <1>7, CountUnion, Subsets
    <3>3. Cardinality(Later(p, s)') <= Cardinality(Later(p, s))
      BY <1>7, CountLess, Subsets
    <3> DEFINE all == (1 + Paid(p)) * (1 + edits)
               allN == (1 + (Paid(p) + t)) * (1 + edits)
    <3>4. all \in Nat /\ all + t <= allN
      BY <2>2, Products
    <3>5. sent[p][s] + Cardinality(Own(p, s)) + Cardinality(Later(p, s)) <= all
      BY DEF SendsInv, Budget
    <3>6. allN = (1 + Paid(p)') * (1 + edits') /\ allN \in Nat
      <4>1. Paid(p) + t \in Nat
        BY <2>1, <2>2
      <4>2. allN \in Nat
        BY <2>2, <4>1, Products
      <4> QED
        BY <2>1, <4>2
    <3> HIDE DEF all, allN
    <3>7. sent'[p][s] + Cardinality(Own(p, s)') + Cardinality(Later(p, s)') <= allN
      BY <2>1, <2>2, <3>1, <3>2, <3>3, <3>4, <3>5, <3>6
    <3> QED
      BY <3>6, <3>7
  <2> QED
    BY <2>3, <2>4 DEF Budget
<1>9. Rooted(p)'
  BY <1>1, <1>2 DEF SendsInv, Rooted, Starts
<1>10. Opened(p)'
  BY DEF SendsInv, Opened
<1>11. Quiet(p)'
  BY <1>4, <1>7 DEF SendsInv, Quiet
<1> QED
  BY <1>8, <1>9, <1>10, <1>11

LEMMA SendsFail == ASSUME IInv, IInv', SendsInv, NEW j \in JobIds, FailJob(j) PROVE SendsInv'
<1>1. /\ jobs' = [jobs EXCEPT ![j] = Retry(jobs[j])] /\ jobs[j].state \in Running
      /\ UNCHANGED <<autos, moves, exec, sent, edits>>
  BY DEF FailJob, Throws, At, Running
<1>2. \A k \in JobIds : jobs'[k] = jobs[k] \/ RunsAgain(k)
  BY <1>1, JobsOfInts DEF RunsAgain
<1> QED
  BY <1>1, <1>2, SendsAgain DEF SendsInv, Adds

LEMMA SendsCrash == ASSUME IInv, IInv', SendsInv, Crash PROVE SendsInv'
<1>1. UNCHANGED <<autos, exec, sent, edits>>
  BY DEF Crash
<1>2. \A k \in JobIds : jobs'[k] = jobs[k] \/ RunsAgain(k)
  BY DEF Crash, RunsAgain
<1>3. \A m \in Moves : moves'[m].pc \in {"idle", "done"}
  BY DEF Crash, Ended, MoveAt
<1>4. \A m \in Moves, p \in Pairs : ~(Adds(m, p)')
  BY <1>3 DEF Adds
<1> QED
  BY <1>1, <1>2, <1>4, SendsAgain DEF SendsInv

\* A new list: waiting jobs will take it, jobs at the old one may leave the rest
\* of it to a continuation.
LEMMA SendsEdit ==
  ASSUME IInv, IInv', SendsInv, NEW a \in Autos, EditAutomation(a)
  PROVE  SendsInv'
<1>1. UNCHANGED <<stage, moves, exec, jobs, sent>> /\ edits' = edits + 1
  BY DEF EditAutomation
<1>2. ASSUME NEW p \in Pairs PROVE Budget(p)'
  <2> DEFINE W == {j \in Live(p) : jobs[j].state = "waiting"}
             R == Live(p) \ W
  <2>1. JobsOf(p)' = JobsOf(p) /\ Live(p)' = Live(p) /\ Reruns(p)' = Reruns(p)
    BY <1>1 DEF JobsOf, Live, IsLive, Reruns
  <2>2. \A s : Own(p, s)' \subseteq Own(p, s) \cup W /\ Later(p, s)' \subseteq R
    <3>1. \A j \in JobsOf(p) : jobs[j].state # "waiting" => \A s : Owes(j, s)' = Owes(j, s)
      BY <1>1 DEF Owes
    <3>2. \A j \in JobsOf(p) : \A s : Owes(j, s)' => IsLive(j)
      BY <1>1 DEF Owes, IsLive
    <3>3. \A j \in JobsOf(p) : \A s : MayOwe(j, s)' => IsLive(j) /\ jobs[j].state # "waiting"
      BY <1>1 DEF MayOwe, IsLive
    <3> QED
      BY <2>1, <3>1, <3>2, <3>3 DEF Own, Later, Live
  <2>3. /\ W \in SUBSET JobIds /\ R \in SUBSET JobIds
        /\ Live(p) = W \cup R /\ W \cap R = {}
    BY Subsets
  <2> HIDE DEF W, R
  <2>4. Cardinality(W) \in Nat /\ Cardinality(R) \in Nat /\ Cardinality(W) + Cardinality(R) = Cardinality(Live(p))
    <3>1. Cardinality(W \cup R) = Cardinality(W) + Cardinality(R) - 0
      BY <2>3, CountJobs, FS_Union, FS_EmptySet, ZenonT(60)
    <3> QED
      BY <2>3, <3>1, CountJobs
  <2>5. Paid(p)' = Paid(p) /\ Paid(p) \in Nat /\ edits \in Nat /\ Cardinality(Live(p)) <= 1 + Paid(p)
    BY <2>1, RerunsFinite, JobsOfInts DEF Paid, SendsInv, Budget
  <2>6. ASSUME NEW s \in Steps
        PROVE  sent'[p][s] + Cardinality(Own(p, s)') + Cardinality(Later(p, s)')
                 <= (1 + Paid(p)') * (1 + edits')
    <3>1. /\ Cardinality(Own(p, s)) \in Nat /\ Cardinality(Later(p, s)) \in Nat
          /\ Cardinality(Own(p, s)') \in Nat /\ Cardinality(Later(p, s)') \in Nat
          /\ sent[p][s] \in Nat /\ sent'[p][s] = sent[p][s]
      BY <1>1, CountJobs, Subsets, JobsOfInts
    <3>2. Cardinality(Own(p, s)') <= Cardinality(Own(p, s)) + Cardinality(W)
      BY <2>2, <2>3, CountUnion, Subsets
    <3>3. Cardinality(Later(p, s)') <= Cardinality(R)
      BY <2>2, <2>3, CountLess
    <3> DEFINE all == (1 + Paid(p)) * (1 + edits)
               allN == (1 + Paid(p)) * (1 + (edits + 1))
    <3>4. all \in Nat /\ allN = all + (1 + Paid(p))
      BY <2>5, Products
    <3>5. sent[p][s] + Cardinality(Own(p, s)) + Cardinality(Later(p, s)) <= all
      BY DEF SendsInv, Budget
    <3>6. allN = (1 + Paid(p)') * (1 + edits')
      BY <1>1, <2>5
    <3> HIDE DEF all, allN
    <3>7. sent'[p][s] + Cardinality(Own(p, s)') + Cardinality(Later(p, s)') <= allN
      BY <2>4, <2>5, <3>1, <3>2, <3>3, <3>4, <3>5
    <3> QED
      BY <3>6, <3>7
  <2> QED
    BY <2>1, <2>5, <2>6 DEF Budget
<1>3. ASSUME NEW p \in Pairs PROVE Rooted(p)' /\ Opened(p)' /\ Quiet(p)'
  <2>1. JobsOf(p)' = JobsOf(p) /\ Live(p)' = Live(p) /\ Reruns(p)' = Reruns(p)
    BY <1>1 DEF JobsOf, Live, IsLive, Reruns
  <2> QED
    BY <1>1, <2>1 DEF SendsInv, Rooted, Opened, Quiet, Starts, Adds
<1> QED
  BY <1>2, <1>3 DEF SendsInv

\* Steps that leave jobs and lists alone.
LEMMA SendsAside ==
  ASSUME IInv, IInv', SendsInv, UNCHANGED <<autos, jobs, sent, edits>>,
         \A p \in Pairs :
            \/ exec'[p] = exec[p] /\ \A m \in Moves : Adds(m, p)' => Adds(m, p)
            \/ exec'[p] = [status |-> "pending", position |-> 0]
  PROVE  SendsInv'
<1> SUFFICES ASSUME NEW p \in Pairs PROVE Budget(p)' /\ Rooted(p)' /\ Opened(p)' /\ Quiet(p)'
  BY DEF SendsInv
<1>1. Apart(p)
  BY DEF Apart, List
<1>2. Budget(p)' /\ Rooted(p)' /\ Live(p)' = Live(p) /\ Reruns(p)' = Reruns(p)
  BY <1>1, BudgetApart DEF SendsInv
<1>3. CASE exec'[p] = exec[p] /\ \A m \in Moves : Adds(m, p)' => Adds(m, p)
  BY <1>1, <1>3, ApartKept
<1>4. CASE exec'[p] = [status |-> "pending", position |-> 0]
  <2>1. exec'[p].status = "pending"
    BY <1>4
  <2> QED
    BY <1>2, <2>1 DEF Opened, Quiet
<1> QED
  BY <1>3, <1>4

LEMMA SendsMoving ==
  ASSUME IInv, IInv', SendsInv, NEW m \in Moves,
         \/ \E l \in Leads, s \in Stages : StartMove(m, l, s)
         \/ WriteMove(m) \/ FindStageTriggers(m) \/ FindPipelineTriggers(m) \/ EndTriggers(m)
         \/ \E a \in Autos : InsertExecution(m, a)
  PROVE  SendsInv'
<1>1. UNCHANGED <<autos, jobs, sent, edits>>
  BY DEF StartMove, WriteMove, FindStageTriggers, FindPipelineTriggers, EndTriggers, InsertExecution
<1>2. moves \in [Moves -> Move] /\ moves[m] \in Move
      /\ exec \in [Pairs -> Exec \cup {NoExec}]
  BY DEF IInv, TypeOK
<1>3. CASE exec' = exec /\ moves'[m].pc # "add" /\ \A n \in Moves : n # m => moves'[n] = moves[n]
  BY <1>1, <1>3, SendsAside DEF Adds
<1>4. CASE \E l \in Leads, s \in Stages : StartMove(m, l, s)
  BY <1>2, <1>3, <1>4 DEF StartMove, MoveAt
<1>5. CASE WriteMove(m) \/ FindStageTriggers(m)
  BY <1>2, <1>3, <1>5 DEF WriteMove, FindStageTriggers, Move
<1>6. CASE FindPipelineTriggers(m) \/ EndTriggers(m)
  <2>1. Ended.pc = "done"
    BY DEF Ended, MoveAt
  <2>2. \/ moves' = [moves EXCEPT ![m] = Ended]
        \/ \E todo : moves' = [moves EXCEPT ![m] =
              [moves[m] EXCEPT !.pc = "pipeline", !.phase = "pipeline", !.todo = todo]]
    BY <1>2, <1>6 DEF FindPipelineTriggers, EndTriggers
  <2>3. moves'[m].pc # "add" /\ \A n \in Moves : n # m => moves'[n] = moves[n]
    BY <1>2, <2>1, <2>2, ZenonT(60) DEF Move
  <2> QED
    BY <1>3, <1>6, <2>3 DEF FindPipelineTriggers, EndTriggers
<1>7. ASSUME NEW a \in Autos, InsertExecution(m, a) PROVE SendsInv'
  <2>1. CASE exec' = exec /\ moves' = [moves EXCEPT ![m].todo = @ \ {a}]
    <3>1. moves[m].pc \in {"stage", "pipeline"}
      BY <1>7 DEF InsertExecution
    <3>2. moves'[m].pc # "add" /\ \A n \in Moves : n # m => moves'[n] = moves[n]
      BY <1>2, <2>1, <3>1 DEF Move
    <3> QED
      BY <1>3, <2>1, <3>2
  <2>2. CASE /\ exec' = [exec EXCEPT ![<<a, moves[m].lead>>] = [status |-> "pending", position |-> 0]]
             /\ moves' = [moves EXCEPT ![m].pc = "add", ![m].todo = @ \ {a}, ![m].auto = a]
    <3>1. /\ moves'[m].auto = a /\ moves'[m].lead = moves[m].lead
          /\ \A n \in Moves : n # m => moves'[n] = moves[n]
      BY <1>2, <2>2 DEF Move
    <3>2. ASSUME NEW p \in Pairs
          PROVE  \/ exec'[p] = exec[p] /\ \A n \in Moves : Adds(n, p)' => Adds(n, p)
                 \/ exec'[p] = [status |-> "pending", position |-> 0]
      <4>1. CASE p = <<a, moves[m].lead>>
        BY <1>2, <2>2, <4>1
      <4>2. CASE p # <<a, moves[m].lead>>
        BY <1>2, <2>2, <3>1, <4>2 DEF Adds
      <4> QED
        BY <4>1, <4>2
    <3> QED
      BY <1>1, <3>2, SendsAside
  <2> QED
    BY <1>7, <2>1, <2>2 DEF InsertExecution
<1> QED
  BY <1>4, <1>5, <1>6, <1>7

LEMMA InitSends == Init => SendsInv
<1> SUFFICES ASSUME Init, NEW p \in Pairs PROVE Budget(p) /\ Rooted(p) /\ Opened(p) /\ Quiet(p)
  BY DEF SendsInv
<1>1. JobsOf(p) = {}
  BY NoPair DEF Init, JobsOf, NewJob
<1>2. Live(p) = {} /\ Reruns(p) = {} /\ \A s : Own(p, s) = {} /\ Later(p, s) = {}
  BY <1>1 DEF Live, Reruns, Own, Later
<1>3. edits = 0 /\ exec[p] = NoExec /\ \A s \in Steps : sent[p][s] = 0
  BY DEF Init
<1>4. Budget(p)
  BY <1>2, <1>3, FS_EmptySet DEF Budget, Paid
<1>5. Rooted(p) /\ Quiet(p)
  BY <1>1, <1>3 DEF Rooted, Quiet
<1>6. \A m \in Moves : moves[m].pc = "idle"
  BY DEF Init, MoveAt
<1> QED
  BY <1>4, <1>5, <1>6 DEF Opened, Adds

LEMMA NextSends == IInv /\ SendsInv /\ [Next]_vars => SendsInv'
<1> SUFFICES ASSUME IInv, SendsInv, [Next]_vars PROVE SendsInv'
  OBVIOUS
<1>1. IInv'
  BY NextIInv
<1>2. CASE \E m \in Moves, l \in Leads, s \in Stages : StartMove(m, l, s)
  BY <1>1, <1>2, SendsMoving
<1>3. ASSUME NEW m \in Moves, Moving(m) PROVE SendsInv'
  BY <1>1, <1>3, SendsMoving, SendsFirst DEF Moving
<1>4. ASSUME NEW j \in JobIds, Work(j) PROVE SendsInv'
  BY <1>1, <1>4, SendsTake, SendsRunning, SendsContinue, SendsFail DEF Work
<1>5. CASE Crash
  BY <1>1, <1>5, SendsCrash
<1>6. CASE \E a \in Autos : EditAutomation(a)
  BY <1>1, <1>6, SendsEdit
<1>7. CASE (\E ph \in Phones : ReceiveInbound(ph)) \/ UNCHANGED vars
  <2>1. UNCHANGED <<autos, moves, exec, jobs, sent, edits>>
    BY <1>7 DEF ReceiveInbound, vars
  <2> QED
    BY <1>1, <2>1, SendsAside DEF Adds
<1> QED
  BY <1>2, <1>3, <1>4, <1>5, <1>6, <1>7 DEF Next

\* Retries, restarts and continuations added twice repeat messages, but never
\* more than the reruns of an execution's jobs and the edits of its automation
\* account for.
THEOREM SendsAccountedFor == Spec => []SendsExplained
<1>1. IInv /\ SendsInv => SendsExplained
  <2> SUFFICES ASSUME IInv, SendsInv, NEW p \in Pairs, NEW s \in Steps
               PROVE  sent[p][s] <= (1 + Paid(p)) * (1 + edits)
    BY DEF SendsExplained, Paid
  <2>1. /\ Cardinality(Own(p, s)) \in Nat /\ Cardinality(Later(p, s)) \in Nat
        /\ sent[p][s] \in Nat
    BY CountJobs, Subsets, JobsOfInts
  <2> DEFINE all == (1 + Paid(p)) * (1 + edits)
  <2>2. all \in Nat /\ sent[p][s] + Cardinality(Own(p, s)) + Cardinality(Later(p, s)) <= all
    BY RerunsFinite, Products, JobsOfInts DEF SendsInv, Budget
  <2> HIDE DEF all
  <2>3. sent[p][s] <= all
    BY <2>1, <2>2
  <2> QED
    BY <2>3 DEF all
<1> QED
  BY <1>1, InitSends, NextSends, InitIInv, NextIInv, PTL DEF Spec

\* Once the row of an execution says filtered or completed, no worker sends for
\* it any more, unless one of its jobs was run again.
THEOREM EndIsSilent == Spec => SilentAfterEnd
<1>1. ASSUME IInv, SendsInv, [Next]_vars, NEW p \in Pairs,
             exec[p] # NoExec, exec[p].status # "pending", Reruns(p) = {}
      PROVE  sent'[p] = sent[p]
  <2>1. \A j \in JobsOf(p) : jobs[j].state # "send"
    BY <1>1 DEF SendsInv, Quiet, Live, IsLive
  <2>2. ASSUME NEW j \in JobIds, CallProvider(j) PROVE sent'[p] = sent[p]
    <3>1. jobs[j].of # p
      BY <2>1, <2>2 DEF CallProvider, JobsOf
    <3> QED
      BY <1>1, <2>2, <3>1 DEF CallProvider, IInv, TypeOK
  <2>3. CASE UNCHANGED sent
    BY <2>3
  <2> QED
    BY <1>1, <2>2, <2>3 DEF Next, Moving, Work, StartMove, WriteMove, FindStageTriggers,
         FindPipelineTriggers, EndTriggers, InsertExecution, AddFirstJob, TakeJob, AccumulateWait,
         AddContinuation, RecordPosition, PassFilter, StopAtFilter, Complete, SkipSend,
         FindConversation, SaveMessage, FailJob, Crash, EditAutomation, ReceiveInbound, vars
<1>2. IInv /\ SendsInv /\ [Next]_vars
        => [\A p \in Pairs :
              exec[p] # NoExec /\ exec[p].status # "pending" /\ Reruns(p) = {}
                => sent'[p] = sent[p]]_vars
  BY <1>1
<1> QED
  BY <1>2, InitSends, NextSends, InitIInv, NextIInv, PTL DEF Spec, SilentAfterEnd
==============================================================================
