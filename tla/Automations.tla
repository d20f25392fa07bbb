---------------------------- MODULE Automations -----------------------------
(***************************************************************************)
(* Automations: moving a lead (LeadsService.move) emits an event whose       *)
(* listener (AutomationTriggerListener) starts the active automations of the *)
(* stage or pipeline the lead entered; a queue job (AutomationProcessor)     *)
(* runs their steps until a wait, and leaves the rest to a further, delayed  *)
(* job.                                                                      *)
(*                                                                          *)
(* A job that throws or whose worker dies is run again from the position it  *)
(* was added with, and an automation may be edited while leads wait in it.   *)
(***************************************************************************)
EXTENDS Integers, Sequences, FiniteSets

CONSTANTS
    Autos, Leads, Moves,   \* automations, leads, requests that move a lead
    Stages, pipelineOf,    \* stages and the pipeline of each
    trigger,               \* the stage or the pipeline that starts an automation
    Phones, phone,         \* the phone of a lead's contact, or NoPhone
    Steps, kind,           \* steps and their kinds
    StepLists,             \* the step lists an owner may save (sorted by position)
    MaxJobs,               \* bound: jobs ever added to the queue
    MaxWorkers,            \* jobs run at a time: one per instance
    MaxAttempts,           \* attempts of a job (3 in the code)
    MaxStalls,             \* times BullMQ restarts a job whose worker died (1)
    MaxCrashes, MaxEdits,  \* bounds: crashes, edits of an automation
    NoExec, NoConv, Unqualified, NoPhone, NoStage, NoAuto, NoLead

JobIds == 1..MaxJobs
Pairs == Autos \X Leads
Kinds == {"wait", "nowait", "filter", "send"}
ExecStatus == {"pending", "completed", "filtered"}
Running == {"run", "send", "save", "relay"}
JobState == {"unused", "waiting", "completed", "failed"} \cup Running
MovePC == {"idle", "read", "written", "stage", "pipeline", "add", "done"}

ASSUME AutomationAssumption ==
    /\ pipelineOf \in [Stages -> Nat]
    /\ trigger \in [Autos -> [type : {"stage"}, at : Stages] \cup [type : {"pipeline"}, at : Nat]]
    /\ phone \in [Leads -> Phones \cup {NoPhone}]
    /\ kind \in [Steps -> Kinds]
    /\ StepLists \subseteq Seq(Steps)
    /\ \A list \in StepLists : \A i, k \in DOMAIN list : list[i] = list[k] => i = k
    /\ MaxJobs \in Nat /\ MaxWorkers \in Nat /\ MaxStalls \in Nat
    /\ MaxAttempts \in Nat \ {0} /\ MaxCrashes \in Nat /\ MaxEdits \in Nat
    /\ NoConv \notin Leads /\ Unqualified \notin Leads /\ NoConv # Unqualified
    /\ NoPhone \notin Phones /\ NoStage \notin Stages
    /\ NoAuto \notin Autos /\ NoLead \notin Leads

Exec == [status : ExecStatus, position : Nat]

ASSUME NoExecAssumption == NoExec \notin Exec

Job == [of : Pairs \cup {<<NoAuto, NoLead>>}, from : Nat, state : JobState,
        at : Nat, delay : BOOLEAN, steps : StepLists \cup {<<>>},
        attempts : 0..MaxAttempts, stalls : 0..(MaxStalls + 1)]

Move == [pc : MovePC, phase : {"stage", "pipeline"}, lead : Leads \cup {NoLead},
         prev : Stages \cup {NoStage}, to : Stages \cup {NoStage},
         todo : SUBSET Autos, auto : Autos \cup {NoAuto}]

VARIABLES
    autos,    \* the automations table: active flag and steps
    stage,    \* the stage of each lead
    moves,    \* each move request and the listener it starts
    exec,     \* the automation_executions table
    jobs,     \* the queue and the workers' positions
    convs,    \* the conversation of a phone: its lead, or unqualified
    sent,     \* messages the provider accepted, per execution and step
    tried,    \* steps whose send was answered and recorded, per execution
    crashes, edits

vars == <<autos, stage, moves, exec, jobs, convs, sent, tried, crashes, edits>>

TypeOK ==
    /\ autos \in [Autos -> [active : BOOLEAN, steps : StepLists]]
    /\ stage \in [Leads -> Stages]
    /\ moves \in [Moves -> Move]
    /\ exec \in [Pairs -> Exec \cup {NoExec}]
    /\ jobs \in [JobIds -> Job]
    /\ convs \in [Phones -> Leads \cup {NoConv, Unqualified}]
    /\ sent \in [Pairs -> [Steps -> Nat]]
    /\ tried \in [Pairs -> SUBSET Steps]
    /\ crashes \in 0..MaxCrashes
    /\ edits \in 0..MaxEdits

MoveAt(pc, lead, prev, to) ==
    [pc |-> pc, phase |-> "stage", lead |-> lead, prev |-> prev, to |-> to,
     todo |-> {}, auto |-> NoAuto]
Ended == MoveAt("done", NoLead, NoStage, NoStage)

NewJob(p, position, state) ==
    [of |-> p, from |-> position, state |-> state, at |-> position, delay |-> FALSE,
     steps |-> <<>>, attempts |-> 0, stalls |-> 0]

Init ==
    /\ autos \in [Autos -> [active : {TRUE}, steps : StepLists]]
    /\ stage \in [Leads -> Stages]
    /\ moves = [m \in Moves |-> MoveAt("idle", NoLead, NoStage, NoStage)]
    /\ exec = [p \in Pairs |-> NoExec]
    /\ jobs = [j \in JobIds |-> NewJob(<<NoAuto, NoLead>>, 0, "unused")]
    /\ convs \in [Phones -> {NoConv, Unqualified}]
    /\ sent = [p \in Pairs |-> [s \in Steps |-> 0]]
    /\ tried = [p \in Pairs |-> {}]
    /\ crashes = 0
    /\ edits = 0

\* queue.add: the job gets an id never used before.
IsNext(j) == jobs[j].state = "unused" /\ \A k \in JobIds : k < j => jobs[k].state # "unused"

-----------------------------------------------------------------------------
\* PATCH /leads/:id/move.

StartMove(m, l, s) ==
    /\ moves[m].pc = "idle"
    /\ moves' = [moves EXCEPT ![m] = MoveAt("read", l, stage[l], s)]
    /\ UNCHANGED <<autos, stage, exec, jobs, convs, sent, tried, crashes, edits>>

WriteMove(m) ==
    /\ moves[m].pc = "read"
    /\ stage' = [stage EXCEPT ![moves[m].lead] = moves[m].to]
    /\ moves' = [moves EXCEPT ![m].pc = "written"]
    /\ UNCHANGED <<autos, exec, jobs, convs, sent, tried, crashes, edits>>

-----------------------------------------------------------------------------
\* The listener of lead.moved.

Active(type, at) == {a \in Autos : autos[a].active /\ trigger[a] = [type |-> type, at |-> at]}

FindStageTriggers(m) ==
    /\ moves[m].pc = "written"
    /\ moves' = [moves EXCEPT ![m].pc = "stage", ![m].todo = Active("stage", moves[m].to)]
    /\ UNCHANGED <<autos, stage, exec, jobs, convs, sent, tried, crashes, edits>>

\* The pipeline's automations follow only when the move changed the pipeline.
ChangesPipeline(m) == pipelineOf[moves[m].prev] # pipelineOf[moves[m].to]

FindPipelineTriggers(m) ==
    /\ moves[m].pc = "stage" /\ moves[m].todo = {}
    /\ moves' = [moves EXCEPT ![m] =
          IF ChangesPipeline(m)
          THEN [@ EXCEPT !.pc = "pipeline", !.phase = "pipeline",
                         !.todo = Active("pipeline", pipelineOf[moves[m].to])]
          ELSE Ended]
    /\ UNCHANGED <<autos, stage, exec, jobs, convs, sent, tried, crashes, edits>>

EndTriggers(m) ==
    /\ moves[m].pc = "pipeline" /\ moves[m].todo = {}
    /\ moves' = [moves EXCEPT ![m] = Ended]
    /\ UNCHANGED <<autos, stage, exec, jobs, convs, sent, tried, crashes, edits>>

\* Mutated form of InsertExecution: a second execution is started all the same.
InsertExecution_Always(m, a) ==
    /\ moves[m].pc \in {"stage", "pipeline"} /\ a \in moves[m].todo
    /\ exec' = [exec EXCEPT ![<<a, moves[m].lead>>] = [status |-> "pending", position |-> 0]]
    /\ moves' = [moves EXCEPT ![m].pc = "add", ![m].todo = @ \ {a}, ![m].auto = a]
    /\ UNCHANGED <<autos, stage, jobs, convs, sent, tried, crashes, edits>>

\* enqueue: UNIQUE (automationId, leadId) lets an automation start once for a
\* lead; a refused insert is skipped.
InsertExecution(m, a) ==
    /\ moves[m].pc \in {"stage", "pipeline"} /\ a \in moves[m].todo
    /\ LET p == <<a, moves[m].lead>> IN
       \/ /\ exec[p] = NoExec
          /\ exec' = [exec EXCEPT ![p] = [status |-> "pending", position |-> 0]]
          /\ moves' = [moves EXCEPT ![m].pc = "add", ![m].todo = @ \ {a}, ![m].auto = a]
       \/ /\ exec[p] # NoExec
          /\ moves' = [moves EXCEPT ![m].todo = @ \ {a}]
          /\ UNCHANGED exec
    /\ UNCHANGED <<autos, stage, jobs, convs, sent, tried, crashes, edits>>

AddFirstJob(m) ==
    /\ moves[m].pc = "add"
    /\ \E j \in JobIds :
         /\ IsNext(j)
         /\ jobs' = [jobs EXCEPT ![j] = NewJob(<<moves[m].auto, moves[m].lead>>, 0, "waiting")]
    /\ moves' = [moves EXCEPT ![m].pc = moves[m].phase]
    /\ UNCHANGED <<autos, stage, exec, convs, sent, tried, crashes, edits>>

-----------------------------------------------------------------------------
\* AutomationProcessor.

AutoOf(j) == jobs[j].of[1]
LeadOf(j) == jobs[j].of[2]

\* The automation and its steps are read once; an inactive one ends the job
\* and leaves the execution pending.
TakeJob(j) ==
    /\ jobs[j].state = "waiting"
    /\ Cardinality({k \in JobIds : jobs[k].state \in Running}) < MaxWorkers
    /\ LET a == AutoOf(j) IN
       jobs' = [jobs EXCEPT ![j] =
          IF autos[a].active
          THEN [@ EXCEPT !.state = "run", !.at = jobs[j].from, !.delay = FALSE,
                         !.steps = autos[a].steps]
          ELSE [@ EXCEPT !.state = "completed", !.steps = <<>>]]
    /\ UNCHANGED <<autos, stage, moves, exec, convs, sent, tried, crashes, edits>>

More(j) == jobs[j].at < Len(jobs[j].steps)
Step(j) == jobs[j].steps[jobs[j].at + 1]
At(j, kinds) == jobs[j].state = "run" /\ More(j) /\ kind[Step(j)] \in kinds

\* Mutated form of SetExec: only a completed execution is stored.
SetExec_OnlyCompleted(p, status, position) ==
    exec' = [exec EXCEPT ![p] = IF status = "filtered" THEN @
                                ELSE [status |-> status, position |-> position]]

\* exec.update.
SetExec(p, status, position) ==
    exec' = [exec EXCEPT ![p] = [status |-> status, position |-> position]]

\* A wait of zero length is none.
AccumulateWait(j) ==
    /\ At(j, {"wait", "nowait"})
    /\ jobs' = [jobs EXCEPT ![j].at = @ + 1, ![j].delay = @ \/ kind[Step(j)] = "wait"]
    /\ UNCHANGED <<autos, stage, moves, exec, convs, sent, tried, crashes, edits>>

\* Mutated forms of AddContinuation: the job goes on with the steps it has
\* just left to a later one; the step after the wait is skipped; the position
\* is left out, and the automation starts again.
AddContinuation_GoesOn(j) ==
    /\ At(j, {"filter", "send"}) /\ jobs[j].delay
    /\ \E k \in JobIds :
         /\ IsNext(k)
         /\ jobs' = [jobs EXCEPT ![k] = NewJob(jobs[j].of, jobs[j].at, "waiting"),
                                 ![j].delay = FALSE]
    /\ UNCHANGED <<autos, stage, moves, exec, convs, sent, tried, crashes, edits>>
AddContinuation_NextStep(j) ==
    /\ At(j, {"filter", "send"}) /\ jobs[j].delay
    /\ \E k \in JobIds :
         /\ IsNext(k)
         /\ jobs' = [jobs EXCEPT ![k] = NewJob(jobs[j].of, jobs[j].at + 1, "waiting"),
                                 ![j].state = "relay"]
    /\ UNCHANGED <<autos, stage, moves, exec, convs, sent, tried, crashes, edits>>
AddContinuation_FromStart(j) ==
    /\ At(j, {"filter", "send"}) /\ jobs[j].delay
    /\ \E k \in JobIds :
         /\ IsNext(k)
         /\ jobs' = [jobs EXCEPT ![k] = NewJob(jobs[j].of, 0, "waiting"),
                                 ![j].state = "relay"]
    /\ UNCHANGED <<autos, stage, moves, exec, convs, sent, tried, crashes, edits>>

\* After a wait the next step is left to a delayed job of its own (the delay
\* itself is abstracted: the job may run at any later time).
AddContinuation(j) ==
    /\ At(j, {"filter", "send"}) /\ jobs[j].delay
    /\ \E k \in JobIds :
         /\ IsNext(k)
         /\ jobs' = [jobs EXCEPT ![k] = NewJob(jobs[j].of, jobs[j].at, "waiting"),
                                 ![j].state = "relay"]
    /\ UNCHANGED <<autos, stage, moves, exec, convs, sent, tried, crashes, edits>>

RecordPosition(j) ==
    /\ jobs[j].state = "relay"
    /\ exec' = [exec EXCEPT ![jobs[j].of].position = jobs[j].at]
    /\ jobs' = [jobs EXCEPT ![j].state = "completed"]
    /\ UNCHANGED <<autos, stage, moves, convs, sent, tried, crashes, edits>>

\* The lead's data decides; any outcome is possible here.
PassFilter(j) ==
    /\ At(j, {"filter"}) /\ ~jobs[j].delay
    /\ jobs' = [jobs EXCEPT ![j].at = @ + 1]
    /\ UNCHANGED <<autos, stage, moves, exec, convs, sent, tried, crashes, edits>>

\* Mutated form of StopAtFilter: the status is stored but the loop goes on.
StopAtFilter_GoesOn(j) ==
    /\ At(j, {"filter"}) /\ ~jobs[j].delay
    /\ SetExec(jobs[j].of, "filtered", jobs[j].at)
    /\ jobs' = [jobs EXCEPT ![j].at = @ + 1]
    /\ UNCHANGED <<autos, stage, moves, convs, sent, tried, crashes, edits>>

StopAtFilter(j) ==
    /\ At(j, {"filter"}) /\ ~jobs[j].delay
    /\ SetExec(jobs[j].of, "filtered", jobs[j].at)
    /\ jobs' = [jobs EXCEPT ![j].state = "completed"]
    /\ UNCHANGED <<autos, stage, moves, convs, sent, tried, crashes, edits>>

Complete(j) ==
    /\ jobs[j].state = "run" /\ ~More(j)
    /\ SetExec(jobs[j].of, "completed", jobs[j].at)
    /\ jobs' = [jobs EXCEPT ![j].state = "completed"]
    /\ UNCHANGED <<autos, stage, moves, convs, sent, tried, crashes, edits>>

-----------------------------------------------------------------------------
\* sendWhatsapp, in three writes: conversation, provider, message row.

SkipSend(j) ==
    /\ At(j, {"send"}) /\ ~jobs[j].delay
    /\ phone[LeadOf(j)] = NoPhone
    /\ jobs' = [jobs EXCEPT ![j].at = @ + 1]
    /\ UNCHANGED <<autos, stage, moves, exec, convs, sent, tried, crashes, edits>>

\* findOrCreate looks for a conversation of this lead; its insert is refused
\* when the phone already has a conversation without lead or of another lead.
ConversationTaken(j) == convs[phone[LeadOf(j)]] \notin {NoConv, LeadOf(j)}

FindConversation(j) ==
    /\ At(j, {"send"}) /\ ~jobs[j].delay
    /\ phone[LeadOf(j)] # NoPhone
    /\ ~ConversationTaken(j)
    /\ convs' = [convs EXCEPT ![phone[LeadOf(j)]] = LeadOf(j)]
    /\ jobs' = [jobs EXCEPT ![j].state = "send"]
    /\ UNCHANGED <<autos, stage, moves, exec, sent, tried, crashes, edits>>

\* channels.send: an adapter error is an answer too, and the provider may have
\* accepted the message all the same.
CallProvider(j) ==
    /\ jobs[j].state = "send"
    /\ \E accepted \in {0, 1} : sent' = [sent EXCEPT ![jobs[j].of][Step(j)] = @ + accepted]
    /\ jobs' = [jobs EXCEPT ![j].state = "save"]
    /\ UNCHANGED <<autos, stage, moves, exec, convs, tried, crashes, edits>>

SaveMessage(j) ==
    /\ jobs[j].state = "save"
    /\ tried' = [tried EXCEPT ![jobs[j].of] = @ \cup {Step(j)}]
    /\ jobs' = [jobs EXCEPT ![j].state = "run", ![j].at = @ + 1]
    /\ UNCHANGED <<autos, stage, moves, exec, convs, sent, crashes, edits>>

-----------------------------------------------------------------------------
\* Exceptions, crashes and the other actors.

\* A deleted lead or template, a conversation of another lead, an inactive
\* channel, a refused insert (an echo, or an earlier failed answer, stored the
\* external id first): BullMQ retries the job from its first step.
Throws(j) ==
    \/ jobs[j].state = "run" /\ jobs[j].at = jobs[j].from
    \/ At(j, {"send"}) /\ ~jobs[j].delay
    \/ jobs[j].state \in {"send", "save"}

\* Mutated form of Retry: one attempt too many.
Retry_OneMore(job) ==
    [job EXCEPT !.state = IF job.attempts < MaxAttempts THEN "waiting" ELSE "failed",
                !.attempts = @ + 1]

Retry(job) ==
    [job EXCEPT !.state = IF job.attempts + 1 < MaxAttempts THEN "waiting" ELSE "failed",
                !.attempts = @ + 1]

FailJob(j) ==
    /\ Throws(j)
    /\ jobs' = [jobs EXCEPT ![j] = Retry(jobs[j])]
    /\ UNCHANGED <<autos, stage, moves, exec, convs, sent, tried, crashes, edits>>

Stall(job) ==
    [job EXCEPT !.state = IF job.stalls < MaxStalls THEN "waiting" ELSE "failed",
                !.stalls = @ + 1]

\* Every instance dies: requests and listeners are lost, jobs are restarted.
Crash ==
    /\ crashes < MaxCrashes
    /\ crashes' = crashes + 1
    /\ moves' = [m \in Moves |-> IF moves[m].pc = "idle" THEN moves[m] ELSE Ended]
    /\ jobs' = [j \in JobIds |-> IF jobs[j].state \in Running THEN Stall(jobs[j]) ELSE jobs[j]]
    /\ UNCHANGED <<autos, stage, exec, convs, sent, tried, edits>>

\* PATCH /automations/:id: flag and steps in one transaction.
EditAutomation(a) ==
    /\ edits < MaxEdits
    /\ edits' = edits + 1
    /\ \E active \in BOOLEAN, list \in StepLists :
         autos' = [autos EXCEPT ![a] = [active |-> active, steps |-> list]]
    /\ UNCHANGED <<stage, moves, exec, jobs, convs, sent, tried, crashes>>

\* An inbound message opens a conversation without lead.
ReceiveInbound(ph) ==
    /\ convs[ph] = NoConv
    /\ convs' = [convs EXCEPT ![ph] = Unqualified]
    /\ UNCHANGED <<autos, stage, moves, exec, jobs, sent, tried, crashes, edits>>

Moving(m) ==
    \/ WriteMove(m) \/ FindStageTriggers(m) \/ FindPipelineTriggers(m) \/ EndTriggers(m)
    \/ \E a \in Autos : InsertExecution(m, a)
    \/ AddFirstJob(m)

Work(j) ==
    \/ TakeJob(j) \/ AccumulateWait(j) \/ AddContinuation(j) \/ RecordPosition(j)
    \/ PassFilter(j) \/ StopAtFilter(j) \/ Complete(j)
    \/ SkipSend(j) \/ FindConversation(j) \/ CallProvider(j) \/ SaveMessage(j)
    \/ FailJob(j)

Next ==
    \/ \E m \in Moves, l \in Leads, s \in Stages : StartMove(m, l, s)
    \/ \E m \in Moves : Moving(m)
    \/ \E j \in JobIds : Work(j)
    \/ Crash
    \/ \E a \in Autos : EditAutomation(a)
    \/ \E ph \in Phones : ReceiveInbound(ph)

Spec == Init /\ [][Next]_vars

\* Requests, listeners and workers run on; jobs in the queue are taken.
Fairness ==
    /\ \A m \in Moves : WF_vars(Moving(m))
    /\ \A j \in JobIds : WF_vars(Work(j)) /\ SF_vars(TakeJob(j))

FairSpec == Spec /\ Fairness

-----------------------------------------------------------------------------
JobsOf(p) == {j \in JobIds : jobs[j].of = p}

\* The times a job of p was started again: <<j, n>> is the n-th restart of job j.
Reruns(p) == {r \in JobsOf(p) \X (1..(MaxAttempts + MaxStalls + 1)) :
                 r[2] <= jobs[r[1]].attempts + jobs[r[1]].stalls}

\* However often and from however many requests at once a lead enters a stage,
\* an automation starts once for it.
StartedOnce == \A p \in Pairs : Cardinality({j \in JobsOf(p) : jobs[j].from = 0}) <= 1

\* A rerun job repeats its sends and may add its continuation a second time,
\* which repeats all later steps; still, each rerun costs at most one more
\* message of each step in each version of the list.
SendsExplained ==
    \A p \in Pairs, s \in Steps : sent[p][s] <= (1 + Cardinality(Reruns(p))) * (1 + edits)

\* A completed execution skipped nothing: unless the automation was edited,
\* each send step was answered by the adapter and stored.
CompletedRanAll ==
    \A p \in Pairs :
        edits = 0 /\ exec[p] # NoExec /\ exec[p].status = "completed" /\ phone[p[2]] # NoPhone
            => \A i \in DOMAIN autos[p[1]].steps :
                 kind[autos[p[1]].steps[i]] = "send" => autos[p[1]].steps[i] \in tried[p]

\* Once an execution is filtered or completed no further message goes out,
\* unless a job of it ran twice.
SilentAfterEnd ==
    [][\A p \in Pairs :
          exec[p] # NoExec /\ exec[p].status # "pending" /\ Reruns(p) = {}
              => sent'[p] = sent[p]]_vars

\* Every execution ends, except by the three known leaks: the job was never
\* added because the process died, a job used up its attempts, or the
\* automation was switched off when its job came.
Pending(p) == exec[p] # NoExec /\ exec[p].status = "pending"
Leaked(p) == \/ JobsOf(p) = {} /\ crashes > 0
             \/ \E j \in JobsOf(p) : jobs[j].state = "failed"
             \/ \E j \in JobsOf(p) : jobs[j].state = "completed" /\ jobs[j].steps = <<>>
EventuallyEnds == \A p \in Pairs : Pending(p) ~> (~Pending(p) \/ Leaked(p))
=============================================================================
