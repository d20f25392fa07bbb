------------------------- MODULE ScheduledMessages --------------------------
(***************************************************************************)
(* Scheduled messages: the rows of scheduled_messages (SchedulerService),   *)
(* the BullMQ queue that fires them, the worker that delivers them          *)
(* (ScheduledMessageProcessor) and the reconciliation run when an instance  *)
(* boots (SchedulerReconciliationService).                                  *)
(*                                                                         *)
(* Postgres, Redis and the provider are written one after the other, by     *)
(* handlers that interleave and may die between any two writes.             *)
(***************************************************************************)
EXTENDS Integers

CONSTANTS
    Ids,          \* scheduled messages
    Workers,      \* queue workers, one per instance of the server
    MaxJobs,      \* bound: jobs ever added to the queue
    MaxAttempts,  \* attempts of a job (3 in the code)
    MaxStalls,    \* times BullMQ restarts a job whose worker died (1)
    MaxCrashes,   \* bound: crashes
    MaxBoots,     \* bound: boots of an instance
    EchoesSends,  \* whether the provider echoes messages sent by the API
    NoRecord, NoJob, NoId

JobIds == 1..MaxJobs
Status == {"pending", "sent", "failed", "cancelled"}
JobState == {"unused", "waiting", "active", "completed", "failed", "removed"}

ASSUME SchedulerAssumption ==
    /\ MaxJobs \in Nat /\ MaxCrashes \in Nat /\ MaxBoots \in Nat
    /\ MaxAttempts \in Nat \ {0} /\ MaxStalls \in Nat
    /\ EchoesSends \in BOOLEAN
    /\ NoJob \notin JobIds /\ NoId \notin Ids

Record == [status : Status, job : JobIds \cup {NoJob}]
Job == [msg : Ids \cup {NoId}, state : JobState,
        attempts : 0..MaxAttempts, stalls : 0..(MaxStalls + 1)]
SchedulePC == {"idle", "saved", "queued", "done", "dead"}
CancelPC == {"idle", "read", "removed", "done", "error"}
WorkerPC == {"free", "read", "send", "save", "update"}

ASSUME NullAssumption == NoRecord \notin Record

VARIABLES
    rec,        \* the scheduled_messages table
    due,        \* messages whose scheduledAt has passed
    jobs,       \* the queue
    sched,      \* schedule() of each message: position, id of the job added
    cancel,     \* cancel() of each message: position, bullJobId it read
    worker,     \* each worker: position, job, the provider's answer
    sends,      \* messages the provider accepted, by the job that sent them
    emptyTaken, \* a message row already holds the external id ''
    todo,       \* messages a booting instance found without a job
    relinked,   \* jobs it added and has not recorded yet
    up, crashes, boots

vars == <<rec, due, jobs, sched, cancel, worker, sends, emptyTaken, todo,
          relinked, up, crashes, boots>>

TypeOK ==
    /\ rec \in [Ids -> Record \cup {NoRecord}]
    /\ due \subseteq Ids
    /\ jobs \in [JobIds -> Job]
    /\ sched \in [Ids -> [pc : SchedulePC, job : JobIds \cup {NoJob}]]
    /\ cancel \in [Ids -> [pc : CancelPC, job : JobIds \cup {NoJob}]]
    /\ worker \in [Workers -> [pc : WorkerPC, job : JobIds \cup {NoJob},
                               answer : {"none", "sent", "failed"}]]
    /\ sends \in [JobIds -> Nat]
    /\ emptyTaken \in BOOLEAN
    /\ todo \subseteq Ids
    /\ relinked \subseteq JobIds
    /\ up \in BOOLEAN
    /\ crashes \in 0..MaxCrashes
    /\ boots \in 0..MaxBoots

Idle == [pc |-> "idle", job |-> NoJob]
Free == [pc |-> "free", job |-> NoJob, answer |-> "none"]

Init ==
    /\ rec = [m \in Ids |-> NoRecord]
    /\ due = {}
    /\ jobs = [j \in JobIds |-> [msg |-> NoId, state |-> "unused", attempts |-> 0, stalls |-> 0]]
    /\ sched = [m \in Ids |-> Idle]
    /\ cancel = [m \in Ids |-> Idle]
    /\ worker = [w \in Workers |-> Free]
    /\ sends = [j \in JobIds |-> 0]
    /\ emptyTaken \in BOOLEAN
    /\ todo = {}
    /\ relinked = {}
    /\ up = TRUE
    /\ crashes = 0
    /\ boots = 0

Saved(m) == rec[m] # NoRecord
Pending(m) == Saved(m) /\ rec[m].status = "pending"

\* queue.getJob: completed and failed jobs are kept, removed ones are not.
Exists(j) == j \in JobIds /\ jobs[j].state \notin {"unused", "removed"}

\* queue.add gives the job an id never used before.
Add(m, j) == /\ jobs[j].state = "unused"
             /\ \A k \in JobIds : k < j => jobs[k].state # "unused"
             /\ jobs' = [jobs EXCEPT ![j].msg = m, ![j].state = "waiting"]

-----------------------------------------------------------------------------
\* POST /scheduled-messages: three writes.

SaveRecord(m) ==
    /\ up /\ sched[m].pc = "idle"
    /\ rec' = [rec EXCEPT ![m] = [status |-> "pending", job |-> NoJob]]
    /\ sched' = [sched EXCEPT ![m].pc = "saved"]
    /\ UNCHANGED <<due, jobs, cancel, worker, sends, emptyTaken, todo, relinked, up, crashes, boots>>

AddJob(m) ==
    /\ up /\ sched[m].pc = "saved"
    /\ \E j \in JobIds : /\ Add(m, j)
                         /\ sched' = [sched EXCEPT ![m] = [pc |-> "queued", job |-> j]]
    /\ UNCHANGED <<rec, due, cancel, worker, sends, emptyTaken, todo, relinked, up, crashes, boots>>

RecordJob(m) ==
    /\ up /\ sched[m].pc = "queued"
    /\ rec' = [rec EXCEPT ![m].job = sched[m].job]
    /\ sched' = [sched EXCEPT ![m].pc = "done"]
    /\ UNCHANGED <<due, jobs, cancel, worker, sends, emptyTaken, todo, relinked, up, crashes, boots>>

PassTime(m) ==
    /\ m \notin due
    /\ due' = due \cup {m}
    /\ UNCHANGED <<rec, jobs, sched, cancel, worker, sends, emptyTaken, todo, relinked, up, crashes, boots>>

-----------------------------------------------------------------------------
\* DELETE /scheduled-messages/:id: reads the record, removes the job it names,
\* then overwrites the status.

ReadForCancel(m) ==
    /\ up /\ cancel[m].pc \in {"idle", "error"}
    /\ Pending(m)
    /\ cancel' = [cancel EXCEPT ![m] = [pc |-> "read", job |-> rec[m].job]]
    /\ UNCHANGED <<rec, due, jobs, sched, worker, sends, emptyTaken, todo, relinked, up, crashes, boots>>

\* Mutated form of RemoveJob: a locked job is removed all the same.
RemoveJob_IgnoringLock(m) ==
    /\ up /\ cancel[m].pc = "read"
    /\ cancel' = [cancel EXCEPT ![m].pc = "removed"]
    /\ jobs' = IF Exists(cancel[m].job)
               THEN [jobs EXCEPT ![cancel[m].job].state = "removed"] ELSE jobs
    /\ UNCHANGED <<rec, due, sched, worker, sends, emptyTaken, todo, relinked, up, crashes, boots>>

\* job.remove() refuses a job some worker has locked.
RemoveJob(m) ==
    /\ up /\ cancel[m].pc = "read"
    /\ LET j == cancel[m].job IN
       \/ /\ ~Exists(j)
          /\ cancel' = [cancel EXCEPT ![m].pc = "removed"]
          /\ UNCHANGED jobs
       \/ /\ Exists(j)
          /\ jobs[j].state # "active"
          /\ cancel' = [cancel EXCEPT ![m].pc = "removed"]
          /\ jobs' = [jobs EXCEPT ![j].state = "removed"]
       \/ /\ Exists(j)
          /\ jobs[j].state = "active"
          /\ cancel' = [cancel EXCEPT ![m].pc = "error"]
          /\ UNCHANGED jobs
    /\ UNCHANGED <<rec, due, sched, worker, sends, emptyTaken, todo, relinked, up, crashes, boots>>

StoreCancelled(m) ==
    /\ up /\ cancel[m].pc = "removed"
    /\ rec' = [rec EXCEPT ![m].status = "cancelled"]
    /\ cancel' = [cancel EXCEPT ![m].pc = "done"]
    /\ UNCHANGED <<due, jobs, sched, worker, sends, emptyTaken, todo, relinked, up, crashes, boots>>

-----------------------------------------------------------------------------
\* The worker.

TakeJob(w, j) ==
    /\ up /\ worker[w].pc = "free"
    /\ jobs[j].state = "waiting" /\ jobs[j].msg \in due
    /\ jobs' = [jobs EXCEPT ![j].state = "active"]
    /\ worker' = [worker EXCEPT ![w] = [pc |-> "read", job |-> j, answer |-> "none"]]
    /\ UNCHANGED <<rec, due, sched, cancel, sends, emptyTaken, todo, relinked, up, crashes, boots>>

EndJob(w, state, attempts) ==
    /\ jobs' = [jobs EXCEPT ![worker[w].job].state = state,
                            ![worker[w].job].attempts = attempts]
    /\ worker' = [worker EXCEPT ![w] = Free]

CompleteJob(w) == EndJob(w, "completed", jobs[worker[w].job].attempts)

\* Mutated form of FailJob: one attempt too many.
FailJob_OneMore(w) ==
    LET n == jobs[worker[w].job].attempts + 1
    IN EndJob(w, IF n <= MaxAttempts THEN "waiting" ELSE "failed", n)

\* An exception: BullMQ retries until the attempts are used up; the record is
\* left as it is.
FailJob(w) ==
    LET n == jobs[worker[w].job].attempts + 1
    IN EndJob(w, IF n < MaxAttempts THEN "waiting" ELSE "failed", n)

ReadRecord(w) ==
    /\ worker[w].pc = "read"
    /\ IF Pending(jobs[worker[w].job].msg)
       THEN worker' = [worker EXCEPT ![w].pc = "send"] /\ UNCHANGED jobs
       ELSE CompleteJob(w)
    /\ UNCHANGED <<rec, due, sched, cancel, sends, emptyTaken, todo, relinked, up, crashes, boots>>

\* channels.send: throws when conversation or channel is gone; an adapter error
\* becomes the answer "failed", whether or not the provider took the message.
SendMessage(w) ==
    /\ worker[w].pc = "send"
    /\ \/ FailJob(w) /\ UNCHANGED sends
       \/ \E answer \in {"sent", "failed"}, accepted \in BOOLEAN :
            /\ answer = "sent" => accepted
            /\ worker' = [worker EXCEPT ![w].pc = "save", ![w].answer = answer]
            /\ sends' = [sends EXCEPT ![worker[w].job] = @ + (IF accepted THEN 1 ELSE 0)]
            /\ UNCHANGED jobs
    /\ UNCHANGED <<rec, due, sched, cancel, emptyTaken, todo, relinked, up, crashes, boots>>

\* Mutated form of SaveMessageRow: a refused insert is taken for a failed send
\* and the message is sent again at once.
SaveMessageRow_SendsAgain(w) ==
    /\ worker[w].pc = "save"
    /\ LET failed == worker[w].answer = "failed" IN
       \/ /\ failed => ~emptyTaken
          /\ emptyTaken' = (emptyTaken \/ failed)
          /\ worker' = [worker EXCEPT ![w].pc = "update"]
       \/ /\ IF failed THEN emptyTaken ELSE EchoesSends
          /\ worker' = [worker EXCEPT ![w].pc = "send"]
          /\ UNCHANGED emptyTaken
    /\ UNCHANGED <<rec, due, jobs, sched, cancel, sends, todo, relinked, up, crashes, boots>>

\* saveOutbound inserts a message row; its external id is unique.  A failed
\* answer carries '', a sent one an id an echo may have inserted already.
SaveMessageRow(w) ==
    /\ worker[w].pc = "save"
    /\ LET failed == worker[w].answer = "failed" IN
       \/ /\ failed => ~emptyTaken
          /\ emptyTaken' = (emptyTaken \/ failed)
          /\ worker' = [worker EXCEPT ![w].pc = "update"]
          /\ UNCHANGED jobs
       \/ /\ IF failed THEN emptyTaken ELSE EchoesSends
          /\ FailJob(w)
          /\ UNCHANGED emptyTaken
    /\ UNCHANGED <<rec, due, sched, cancel, sends, todo, relinked, up, crashes, boots>>

\* Mutated forms of StoreOutcome: every outcome is stored as sent; only a sent
\* one is stored.
StoreOutcome_AlwaysSent(w) ==
    /\ worker[w].pc = "update"
    /\ rec' = [rec EXCEPT ![jobs[worker[w].job].msg].status = "sent"]
    /\ CompleteJob(w)
    /\ UNCHANGED <<due, sched, cancel, sends, emptyTaken, todo, relinked, up, crashes, boots>>
StoreOutcome_OnlySent(w) ==
    /\ worker[w].pc = "update"
    /\ rec' = IF worker[w].answer = "sent"
              THEN [rec EXCEPT ![jobs[worker[w].job].msg].status = "sent"] ELSE rec
    /\ CompleteJob(w)
    /\ UNCHANGED <<due, sched, cancel, sends, emptyTaken, todo, relinked, up, crashes, boots>>

StoreOutcome(w) ==
    /\ worker[w].pc = "update"
    /\ rec' = [rec EXCEPT ![jobs[worker[w].job].msg].status = worker[w].answer]
    /\ CompleteJob(w)
    /\ UNCHANGED <<due, sched, cancel, sends, emptyTaken, todo, relinked, up, crashes, boots>>

-----------------------------------------------------------------------------
\* Crashes, and the reconciliation of a booting instance (the only one, or a
\* second replica beside the first).

Stall(job) ==
    [job EXCEPT !.state = IF job.stalls < MaxStalls THEN "waiting" ELSE "failed",
                !.stalls = @ + 1]

Crash ==
    /\ up /\ crashes < MaxCrashes /\ boots < MaxBoots
    /\ crashes' = crashes + 1
    /\ up' = FALSE
    /\ jobs' = [j \in JobIds |-> IF jobs[j].state = "active" THEN Stall(jobs[j]) ELSE jobs[j]]
    /\ worker' = [w \in Workers |-> Free]
    /\ sched' = [m \in Ids |-> IF sched[m].pc \in {"saved", "queued"}
                               THEN [sched[m] EXCEPT !.pc = "dead"] ELSE sched[m]]
    /\ cancel' = [m \in Ids |-> IF cancel[m].pc \in {"read", "removed"}
                                THEN [cancel[m] EXCEPT !.pc = "error"] ELSE cancel[m]]
    /\ todo' = {}
    /\ relinked' = {}
    /\ UNCHANGED <<rec, due, sends, emptyTaken, boots>>

\* Mutated form of Boot: only records that never got a job id are reconciled.
Boot_OnlyUnqueued ==
    /\ boots < MaxBoots
    /\ todo = {} /\ relinked = {}
    /\ boots' = boots + 1
    /\ up' = TRUE
    /\ todo' = {m \in Ids \ due : Pending(m) /\ rec[m].job = NoJob}
    /\ UNCHANGED <<rec, due, jobs, sched, cancel, worker, sends, emptyTaken, relinked, crashes>>

Boot ==
    /\ boots < MaxBoots
    /\ todo = {} /\ relinked = {}
    /\ boots' = boots + 1
    /\ up' = TRUE
    /\ todo' = {m \in Ids \ due : Pending(m) /\ ~Exists(rec[m].job)}
    /\ UNCHANGED <<rec, due, jobs, sched, cancel, worker, sends, emptyTaken, relinked, crashes>>

ReconcileAdd(m) ==
    /\ m \in todo
    /\ todo' = todo \ {m}
    /\ \E j \in JobIds : Add(m, j) /\ relinked' = relinked \cup {j}
    /\ UNCHANGED <<rec, due, sched, cancel, worker, sends, emptyTaken, up, crashes, boots>>

ReconcileRecord(j) ==
    /\ j \in relinked
    /\ relinked' = relinked \ {j}
    /\ rec' = [rec EXCEPT ![jobs[j].msg].job = j]
    /\ UNCHANGED <<due, jobs, sched, cancel, worker, sends, emptyTaken, todo, up, crashes, boots>>

Scheduling == \E m \in Ids : SaveRecord(m) \/ AddJob(m) \/ RecordJob(m)
Cancelling == \E m \in Ids : ReadForCancel(m) \/ RemoveJob(m) \/ StoreCancelled(m)
Working(w) == \/ \E j \in JobIds : TakeJob(w, j)
              \/ ReadRecord(w) \/ SendMessage(w) \/ SaveMessageRow(w) \/ StoreOutcome(w)
Reconciling == \/ \E m \in Ids : ReconcileAdd(m)
               \/ \E j \in JobIds : ReconcileRecord(j)

Next == \/ Scheduling
        \/ \E m \in Ids : PassTime(m)
        \/ Cancelling
        \/ \E w \in Workers : Working(w)
        \/ Crash
        \/ Boot
        \/ Reconciling

Spec == Init /\ [][Next]_vars

\* Handlers and workers run to their end, instances are restarted, time passes.
Fairness ==
    /\ \A m \in Ids : WF_vars(AddJob(m)) /\ WF_vars(RecordJob(m)) /\ WF_vars(PassTime(m))
                      /\ WF_vars(RemoveJob(m)) /\ WF_vars(StoreCancelled(m))
    /\ \A w \in Workers : WF_vars(Working(w))
    /\ WF_vars(~up /\ Boot)
    /\ WF_vars(Reconciling)

FairSpec == Spec /\ Fairness

-----------------------------------------------------------------------------
\* A cancellation that was answered with success stopped the job it read from
\* the record: no worker is past its check of the status with that job.
\* (RemoveJob refuses a locked job; a job the record does not name yet, after a
\* crash or a double reconciliation, is not stopped.)
CancelStopsItsJob ==
    \A m \in Ids, w \in Workers :
        cancel[m].pc \in {"removed", "done"} /\ worker[w].pc # "free"
            => worker[w].job # cancel[m].job

\* Each time the provider takes a message of a job, that job is active and past
\* the send, completed, or has used up a retry or a stall: without exception,
\* refused insert or crash a job sends once.
PastSend(j) ==
    \/ jobs[j].state = "completed"
    \/ \E w \in Workers : worker[w].job = j /\ worker[w].pc \in {"save", "update"}

RetriesExplainSends ==
    \A j \in JobIds :
        sends[j] <= jobs[j].attempts + jobs[j].stalls + (IF PastSend(j) THEN 1 ELSE 0)
                    + (IF jobs[j].state = "removed" THEN 1 ELSE 0)

\* However the retries of exceptions and of crashes interleave, a job sends its
\* message at most MaxAttempts + MaxStalls times.
SendsBounded == \A j \in JobIds : sends[j] <= MaxAttempts + MaxStalls

\* A record marked sent was accepted by the provider.
SentWasAccepted ==
    \A m \in Ids : Saved(m) /\ rec[m].status = "sent" =>
        \E j \in JobIds : jobs[j].msg = m /\ sends[j] > 0

\* What reconciliation promises: once an instance has booted, a pending message
\* whose time has not come has a job in the queue, unless its schedule() or
\* cancel() is still between its writes.
LiveJob(m) == \E j \in JobIds : jobs[j].msg = m /\ jobs[j].state \in {"waiting", "active"}

PendingHasJob ==
    \A m \in Ids :
        Pending(m) /\ m \notin due /\ up /\ m \notin todo
        /\ sched[m].pc # "saved" /\ cancel[m].pc # "removed"
            => LiveJob(m)

\* Every saved message is settled, except by the two known leaks: a job that
\* exhausts its attempts leaves the record pending, and a message whose job was
\* never added, or was removed by a cancel() that died, is not reconciled once
\* its time has come.
Leaked(m) == \/ \E j \in JobIds : jobs[j].msg = m /\ jobs[j].state = "failed"
             \/ /\ m \in due
                /\ \A j \in JobIds : jobs[j].msg = m => jobs[j].state = "removed"
                /\ sched[m].pc # "saved" /\ cancel[m].pc # "removed"
EventuallySettled == \A m \in Ids : Saved(m) ~> (~Pending(m) \/ Leaked(m))
=============================================================================
