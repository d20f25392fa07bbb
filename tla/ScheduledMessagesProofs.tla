----------------------- MODULE ScheduledMessagesProofs -----------------------
(***************************************************************************)
(* Theorems of ScheduledMessages: the types; a successful cancellation stops *)
(* the job it read; the number of sends of a job; a record marked sent was   *)
(* accepted; after a boot no pending message is without a job.               *)
(***************************************************************************)
EXTENDS ScheduledMessages, TLAPS

\* The inductive invariant.  Jobs once added stay known and keep their message
\* (Known, Rows); a busy worker has its active job for itself (Locked); a job a
\* successful cancellation read is removed for good (Stopped); Counted bounds
\* the sends of a job in each of its states.
Used(j) == j \in JobIds /\ jobs[j].state # "unused"
Busy(w) == worker[w].pc # "free"

Rows ==
    /\ \A m \in Ids : sched[m].pc # "idle" \/ cancel[m].pc # "idle" \/ m \in todo => Saved(m)
    /\ \A j \in JobIds : Used(j) => jobs[j].msg \in Ids /\ Saved(jobs[j].msg)

Known ==
    /\ \A m \in Ids : sched[m].job # NoJob => Used(sched[m].job)
    /\ \A m \in Ids : sched[m].pc = "queued" => sched[m].job # NoJob
    /\ \A m \in Ids : Saved(m) /\ rec[m].job # NoJob => Used(rec[m].job)
    /\ \A m \in Ids : cancel[m].job # NoJob => Used(cancel[m].job)
    /\ \A j \in relinked : Used(j)

Answered(w) ==
    worker[w].pc \in {"save", "update"} =>
        /\ worker[w].answer \in {"sent", "failed"}
        /\ worker[w].answer = "sent" => sends[worker[w].job] > 0

Locked ==
    /\ \A w \in Workers : Busy(w) => /\ worker[w].job \in JobIds
                                     /\ jobs[worker[w].job].state = "active"
                                     /\ Answered(w)
    /\ \A v, w \in Workers : v # w /\ Busy(v) /\ Busy(w) => worker[v].job # worker[w].job

Stopped ==
    \A m \in Ids : cancel[m].pc \in {"removed", "done"} /\ cancel[m].job # NoJob
        => jobs[cancel[m].job].state = "removed"

Past(j) == \E w \in Workers : worker[w].job = j /\ worker[w].pc \in {"save", "update"}

Fresh(j) == jobs[j].attempts < MaxAttempts /\ jobs[j].stalls <= MaxStalls
Reruns(j) == jobs[j].attempts + jobs[j].stalls

Counted(j) ==
    /\ jobs[j].state = "unused" => sends[j] = 0
    /\ jobs[j].state \in {"waiting", "active", "completed", "unused"} => Fresh(j)
    /\ jobs[j].state = "waiting" => sends[j] <= Reruns(j)
    /\ jobs[j].state = "active" => sends[j] <= Reruns(j) + (IF Past(j) THEN 1 ELSE 0)
    /\ jobs[j].state = "completed" => sends[j] <= Reruns(j) + 1
    /\ jobs[j].state = "failed" => sends[j] <= Reruns(j) /\ Reruns(j) <= MaxAttempts + MaxStalls
    /\ jobs[j].state = "removed" => sends[j] <= Reruns(j) + 1 /\ sends[j] <= MaxAttempts + MaxStalls

Queue == Locked /\ \A j \in JobIds : Counted(j)
Records == Rows /\ Known /\ Stopped

IInv == TypeOK /\ Queue /\ Records /\ SentWasAccepted

-----------------------------------------------------------------------------
LEMMA InitIInv == Init => IInv
<1> SUFFICES ASSUME Init PROVE IInv
  OBVIOUS
<1> USE SchedulerAssumption, NullAssumption DEF Init
<1>1. TypeOK
  BY DEF TypeOK, Job, JobState, Idle, Free, SchedulePC, CancelPC, WorkerPC
<1>2. Queue
  BY DEF Queue, Locked, Counted, Busy, Fresh, Reruns, Free
<1>3. Records
  BY DEF Records, Rows, Known, Stopped, Saved, Used, Idle
<1>4. SentWasAccepted
  BY DEF SentWasAccepted, Saved
<1> QED
  BY <1>1, <1>2, <1>3, <1>4 DEF IInv

-----------------------------------------------------------------------------
\* What the writes of the queue leave to the records, and those of the records
\* to the queue.

JobsKept ==
    \A j \in JobIds : Used(j) => /\ jobs'[j].state # "unused" /\ jobs'[j].msg = jobs[j].msg
                                 /\ jobs[j].state = "removed" => jobs'[j].state = "removed"
                                 /\ sends[j] > 0 => sends'[j] > 0
NewJobsSaved ==
    \A j \in JobIds : jobs'[j].state # "unused" /\ ~Used(j)
        => jobs'[j].msg \in Ids /\ Saved(jobs'[j].msg)

LEMMA QueueUnchanged ==
  ASSUME Queue, UNCHANGED <<jobs, worker, sends>> PROVE Queue'
BY DEF Queue, Locked, Counted, Busy, Answered, Past, Fresh, Reruns

LEMMA RecordsUnchanged ==
  ASSUME IInv, JobsKept, NewJobsSaved, UNCHANGED <<rec, sched, cancel, todo, relinked>>
  PROVE  Records' /\ SentWasAccepted'
<1> USE DEF IInv
<1>1. Rows'
  BY DEF Records, Rows, Used, Saved, JobsKept, NewJobsSaved
<1>2. Known'
  BY DEF Records, Known, Used, Saved, JobsKept
<1>3. Stopped'
  BY DEF Records, Known, Stopped, Used, JobsKept
<1>4. SentWasAccepted'
  <2>1. \A j \in JobIds : sends[j] > 0 => Used(j)
    BY DEF Queue, Counted, Used
  <2>2. sends \in [JobIds -> Nat]
    BY DEF TypeOK
  <2> QED
    BY <2>1, <2>2 DEF SentWasAccepted, Saved, JobsKept
<1> QED
  BY <1>1, <1>2, <1>3, <1>4 DEF Records

\* queue.add.
LEMMA AddQueue ==
  ASSUME IInv, NEW m \in Ids, NEW j \in JobIds, Add(m, j), UNCHANGED <<worker, sends>>
  PROVE  /\ jobs' \in [JobIds -> Job]
         /\ Queue'
         /\ JobsKept
         /\ Used(j)' /\ jobs'[j].msg = m
         /\ \A k \in JobIds : k # j => jobs'[k] = jobs[k]
<1> DEFINE r == [jobs[j] EXCEPT !.msg = m, !.state = "waiting"]
<1>1. jobs' = [jobs EXCEPT ![j] = r] /\ jobs[j].state = "unused"
  BY DEF Add
<1>2. jobs \in [JobIds -> Job] /\ sends \in [JobIds -> Nat]
  BY DEF IInv, TypeOK
<1>3. /\ r \in Job /\ r.msg = m /\ r.state = "waiting"
      /\ r.attempts = jobs[j].attempts /\ r.stalls = jobs[j].stalls
  BY <1>2 DEF Job, JobState
<1> HIDE DEF r
<1>4. jobs' \in [JobIds -> Job] /\ jobs'[j] = r /\ \A k \in JobIds : k # j => jobs'[k] = jobs[k]
  BY <1>1, <1>2, <1>3
<1>5. JobsKept
  BY <1>1, <1>2, <1>4 DEF JobsKept, Used
<1>6. Locked'
  BY <1>1, <1>4 DEF IInv, Queue, Locked, Busy, Answered
<1>7. \A k \in JobIds : Counted(k)'
  <2> TAKE k \in JobIds
  <2>1. Counted(k)
    BY DEF IInv, Queue
  <2>2. CASE k # j
    BY <2>1, <2>2, <1>4 DEF Counted, Past, Fresh, Reruns
  <2>3. CASE k = j
    <3>1. sends[j] = 0 /\ Fresh(j)
      BY <2>1, <2>3, <1>1 DEF Counted
    <3>2. Fresh(j)' /\ sends'[j] = 0 /\ Reruns(j)' >= 0
      BY <3>1, <1>2, <1>3, <1>4, SchedulerAssumption DEF Fresh, Reruns, Job
    <3> QED
      BY <3>2, <2>3, <1>3, <1>4, <1>2, SchedulerAssumption DEF Counted, Reruns, Job
  <2> QED
    BY <2>2, <2>3
<1> QED
  BY <1>3, <1>4, <1>5, <1>6, <1>7 DEF Queue, Used

-----------------------------------------------------------------------------
\* The worker's statements.

QueueStep == /\ jobs' \in [JobIds -> Job]
             /\ worker' \in [Workers -> [pc : WorkerPC, job : JobIds \cup {NoJob},
                                         answer : {"none", "sent", "failed"}]]
             /\ sends' \in [JobIds -> Nat]
             /\ Queue' /\ JobsKept
             /\ \A j \in JobIds : jobs'[j].msg = jobs[j].msg /\ (Used(j)' => Used(j))

LEMMA EndQueue ==
  ASSUME IInv, NEW w \in Workers, Busy(w), UNCHANGED sends, CompleteJob(w) \/ FailJob(w)
  PROVE  QueueStep
<1> USE SchedulerAssumption
<1> DEFINE j == worker[w].job
           a == jobs[j].attempts
<1>1. j \in JobIds /\ jobs[j].state = "active" /\ Fresh(j) /\ jobs[j] \in Job
      /\ a \in Nat /\ sends[j] \in Nat /\ jobs[j].stalls \in Nat
  BY DEF IInv, Queue, Locked, Counted, TypeOK, Job
<1>2. PICK n \in 0..MaxAttempts, state \in {"completed", "waiting", "failed"} :
        /\ EndJob(w, state, n)
        /\ \/ state = "completed" /\ n = a
           \/ state = "waiting" /\ n = a + 1 /\ n < MaxAttempts
           \/ state = "failed" /\ n = a + 1
  BY <1>1 DEF CompleteJob, FailJob, Fresh
<1> DEFINE r == [jobs[j] EXCEPT !.state = state, !.attempts = n]
<1>3. jobs' = [jobs EXCEPT ![j] = r] /\ worker' = [worker EXCEPT ![w] = Free]
  BY <1>2 DEF EndJob
<1>4. r \in Job /\ r.msg = jobs[j].msg /\ r.state = state
      /\ r.attempts = n /\ r.stalls = jobs[j].stalls
  BY <1>1 DEF Job, JobState
<1> HIDE DEF r
<1>5. jobs' \in [JobIds -> Job] /\ jobs'[j] = r /\ \A k \in JobIds : k # j => jobs'[k] = jobs[k]
  BY <1>1, <1>3, <1>4 DEF IInv, TypeOK
<1>6. /\ worker' \in [Workers -> [pc : WorkerPC, job : JobIds \cup {NoJob},
                                  answer : {"none", "sent", "failed"}]]
      /\ ~Busy(w)' /\ \A v \in Workers : v # w => worker'[v] = worker[v]
  BY <1>3 DEF IInv, TypeOK, Free, WorkerPC, Busy
<1> HIDE DEF j
<1>7. JobsKept /\ \A k \in JobIds : jobs'[k].msg = jobs[k].msg /\ (Used(k)' => Used(k))
  BY <1>1, <1>4, <1>5 DEF JobsKept, Used
<1>8. Locked'
  BY <1>5, <1>6 DEF IInv, Queue, Locked, Busy, Answered, j
<1>9. \A k \in JobIds : Counted(k)'
  <2> TAKE k \in JobIds
  <2>1. Counted(k)
    BY DEF IInv, Queue
  <2>2. CASE k # j
    <3>1. Past(k)' <=> Past(k)
      BY <2>2, <1>6, <1>3 DEF Past, j, Free, Busy
    <3> QED
      BY <2>1, <2>2, <3>1, <1>5 DEF Counted, Fresh, Reruns
  <2>3. CASE k = j
    <3>1. sends[j] <= a + jobs[j].stalls + 1
      BY <2>1, <2>3, <1>1 DEF Counted, Reruns
    <3>2. CASE state = "completed" /\ n = a
      BY <3>1, <3>2, <2>3, <1>1, <1>4, <1>5 DEF Counted, Reruns, Fresh
    <3>3. CASE state = "waiting" /\ n = a + 1 /\ n < MaxAttempts
      BY <3>1, <3>3, <2>3, <1>1, <1>4, <1>5 DEF Counted, Reruns, Fresh
    <3>4. CASE state = "failed" /\ n = a + 1
      BY <3>1, <3>4, <2>3, <1>1, <1>4, <1>5 DEF Counted, Reruns, Fresh
    <3> QED
      BY <3>2, <3>3, <3>4, <1>2
  <2> QED
    BY <2>2, <2>3
<1> QED
  BY <1>5, <1>6, <1>7, <1>8, <1>9 DEF QueueStep, Queue, IInv, TypeOK

LEMMA TakeQueue ==
  ASSUME IInv, NEW w \in Workers, NEW j \in JobIds, TakeJob(w, j)
  PROVE  QueueStep
<1> USE SchedulerAssumption
<1> DEFINE r == [jobs[j] EXCEPT !.state = "active"]
           f == [pc |-> "read", job |-> j, answer |-> "none"]
<1>1. /\ jobs[j].state = "waiting" /\ worker[w].pc = "free" /\ UNCHANGED sends
      /\ jobs' = [jobs EXCEPT ![j] = r] /\ worker' = [worker EXCEPT ![w] = f]
  BY DEF TakeJob
<1>2. /\ r \in Job /\ r.msg = jobs[j].msg /\ r.state = "active"
      /\ r.attempts = jobs[j].attempts /\ r.stalls = jobs[j].stalls
      /\ jobs[j].attempts \in Nat /\ jobs[j].stalls \in Nat /\ sends[j] \in Nat
  <2>1. jobs[j] \in Job /\ sends[j] \in Nat
    BY DEF IInv, TypeOK
  <2> QED
    BY <2>1 DEF Job, JobState
<1> HIDE DEF r
<1>3. jobs' \in [JobIds -> Job] /\ jobs'[j] = r /\ \A k \in JobIds : k # j => jobs'[k] = jobs[k]
  BY <1>1, <1>2 DEF IInv, TypeOK
<1>4. /\ worker' \in [Workers -> [pc : WorkerPC, job : JobIds \cup {NoJob},
                                  answer : {"none", "sent", "failed"}]]
      /\ worker'[w] = f /\ \A v \in Workers : v # w => worker'[v] = worker[v]
  BY <1>1 DEF IInv, TypeOK, WorkerPC
<1>5. JobsKept /\ \A k \in JobIds : jobs'[k].msg = jobs[k].msg /\ (Used(k)' => Used(k))
  BY <1>1, <1>2, <1>3 DEF JobsKept, Used
<1>6. Locked'
  <2>1. \A v \in Workers : v # w /\ Busy(v) => worker[v].job # j
    BY <1>1 DEF IInv, Queue, Locked
  <2> QED
    BY <2>1, <1>1, <1>2, <1>3, <1>4 DEF IInv, Queue, Locked, Busy, Answered
<1>7. \A k \in JobIds : Counted(k)'
  <2> TAKE k \in JobIds
  <2>1. Counted(k)
    BY DEF IInv, Queue
  <2>2. CASE k # j
    <3>1. Past(k)' <=> Past(k)
      BY <2>2, <1>4, <1>1 DEF Past
    <3> QED
      BY <2>1, <2>2, <3>1, <1>1, <1>3 DEF Counted, Fresh, Reruns
  <2>3. CASE k = j
    BY <2>1, <2>3, <1>1, <1>2, <1>3 DEF Counted, Fresh, Reruns
  <2> QED
    BY <2>2, <2>3
<1> QED
  BY <1>1, <1>3, <1>4, <1>5, <1>6, <1>7 DEF QueueStep, Queue, IInv, TypeOK

\* A busy worker moves on with its job.
LEMMA MoveQueue ==
  ASSUME IInv, NEW w \in Workers, Busy(w), UNCHANGED jobs,
         NEW f \in [pc : WorkerPC, job : JobIds \cup {NoJob}, answer : {"none", "sent", "failed"}],
         f.pc # "free", f.job = worker[w].job, worker' = [worker EXCEPT ![w] = f],
         f.pc \in {"save", "update"} => f.answer \in {"sent", "failed"},
         \/ /\ worker[w].pc = "save" /\ f.pc = "update" /\ f.answer = worker[w].answer
            /\ UNCHANGED sends
         \/ worker[w].pc = "read" /\ f.pc = "send" /\ UNCHANGED sends
         \/ /\ worker[w].pc = "send" /\ f.pc = "save"
            /\ \E n \in {0, 1} : /\ sends' = [sends EXCEPT ![worker[w].job] = @ + n]
                                 /\ f.answer = "sent" => n = 1
  PROVE  QueueStep
<1> USE SchedulerAssumption
<1>1. PICK j \in JobIds :
      /\ j = worker[w].job /\ jobs[j].state = "active" /\ sends[j] \in Nat /\ Answered(w)
      /\ jobs[j].attempts \in Nat /\ jobs[j].stalls \in Nat
      /\ \A v \in Workers : v # w /\ Busy(v) => worker[v].job # j
  BY DEF IInv, Queue, Locked, TypeOK, Job
<1>2. PICK n \in {0, 1} :
        /\ sends' = [sends EXCEPT ![j] = @ + n]
        /\ worker[w].pc # "send" => n = 0
        /\ worker[w].pc = "send" /\ f.answer = "sent" => n = 1
  <2>1. CASE UNCHANGED sends /\ worker[w].pc # "send"
    <3>1. sends' = [sends EXCEPT ![j] = @ + 0]
      BY <2>1, <1>1 DEF IInv, TypeOK
    <3> QED
      BY <3>1, <2>1
  <2>2. CASE worker[w].pc = "send"
    BY <1>1, <2>2
  <2> QED
    BY <2>1, <2>2
<1>3. /\ sends' \in [JobIds -> Nat] /\ sends'[j] = sends[j] + n
      /\ \A k \in JobIds : k # j => sends'[k] = sends[k]
  BY <1>1, <1>2 DEF IInv, TypeOK
<1>4. /\ worker' \in [Workers -> [pc : WorkerPC, job : JobIds \cup {NoJob},
                                  answer : {"none", "sent", "failed"}]]
      /\ worker'[w] = f /\ \A v \in Workers : v # w => worker'[v] = worker[v]
  BY DEF IInv, TypeOK
<1>5. JobsKept /\ \A k \in JobIds : jobs'[k].msg = jobs[k].msg /\ (Used(k)' => Used(k))
  BY <1>1, <1>3 DEF JobsKept, Used
<1>6. Locked'
  <2>1. Busy(w)' /\ f.job = j
    BY <1>1, <1>4 DEF Busy
  <2>2. Answered(w)'
    BY <1>1, <1>2, <1>3, <1>4, <2>1 DEF Answered
  <2>3. \A v \in Workers : v # w /\ Busy(v)' => Answered(v)' /\ worker'[v].job # j
    BY <1>1, <1>3, <1>4 DEF Answered, IInv, Queue, Locked, Busy
  <2> QED
    BY <1>1, <1>4, <2>1, <2>2, <2>3 DEF IInv, Queue, Locked, Busy
<1>7. \A k \in JobIds : Counted(k)'
  <2> TAKE k \in JobIds
  <2>1. Counted(k)
    BY DEF IInv, Queue
  <2>2. CASE k # j
    <3>1. Past(k)' <=> Past(k)
      BY <2>2, <1>1, <1>4 DEF Past
    <3> QED
      BY <2>1, <2>2, <3>1, <1>3 DEF Counted, Fresh, Reruns
  <2>3. CASE k = j
    <3>1. Past(j) <=> worker[w].pc \in {"save", "update"}
      BY <1>1 DEF Past, Busy
    <3>2. Past(j)' <=> f.pc \in {"save", "update"}
      BY <1>1, <1>4 DEF Past, Busy
    <3>3. (Past(j) => Past(j)' /\ n = 0) /\ (~Past(j)' => n = 0)
      BY <3>1, <3>2, <1>2
    <3> HIDE DEF Past
    <3>4. sends[j] <= Reruns(j) + (IF Past(j) THEN 1 ELSE 0) /\ Fresh(j)
      BY <2>1, <2>3, <1>1 DEF Counted
    <3>5. Reruns(j) \in Nat /\ Reruns(j)' = Reruns(j) /\ Fresh(j)'
      BY <1>1, <3>4 DEF Reruns, Fresh
    <3>6. sends'[j] <= Reruns(j)' + (IF Past(j)' THEN 1 ELSE 0)
      BY <3>3, <3>4, <3>5, <1>1, <1>3
    <3> QED
      BY <3>5, <3>6, <2>3, <1>1 DEF Counted
  <2> QED
    BY <2>2, <2>3
<1> QED
  BY <1>3, <1>4, <1>5, <1>6, <1>7 DEF QueueStep, Queue, IInv, TypeOK

-----------------------------------------------------------------------------
\* The statements that write records.

LEMMA RecordWritten ==
  ASSUME IInv, NEW m \in Ids, NEW r \in Record, rec' = [rec EXCEPT ![m] = r],
         r.job # NoJob => Used(r.job)
  PROVE  /\ rec' \in [Ids -> Record \cup {NoRecord}]
         /\ Saved(m)' /\ \A k \in Ids : Saved(k) => Saved(k)'
         /\ \A k \in Ids : k # m => rec'[k] = rec[k]
         /\ rec'[m] = r
         /\ \A k \in Ids : Saved(k)' /\ rec'[k].job # NoJob => Used(rec'[k].job)
BY NullAssumption DEF IInv, TypeOK, Records, Known, Saved

LEMMA StepSaveRecord == ASSUME IInv, NEW m \in Ids, SaveRecord(m) PROVE IInv'
<1> DEFINE r == [status |-> "pending", job |-> NoJob]
<1>1. /\ r \in Record /\ r.job = NoJob /\ r.status = "pending"
      /\ rec' = [rec EXCEPT ![m] = r] /\ sched' = [sched EXCEPT ![m].pc = "saved"]
      /\ UNCHANGED <<due, jobs, cancel, worker, sends, emptyTaken, todo, relinked, up, crashes, boots>>
  BY DEF SaveRecord, Record, Status
<1> HIDE DEF r
<1>2. TypeOK /\ Records /\ Queue /\ SentWasAccepted
  BY DEF IInv
<1>3. /\ sched' \in [Ids -> [pc : SchedulePC, job : JobIds \cup {NoJob}]]
      /\ \A k \in Ids : sched'[k].job = sched[k].job /\ (sched'[k].pc = "queued" => sched[k].pc = "queued")
      /\ \A k \in Ids : k # m => sched'[k] = sched[k]
  BY <1>1, <1>2 DEF TypeOK, SchedulePC
<1>20. /\ rec' \in [Ids -> Record \cup {NoRecord}]
       /\ Saved(m)' /\ \A k \in Ids : Saved(k) => Saved(k)'
       /\ \A k \in Ids : k # m => rec'[k] = rec[k]
       /\ rec'[m] = r
       /\ \A k \in Ids : Saved(k)' /\ rec'[k].job # NoJob => Used(rec'[k].job)
  BY <1>1, RecordWritten
<1>21. \A j : Used(j)' <=> Used(j)
  BY <1>1 DEF Used
<1>4. TypeOK'
  BY <1>1, <1>2, <1>3, <1>20 DEF TypeOK
<1>5. Rows'
  BY <1>1, <1>2, <1>3, <1>20, <1>21 DEF Records, Rows
<1>6. Known'
  <2>1. \A k \in Ids : sched[k].job # NoJob => Used(sched[k].job)
    BY <1>2 DEF Records, Known
  <2>2. \A k \in Ids : (sched[k].job # NoJob => Used(sched[k].job))'
    BY <1>3, <1>21, <2>1
  <2>3. \A k \in Ids : sched'[k].pc = "queued" => sched'[k].job # NoJob
    BY <1>2, <1>3 DEF Records, Known
  <2>4. \A k \in Ids : (Saved(k) /\ rec[k].job # NoJob => Used(rec[k].job))'
    BY <1>1, <1>20 DEF Used, Saved
  <2>5. /\ \A k \in Ids : (cancel[k].job # NoJob => Used(cancel[k].job))'
        /\ \A j \in relinked' : Used(j)'
    BY <1>1, <1>2, <1>21 DEF Records, Known
  <2> QED
    BY <2>2, <2>3, <2>4, <2>5 DEF Known
<1>7. Stopped'
  BY <1>1, <1>2 DEF Records, Stopped
<1>8. Queue'
  BY <1>1, <1>2, QueueUnchanged
<1>9. SentWasAccepted'
  BY <1>1, <1>2, <1>20 DEF SentWasAccepted, Saved
<1> QED
  BY <1>4, <1>5, <1>6, <1>7, <1>8, <1>9 DEF IInv, Records

LEMMA StepAddJob == ASSUME IInv, NEW m \in Ids, AddJob(m) PROVE IInv'
<1>1. PICK j \in JobIds : Add(m, j) /\ sched' = [sched EXCEPT ![m] = [pc |-> "queued", job |-> j]]
  BY DEF AddJob
<1>2. sched[m].pc = "saved"
      /\ UNCHANGED <<rec, due, cancel, worker, sends, emptyTaken, todo, relinked, up, crashes, boots>>
  BY DEF AddJob
<1>3. /\ jobs' \in [JobIds -> Job] /\ Queue' /\ JobsKept /\ Used(j)' /\ jobs'[j].msg = m
      /\ \A k \in JobIds : k # j => jobs'[k] = jobs[k]
  BY <1>1, <1>2, AddQueue
<1>4. TypeOK /\ Records /\ SentWasAccepted /\ Queue
  BY DEF IInv
<1>5. /\ sched' \in [Ids -> [pc : SchedulePC, job : JobIds \cup {NoJob}]]
      /\ sched'[m].job = j /\ \A k \in Ids : k # m => sched'[k] = sched[k]
  BY <1>1, <1>4 DEF TypeOK, SchedulePC
<1>6. TypeOK'
  BY <1>2, <1>3, <1>4, <1>5 DEF TypeOK
<1>7. Saved(m) /\ \A k \in Ids : Saved(k)' = Saved(k)
  BY <1>2, <1>4 DEF Records, Rows, Saved
<1>8. Rows'
  BY <1>2, <1>3, <1>4, <1>5, <1>7 DEF Records, Rows, Used
<1>9. Known'
  BY <1>2, <1>3, <1>4, <1>5, <1>7, SchedulerAssumption DEF Records, Known, Used, JobsKept
<1>10. Stopped'
  BY <1>2, <1>3, <1>4 DEF Records, Known, Stopped, Used, JobsKept
<1>11. SentWasAccepted'
  <2>1. sends[j] = 0
    BY <1>1, <1>4 DEF Queue, Counted, Add
  <2> QED
    BY <2>1, <1>2, <1>3, <1>4, <1>7 DEF SentWasAccepted
<1> QED
  BY <1>3, <1>6, <1>8, <1>9, <1>10, <1>11 DEF IInv, Records

LEMMA StepRecordJob == ASSUME IInv, NEW m \in Ids, RecordJob(m) PROVE IInv'
<1>1. TypeOK /\ Records /\ Queue /\ SentWasAccepted
  BY DEF IInv
<1>2. /\ sched[m].pc = "queued" /\ rec' = [rec EXCEPT ![m].job = sched[m].job]
      /\ sched' = [sched EXCEPT ![m].pc = "done"]
      /\ UNCHANGED <<due, jobs, cancel, worker, sends, emptyTaken, todo, relinked, up, crashes, boots>>
  BY DEF RecordJob
<1>3. rec[m] \in Record /\ Saved(m) /\ Used(sched[m].job)
  BY <1>1, <1>2 DEF TypeOK, Records, Rows, Known, Saved
<1> DEFINE r == [rec[m] EXCEPT !.job = sched[m].job]
<1>4. r \in Record /\ r.job = sched[m].job /\ r.status = rec[m].status /\ rec' = [rec EXCEPT ![m] = r]
  BY <1>2, <1>3 DEF Record, Used
<1> HIDE DEF r
<1>5. /\ sched' \in [Ids -> [pc : SchedulePC, job : JobIds \cup {NoJob}]]
      /\ \A k \in Ids : sched'[k].job = sched[k].job /\ (sched'[k].pc = "queued" => sched[k].pc = "queued")
      /\ \A k \in Ids : k # m => sched'[k] = sched[k]
  BY <1>1, <1>2 DEF TypeOK, SchedulePC
<1>20. /\ rec' \in [Ids -> Record \cup {NoRecord}]
       /\ Saved(m)' /\ \A k \in Ids : Saved(k) => Saved(k)'
       /\ \A k \in Ids : k # m => rec'[k] = rec[k]
       /\ rec'[m] = r
       /\ \A k \in Ids : Saved(k)' /\ rec'[k].job # NoJob => Used(rec'[k].job)
  BY <1>3, <1>4, RecordWritten
<1>21. \A j : Used(j)' <=> Used(j)
  BY <1>2 DEF Used
<1>6. TypeOK'
  BY <1>1, <1>2, <1>3, <1>4, <1>5, <1>20 DEF TypeOK
<1>7. Rows'
  BY <1>1, <1>2, <1>3, <1>4, <1>5, <1>20, <1>21 DEF Records, Rows
<1>8. Known'
  BY <1>1, <1>2, <1>3, <1>4, <1>5, <1>20, <1>21 DEF Records, Known
<1>9. Stopped'
  BY <1>1, <1>2 DEF Records, Stopped
<1>10. Queue'
  BY <1>1, <1>2, QueueUnchanged
<1>11. SentWasAccepted'
  BY <1>1, <1>2, <1>3, <1>4, <1>20 DEF SentWasAccepted, Saved
<1> QED
  BY <1>6, <1>7, <1>8, <1>9, <1>10, <1>11 DEF IInv, Records

LEMMA StepPassTime == ASSUME IInv, NEW m \in Ids, PassTime(m) PROVE IInv'
<1>1. due' \subseteq Ids
      /\ UNCHANGED <<rec, jobs, sched, cancel, worker, sends, emptyTaken, todo, relinked, up, crashes, boots>>
  BY DEF PassTime, IInv, TypeOK
<1>2. TypeOK'
  BY <1>1 DEF IInv, TypeOK
<1>3. Queue'
  BY <1>1, QueueUnchanged DEF IInv
<1>4. Records' /\ SentWasAccepted'
  BY <1>1, RecordsUnchanged DEF JobsKept, NewJobsSaved, Used
<1> QED
  BY <1>2, <1>3, <1>4 DEF IInv

-----------------------------------------------------------------------------
\* Cancellation.

LEMMA StepReadForCancel == ASSUME IInv, NEW m \in Ids, ReadForCancel(m) PROVE IInv'
<1>1. TypeOK /\ Records /\ Queue /\ SentWasAccepted
  BY DEF IInv
<1> DEFINE c == [pc |-> "read", job |-> rec[m].job]
<1>2. /\ Saved(m) /\ cancel' = [cancel EXCEPT ![m] = c]
      /\ UNCHANGED <<rec, due, jobs, sched, worker, sends, emptyTaken, todo, relinked, up, crashes, boots>>
  BY DEF ReadForCancel, Pending
<1>3. c.pc = "read" /\ c.job = rec[m].job /\ c \in [pc : CancelPC, job : JobIds \cup {NoJob}]
  BY <1>1, <1>2 DEF TypeOK, Saved, Record, CancelPC
<1> HIDE DEF c
<1>4. /\ cancel' \in [Ids -> [pc : CancelPC, job : JobIds \cup {NoJob}]]
      /\ cancel'[m] = c /\ \A k \in Ids : k # m => cancel'[k] = cancel[k]
  BY <1>1, <1>2, <1>3 DEF TypeOK
<1>5. TypeOK'
  BY <1>1, <1>2, <1>4 DEF TypeOK
<1>6. Rows'
  BY <1>1, <1>2, <1>4 DEF Records, Rows, Saved, Used
<1>7. Known'
  BY <1>1, <1>2, <1>3, <1>4 DEF Records, Known, Saved, Used
<1>8. Stopped'
  BY <1>1, <1>2, <1>3, <1>4 DEF Records, Stopped
<1>9. Queue'
  BY <1>1, <1>2, QueueUnchanged
<1>10. SentWasAccepted'
  BY <1>1, <1>2 DEF SentWasAccepted, Saved
<1> QED
  BY <1>5, <1>6, <1>7, <1>8, <1>9, <1>10 DEF IInv, Records

\* A cancellation, or a crash in it, moves on and keeps the job it read.
CancelMoves == /\ cancel' \in [Ids -> [pc : CancelPC, job : JobIds \cup {NoJob}]]
               /\ \A k \in Ids : /\ cancel'[k].job = cancel[k].job
                                 /\ cancel[k].pc = "idle" => cancel'[k].pc = "idle"

LEMMA RemoveQueue ==
  ASSUME IInv, NEW j \in JobIds, Exists(j), jobs[j].state # "active",
         jobs' = [jobs EXCEPT ![j].state = "removed"], UNCHANGED <<worker, sends>>
  PROVE  /\ jobs' \in [JobIds -> Job] /\ Queue' /\ JobsKept /\ jobs'[j].state = "removed"
         /\ \A k \in JobIds : jobs'[k].msg = jobs[k].msg /\ (Used(k)' => Used(k))
<1> USE SchedulerAssumption
<1> DEFINE r == [jobs[j] EXCEPT !.state = "removed"]
<1>1. jobs[j] \in Job /\ sends[j] \in Nat /\ Counted(j) /\ jobs' = [jobs EXCEPT ![j] = r]
  BY DEF IInv, TypeOK, Queue
<1>2. /\ r \in Job /\ r.msg = jobs[j].msg /\ r.state = "removed"
      /\ r.attempts = jobs[j].attempts /\ r.stalls = jobs[j].stalls
      /\ jobs[j].attempts \in Nat /\ jobs[j].stalls \in Nat
      /\ jobs[j].state \in {"waiting", "completed", "failed"}
  BY <1>1 DEF Job, JobState, Exists
<1> HIDE DEF r
<1>3. jobs' \in [JobIds -> Job] /\ jobs'[j] = r /\ \A k \in JobIds : k # j => jobs'[k] = jobs[k]
  BY <1>1, <1>2 DEF IInv, TypeOK
<1>4. JobsKept /\ \A k \in JobIds : jobs'[k].msg = jobs[k].msg /\ (Used(k)' => Used(k))
  BY <1>2, <1>3 DEF JobsKept, Used
<1>5. Locked'
  BY <1>3 DEF IInv, Queue, Locked, Busy, Answered
<1>6. \A k \in JobIds : Counted(k)'
  <2> TAKE k \in JobIds
  <2>1. CASE k # j
    BY <2>1, <1>3 DEF IInv, Queue, Counted, Past, Fresh, Reruns
  <2>2. CASE k = j
    BY <2>2, <1>1, <1>2, <1>3 DEF Counted, Fresh, Reruns
  <2> QED
    BY <2>1, <2>2
<1> QED
  BY <1>2, <1>3, <1>4, <1>5, <1>6 DEF Queue

LEMMA StepRemoveJob == ASSUME IInv, NEW m \in Ids, RemoveJob(m) PROVE IInv'
<1>1. TypeOK /\ Records /\ Queue /\ SentWasAccepted
  BY DEF IInv
<1>2. cancel[m].pc = "read"
      /\ UNCHANGED <<rec, due, sched, worker, sends, emptyTaken, todo, relinked, up, crashes, boots>>
  BY DEF RemoveJob
<1>3. PICK pc \in {"removed", "error"} :
        /\ cancel' = [cancel EXCEPT ![m].pc = pc]
        /\ \/ pc = "removed" /\ ~Exists(cancel[m].job) /\ UNCHANGED jobs
           \/ pc = "error" /\ UNCHANGED jobs
           \/ /\ Exists(cancel[m].job) /\ jobs[cancel[m].job].state # "active"
              /\ jobs' = [jobs EXCEPT ![cancel[m].job].state = "removed"]
  BY DEF RemoveJob
<1>4. /\ CancelMoves /\ cancel'[m].pc = pc /\ \A k \in Ids : k # m => cancel'[k] = cancel[k]
  BY <1>1, <1>2, <1>3 DEF CancelMoves, TypeOK, CancelPC
<1>5. /\ jobs' \in [JobIds -> Job] /\ Queue' /\ JobsKept
      /\ \A k \in JobIds : jobs'[k].msg = jobs[k].msg /\ (Used(k)' => Used(k))
      /\ pc = "removed" /\ cancel[m].job # NoJob => jobs'[cancel[m].job].state = "removed"
  <2>1. CASE UNCHANGED jobs /\ (pc = "error" \/ ~Exists(cancel[m].job))
    <3>1. Queue'
      BY <1>1, <1>2, <2>1, QueueUnchanged
    <3>2. cancel[m].job # NoJob => Used(cancel[m].job)
      BY <1>1 DEF Records, Known
    <3> QED
      BY <1>1, <1>2, <2>1, <3>1, <3>2 DEF TypeOK, JobsKept, Used, Exists
  <2>2. CASE /\ Exists(cancel[m].job) /\ jobs[cancel[m].job].state # "active"
             /\ jobs' = [jobs EXCEPT ![cancel[m].job].state = "removed"]
    <3>1. PICK j \in JobIds : j = cancel[m].job
      BY <2>2 DEF Exists
    <3> QED
      BY <1>2, <2>2, <3>1, RemoveQueue
  <2> QED
    BY <1>3, <2>1, <2>2
<1>6. TypeOK'
  BY <1>1, <1>2, <1>4, <1>5 DEF TypeOK, CancelMoves
<1>7. Rows'
  BY <1>1, <1>2, <1>4, <1>5 DEF Records, Rows, CancelMoves, Saved, Used
<1>8. Known'
  BY <1>1, <1>2, <1>4, <1>5 DEF Records, Known, CancelMoves, JobsKept, Saved, Used
<1>9. Stopped'
  <2> SUFFICES ASSUME NEW k \in Ids, cancel'[k].pc \in {"removed", "done"}, cancel'[k].job # NoJob
               PROVE  jobs'[cancel'[k].job].state = "removed"
    BY DEF Stopped
  <2>1. CASE k = m
    BY <2>1, <1>3, <1>4, <1>5 DEF CancelMoves
  <2>2. CASE k # m
    BY <2>2, <1>1, <1>4, <1>5 DEF Records, Known, Stopped, JobsKept, Used
  <2> QED
    BY <2>1, <2>2
<1>10. SentWasAccepted'
  BY <1>1, <1>2, <1>5 DEF SentWasAccepted, Saved
<1> QED
  BY <1>5, <1>6, <1>7, <1>8, <1>9, <1>10 DEF IInv, Records

LEMMA StepStoreCancelled == ASSUME IInv, NEW m \in Ids, StoreCancelled(m) PROVE IInv'
<1>1. TypeOK /\ Records /\ Queue /\ SentWasAccepted
  BY DEF IInv
<1>2. /\ cancel[m].pc = "removed" /\ rec' = [rec EXCEPT ![m].status = "cancelled"]
      /\ cancel' = [cancel EXCEPT ![m].pc = "done"]
      /\ UNCHANGED <<due, jobs, sched, worker, sends, emptyTaken, todo, relinked, up, crashes, boots>>
  BY DEF StoreCancelled
<1>3. rec[m] \in Record /\ (rec[m].job # NoJob => Used(rec[m].job))
  BY <1>1, <1>2 DEF TypeOK, Records, Rows, Known, Saved
<1> DEFINE r == [rec[m] EXCEPT !.status = "cancelled"]
<1>4. r \in Record /\ r.job = rec[m].job /\ r.status = "cancelled" /\ rec' = [rec EXCEPT ![m] = r]
  BY <1>2, <1>3 DEF Record, Status
<1> HIDE DEF r
<1>5. /\ rec' \in [Ids -> Record \cup {NoRecord}]
      /\ Saved(m)' /\ \A k \in Ids : Saved(k) => Saved(k)'
      /\ \A k \in Ids : k # m => rec'[k] = rec[k]
      /\ rec'[m] = r
      /\ \A k \in Ids : Saved(k)' /\ rec'[k].job # NoJob => Used(rec'[k].job)
  BY <1>3, <1>4, RecordWritten
<1>6. CancelMoves /\ \A k \in Ids : k # m => cancel'[k] = cancel[k]
  BY <1>1, <1>2 DEF CancelMoves, TypeOK, CancelPC
<1>7. TypeOK'
  BY <1>1, <1>2, <1>5, <1>6 DEF TypeOK, CancelMoves
<1>8. Rows'
  BY <1>1, <1>2, <1>5, <1>6 DEF Records, Rows, CancelMoves, Used
<1>9. Known'
  BY <1>1, <1>2, <1>5, <1>6 DEF Records, Known, CancelMoves, Used
<1>10. Stopped'
  BY <1>1, <1>2, <1>6 DEF Records, Stopped, CancelMoves
<1>11. Queue'
  BY <1>1, <1>2, QueueUnchanged
<1>12. SentWasAccepted'
  BY <1>1, <1>2, <1>4, <1>5 DEF SentWasAccepted, Saved
<1> QED
  BY <1>7, <1>8, <1>9, <1>10, <1>11, <1>12 DEF IInv, Records

-----------------------------------------------------------------------------
\* The worker.

LEMMA WorkerStep ==
  ASSUME IInv, QueueStep, emptyTaken' \in BOOLEAN,
         UNCHANGED <<rec, due, sched, cancel, todo, relinked, up, crashes, boots>>
  PROVE  IInv'
<1>1. TypeOK'
  BY DEF IInv, TypeOK, QueueStep
<1>2. Records' /\ SentWasAccepted'
  <2>1. JobsKept /\ NewJobsSaved
    BY DEF QueueStep, NewJobsSaved, Used
  <2> QED
    BY <2>1, RecordsUnchanged
<1> QED
  BY <1>1, <1>2 DEF IInv, QueueStep

LEMMA StepStoreOutcome == ASSUME IInv, NEW w \in Workers, StoreOutcome(w) PROVE IInv'
<1>1. TypeOK /\ Records /\ Queue /\ SentWasAccepted
  BY DEF IInv
<1>2. /\ Busy(w) /\ worker[w].pc = "update" /\ CompleteJob(w)
      /\ rec' = [rec EXCEPT ![jobs[worker[w].job].msg].status = worker[w].answer]
      /\ UNCHANGED <<due, sched, cancel, sends, emptyTaken, todo, relinked, up, crashes, boots>>
  BY DEF StoreOutcome, Busy
<1>3. QueueStep
  BY <1>2, EndQueue
<1>4. PICK j \in JobIds : /\ j = worker[w].job /\ Used(j)
                          /\ worker[w].answer \in {"sent", "failed"}
                          /\ worker[w].answer = "sent" => sends[j] > 0
  BY <1>1, <1>2 DEF Queue, Locked, Answered, Used
<1>5. PICK m \in Ids : m = jobs[j].msg /\ Saved(m)
  BY <1>1, <1>4 DEF Records, Rows
<1>6. rec[m] \in Record /\ (rec[m].job # NoJob => Used(rec[m].job))
  BY <1>1, <1>5 DEF TypeOK, Records, Known, Saved
<1> DEFINE r == [rec[m] EXCEPT !.status = worker[w].answer]
<1>7. r \in Record /\ r.job = rec[m].job /\ r.status = worker[w].answer /\ rec' = [rec EXCEPT ![m] = r]
  BY <1>2, <1>4, <1>5, <1>6 DEF Record, Status
<1> HIDE DEF r
<1>8. /\ rec' \in [Ids -> Record \cup {NoRecord}]
      /\ Saved(m)' /\ \A k \in Ids : Saved(k) => Saved(k)'
      /\ \A k \in Ids : k # m => rec'[k] = rec[k]
      /\ rec'[m] = r
      /\ \A k \in Ids : Saved(k)' /\ rec'[k].job # NoJob => Used(rec'[k].job)
  BY <1>6, <1>7, RecordWritten
<1>9. TypeOK'
  BY <1>1, <1>2, <1>3, <1>8 DEF TypeOK, QueueStep
<1>10. Rows'
  BY <1>1, <1>2, <1>3, <1>8 DEF Records, Rows, QueueStep
<1>11. Known'
  BY <1>1, <1>2, <1>3, <1>8 DEF Records, Known, QueueStep, JobsKept, Used
<1>12. Stopped'
  BY <1>1, <1>2, <1>3 DEF Records, Stopped, Known, QueueStep, JobsKept, Used
<1>13. SentWasAccepted'
  <2> SUFFICES ASSUME NEW k \in Ids, Saved(k)', rec'[k].status = "sent"
               PROVE  \E i \in JobIds : jobs'[i].msg = k /\ sends'[i] > 0
    BY DEF SentWasAccepted
  <2>1. CASE k = m
    BY <2>1, <1>2, <1>3, <1>4, <1>5, <1>7, <1>8 DEF QueueStep
  <2>2. CASE k # m
    <3>1. PICK i \in JobIds : jobs[i].msg = k /\ sends[i] > 0
      BY <2>2, <1>1, <1>8 DEF SentWasAccepted, Saved
    <3> QED
      BY <3>1, <1>2, <1>3 DEF QueueStep
  <2> QED
    BY <2>1, <2>2
<1> QED
  BY <1>3, <1>9, <1>10, <1>11, <1>12, <1>13 DEF IInv, Records, QueueStep

LEMMA StepWorking == ASSUME IInv, NEW w \in Workers, Working(w) PROVE IInv'
<1>1. TypeOK /\ Queue
  BY DEF IInv
<1>2. ASSUME NEW j \in JobIds, TakeJob(w, j) PROVE IInv'
  <2>1. emptyTaken' \in BOOLEAN
        /\ UNCHANGED <<rec, due, sched, cancel, todo, relinked, up, crashes, boots>>
    BY <1>1, <1>2 DEF TakeJob, TypeOK
  <2>2. QueueStep
    BY <1>2, TakeQueue
  <2> QED
    BY <2>1, <2>2, WorkerStep
<1> DEFINE Worker == [pc : WorkerPC, job : JobIds \cup {NoJob}, answer : {"none", "sent", "failed"}]
<1>3. worker[w] \in Worker /\ worker \in [Workers -> Worker]
  BY <1>1 DEF TypeOK
<1>4. CASE ReadRecord(w)
  <2> DEFINE f == [worker[w] EXCEPT !.pc = "send"]
  <2>1. Busy(w) /\ worker[w].pc = "read" /\ UNCHANGED sends /\ emptyTaken' \in BOOLEAN
        /\ UNCHANGED <<rec, due, sched, cancel, todo, relinked, up, crashes, boots>>
    BY <1>1, <1>4 DEF ReadRecord, TypeOK, Busy
  <2>2. \/ CompleteJob(w)
        \/ worker' = [worker EXCEPT ![w] = f] /\ UNCHANGED jobs
    BY <1>4 DEF ReadRecord
  <2>3. f \in Worker /\ f.pc = "send" /\ f.job = worker[w].job
    BY <1>3 DEF WorkerPC
  <2> HIDE DEF f
  <2>4. QueueStep
    <3>1. CASE CompleteJob(w)
      BY <3>1, <2>1, EndQueue
    <3>2. CASE worker' = [worker EXCEPT ![w] = f] /\ UNCHANGED jobs
      BY <3>2, <2>1, <2>3, MoveQueue
    <3> QED
      BY <3>1, <3>2, <2>2
  <2> QED
    BY <2>1, <2>4, WorkerStep
<1>5. CASE SendMessage(w)
  <2>1. Busy(w) /\ worker[w].pc = "send" /\ emptyTaken' \in BOOLEAN
        /\ UNCHANGED <<rec, due, sched, cancel, todo, relinked, up, crashes, boots>>
    BY <1>1, <1>5 DEF SendMessage, TypeOK, Busy
  <2>2. CASE FailJob(w) /\ UNCHANGED sends
    <3>1. QueueStep
      BY <2>1, <2>2, EndQueue
    <3> QED
      BY <2>1, <3>1, WorkerStep
  <2>3. ASSUME NEW answer \in {"sent", "failed"}, NEW accepted \in BOOLEAN,
               answer = "sent" => accepted,
               worker' = [worker EXCEPT ![w].pc = "save", ![w].answer = answer],
               sends' = [sends EXCEPT ![worker[w].job] = @ + (IF accepted THEN 1 ELSE 0)],
               UNCHANGED jobs
        PROVE  IInv'
    <3> DEFINE f == [worker[w] EXCEPT !.pc = "save", !.answer = answer]
               n == IF accepted THEN 1 ELSE 0
    <3>1. f \in Worker /\ f.pc = "save" /\ f.job = worker[w].job /\ f.answer = answer
      BY <1>3 DEF WorkerPC
    <3>2. worker' = [worker EXCEPT ![w] = f]
      BY <1>3, <2>3
    <3>3. n \in {0, 1} /\ (f.answer = "sent" => n = 1)
          /\ sends' = [sends EXCEPT ![worker[w].job] = @ + n]
      BY <2>3, <3>1
    <3> HIDE DEF f, n
    <3>4. QueueStep
      BY <2>1, <2>3, <3>1, <3>2, <3>3, MoveQueue
    <3> QED
      BY <2>1, <3>4, WorkerStep
  <2> QED
    BY <1>5, <2>2, <2>3 DEF SendMessage
<1>6. CASE SaveMessageRow(w)
  <2> DEFINE f == [worker[w] EXCEPT !.pc = "update"]
  <2>1. Busy(w) /\ worker[w].pc = "save" /\ UNCHANGED sends /\ emptyTaken' \in BOOLEAN
        /\ UNCHANGED <<rec, due, sched, cancel, todo, relinked, up, crashes, boots>>
    BY <1>1, <1>6 DEF SaveMessageRow, TypeOK, Busy
  <2>2. FailJob(w) \/ (worker' = [worker EXCEPT ![w] = f] /\ UNCHANGED jobs)
    BY <1>6 DEF SaveMessageRow
  <2>3. /\ f \in Worker /\ f.pc = "update" /\ f.job = worker[w].job
        /\ f.answer = worker[w].answer /\ f.answer \in {"sent", "failed"}
    BY <1>1, <1>3, <2>1 DEF WorkerPC, Queue, Locked, Answered
  <2> HIDE DEF f
  <2>4. QueueStep
    <3>1. CASE FailJob(w)
      BY <3>1, <2>1, EndQueue
    <3>2. CASE worker' = [worker EXCEPT ![w] = f] /\ UNCHANGED jobs
      BY <3>2, <2>1, <2>3, MoveQueue
    <3> QED
      BY <3>1, <3>2, <2>2
  <2> QED
    BY <2>1, <2>4, WorkerStep
<1> QED
  BY <1>2, <1>4, <1>5, <1>6, StepStoreOutcome DEF Working

-----------------------------------------------------------------------------
\* Crash, boot and reconciliation.

LEMMA CrashQueue ==
  ASSUME IInv, Crash
  PROVE  /\ jobs' \in [JobIds -> Job] /\ Queue' /\ JobsKept
         /\ \A k \in JobIds : jobs'[k].msg = jobs[k].msg /\ (Used(k)' => Used(k))
<1> USE SchedulerAssumption
<1>1. /\ worker' = [w \in Workers |-> Free] /\ UNCHANGED sends
      /\ jobs' = [j \in JobIds |-> IF jobs[j].state = "active" THEN Stall(jobs[j]) ELSE jobs[j]]
  BY DEF Crash
<1>2. \A w \in Workers : ~Busy(w)'
  BY <1>1 DEF Busy, Free
<1>3. ASSUME NEW j \in JobIds
      PROVE  /\ jobs'[j] \in Job /\ jobs'[j].msg = jobs[j].msg /\ Counted(j)'
             /\ (jobs'[j].state = "unused") <=> (jobs[j].state = "unused")
             /\ jobs[j].state = "removed" => jobs'[j].state = "removed"
  <2>1. jobs[j] \in Job /\ Counted(j) /\ sends[j] \in Nat
    BY DEF IInv, Queue, TypeOK
  <2>2. CASE jobs[j].state # "active"
    BY <1>1, <2>1, <2>2 DEF Counted, Fresh, Reruns
  <2>3. CASE jobs[j].state = "active"
    <3>1. /\ Fresh(j) /\ sends[j] <= Reruns(j) + 1
          /\ jobs[j].attempts \in Nat /\ jobs[j].stalls \in Nat
      BY <2>1, <2>3 DEF Counted, Job, Reruns
    <3>2. jobs'[j] = Stall(jobs[j])
      BY <1>1, <2>3
    <3>3. /\ Stall(jobs[j]) \in Job /\ Stall(jobs[j]).msg = jobs[j].msg
          /\ Stall(jobs[j]).attempts = jobs[j].attempts
          /\ Stall(jobs[j]).stalls = jobs[j].stalls + 1
          /\ \/ Stall(jobs[j]).state = "waiting" /\ jobs[j].stalls < MaxStalls
             \/ Stall(jobs[j]).state = "failed" /\ ~(jobs[j].stalls < MaxStalls)
      <4> DEFINE r == jobs[j]
      <4>1. r \in Job /\ r.stalls \in Nat /\ r.stalls + 1 \in 0..(MaxStalls + 1)
        BY <2>1, <3>1 DEF Fresh
      <4> HIDE DEF r
      <4>2. PICK state \in {"waiting", "failed"} :
              /\ Stall(r) = [r EXCEPT !.state = state, !.stalls = @ + 1]
              /\ (state = "waiting") <=> (r.stalls < MaxStalls)
        BY DEF Stall
      <4>3. Stall(r) \in Job /\ Stall(r).msg = r.msg /\ Stall(r).attempts = r.attempts
            /\ Stall(r).stalls = r.stalls + 1 /\ Stall(r).state = state
        BY <4>1, <4>2 DEF Job, JobState
      <4> QED
        BY <4>2, <4>3 DEF r
    <3> HIDE DEF Stall
    <3>4. Counted(j)'
      BY <1>1, <2>1, <3>1, <3>2, <3>3 DEF Counted, Fresh, Reruns
    <3> QED
      BY <2>3, <3>2, <3>3, <3>4
  <2> QED
    BY <2>2, <2>3
<1>4. Locked'
  BY <1>2 DEF Locked
<1>5. jobs' \in [JobIds -> Job]
  BY <1>1, <1>3
<1>6. JobsKept /\ \A k \in JobIds : jobs'[k].msg = jobs[k].msg /\ (Used(k)' => Used(k))
  BY <1>1, <1>3 DEF JobsKept, Used
<1> QED
  BY <1>3, <1>4, <1>5, <1>6 DEF Queue

LEMMA StepCrash == ASSUME IInv, Crash PROVE IInv'
<1>1. TypeOK /\ Records /\ Queue /\ SentWasAccepted
  BY DEF IInv
<1>2. /\ jobs' \in [JobIds -> Job] /\ Queue' /\ JobsKept
      /\ \A k \in JobIds : jobs'[k].msg = jobs[k].msg /\ (Used(k)' => Used(k))
  BY CrashQueue
<1>3. /\ UNCHANGED <<rec, due, sends, emptyTaken, boots>>
      /\ todo' = {} /\ relinked' = {} /\ up' = FALSE /\ crashes < MaxCrashes /\ crashes' = crashes + 1
      /\ worker' = [w \in Workers |-> Free]
  BY DEF Crash
<1>4. /\ sched' \in [Ids -> [pc : SchedulePC, job : JobIds \cup {NoJob}]]
      /\ \A k \in Ids : /\ sched'[k].job = sched[k].job
                        /\ sched[k].pc = "idle" => sched'[k].pc = "idle"
                        /\ sched'[k].pc # "queued"
  <2>1. sched' = [m \in Ids |-> IF sched[m].pc \in {"saved", "queued"}
                                THEN [sched[m] EXCEPT !.pc = "dead"] ELSE sched[m]]
    BY DEF Crash
  <2> QED
    BY <1>1, <2>1 DEF TypeOK, SchedulePC
<1>5. CancelMoves /\ \A k \in Ids : cancel'[k].pc \in {"removed", "done"} => cancel'[k] = cancel[k]
  <2>1. cancel' = [m \in Ids |-> IF cancel[m].pc \in {"read", "removed"}
                                 THEN [cancel[m] EXCEPT !.pc = "error"] ELSE cancel[m]]
    BY DEF Crash
  <2> QED
    BY <1>1, <2>1 DEF CancelMoves, TypeOK, CancelPC
<1>6. TypeOK'
  <2>1. worker' \in [Workers -> [pc : WorkerPC, job : JobIds \cup {NoJob},
                                 answer : {"none", "sent", "failed"}]]
    BY <1>3 DEF Free, WorkerPC
  <2>2. crashes' \in 0..MaxCrashes
    BY <1>1, <1>3, SchedulerAssumption DEF TypeOK
  <2>3. cancel' \in [Ids -> [pc : CancelPC, job : JobIds \cup {NoJob}]]
    BY <1>5 DEF CancelMoves
  <2> QED
    BY <1>1, <1>2, <1>3, <1>4, <2>1, <2>2, <2>3 DEF TypeOK
<1>7. Rows'
  BY <1>1, <1>2, <1>3, <1>4, <1>5 DEF Records, Rows, CancelMoves, Saved, Used
<1>8. Known'
  <2>1. \A j : Used(j) => Used(j)'
    BY <1>2 DEF JobsKept, Used
  <2>2. \A k \in Ids : (sched[k].job # NoJob => Used(sched[k].job))'
    BY <1>1, <1>4, <2>1 DEF Records, Known
  <2>3. \A k \in Ids : (Saved(k) /\ rec[k].job # NoJob => Used(rec[k].job))'
    BY <1>1, <1>3, <2>1 DEF Records, Known, Saved
  <2>4. \A k \in Ids : (cancel[k].job # NoJob => Used(cancel[k].job))'
    BY <1>1, <1>5, <2>1 DEF Records, Known, CancelMoves
  <2> QED
    BY <1>3, <1>4, <2>2, <2>3, <2>4 DEF Known
<1>9. Stopped'
  BY <1>1, <1>2, <1>5 DEF Records, Known, Stopped, JobsKept, Used
<1>10. SentWasAccepted'
  BY <1>1, <1>2, <1>3 DEF SentWasAccepted, Saved
<1> QED
  BY <1>2, <1>6, <1>7, <1>8, <1>9, <1>10 DEF IInv, Records

LEMMA StepBoot == ASSUME IInv, Boot PROVE IInv'
<1>1. TypeOK /\ Records /\ Queue /\ SentWasAccepted
  BY DEF IInv
<1>2. /\ boots < MaxBoots /\ boots' = boots + 1 /\ up' = TRUE
      /\ todo' \subseteq Ids /\ \A m \in todo' : Saved(m)
      /\ UNCHANGED <<rec, due, jobs, sched, cancel, worker, sends, emptyTaken, relinked, crashes>>
  BY DEF Boot, Pending
<1>3. TypeOK'
  BY <1>1, <1>2, SchedulerAssumption DEF TypeOK
<1>4. Queue'
  BY <1>1, <1>2, QueueUnchanged
<1>5. Records'
  BY <1>1, <1>2 DEF Records, Rows, Known, Stopped, Saved, Used
<1>6. SentWasAccepted'
  BY <1>1, <1>2 DEF SentWasAccepted, Saved
<1> QED
  BY <1>3, <1>4, <1>5, <1>6 DEF IInv

LEMMA StepReconcileAdd == ASSUME IInv, NEW m \in Ids, ReconcileAdd(m) PROVE IInv'
<1>1. TypeOK /\ Records /\ Queue /\ SentWasAccepted
  BY DEF IInv
<1>2. PICK j \in JobIds : Add(m, j) /\ relinked' = relinked \cup {j}
  BY DEF ReconcileAdd
<1>3. m \in todo /\ todo' = todo \ {m}
      /\ UNCHANGED <<rec, due, sched, cancel, worker, sends, emptyTaken, up, crashes, boots>>
  BY DEF ReconcileAdd
<1>4. /\ jobs' \in [JobIds -> Job] /\ Queue' /\ JobsKept /\ Used(j)' /\ jobs'[j].msg = m
      /\ \A k \in JobIds : k # j => jobs'[k] = jobs[k]
  BY <1>2, <1>3, AddQueue
<1>5. Saved(m) /\ \A k \in Ids : Saved(k)' = Saved(k)
  BY <1>1, <1>3 DEF Records, Rows, Saved
<1>6. TypeOK'
  BY <1>1, <1>2, <1>3, <1>4 DEF TypeOK
<1>7. Rows'
  BY <1>1, <1>3, <1>4, <1>5 DEF Records, Rows, Used
<1>8. Known'
  BY <1>1, <1>2, <1>3, <1>4, <1>5 DEF Records, Known, Used, JobsKept
<1>9. Stopped'
  BY <1>1, <1>3, <1>4 DEF Records, Known, Stopped, Used, JobsKept
<1>10. SentWasAccepted'
  <2>1. sends[j] = 0
    BY <1>1, <1>2 DEF Queue, Counted, Add
  <2> QED
    BY <2>1, <1>1, <1>3, <1>4, <1>5 DEF SentWasAccepted
<1> QED
  BY <1>4, <1>6, <1>7, <1>8, <1>9, <1>10 DEF IInv, Records

LEMMA StepReconcileRecord == ASSUME IInv, NEW j \in JobIds, ReconcileRecord(j) PROVE IInv'
<1>1. TypeOK /\ Records /\ Queue /\ SentWasAccepted
  BY DEF IInv
<1>2. /\ j \in relinked /\ relinked' = relinked \ {j}
      /\ rec' = [rec EXCEPT ![jobs[j].msg].job = j]
      /\ UNCHANGED <<due, jobs, sched, cancel, worker, sends, emptyTaken, todo, up, crashes, boots>>
  BY DEF ReconcileRecord
<1>3. Used(j)
  BY <1>1, <1>2 DEF Records, Known
<1>4. PICK m \in Ids : m = jobs[j].msg /\ Saved(m) /\ rec[m] \in Record
  BY <1>1, <1>3 DEF Records, Rows, TypeOK, Saved
<1> DEFINE r == [rec[m] EXCEPT !.job = j]
<1>5. r \in Record /\ r.job = j /\ r.status = rec[m].status /\ rec' = [rec EXCEPT ![m] = r]
  BY <1>2, <1>4 DEF Record
<1> HIDE DEF r
<1>6. /\ rec' \in [Ids -> Record \cup {NoRecord}]
      /\ Saved(m)' /\ \A k \in Ids : Saved(k) => Saved(k)'
      /\ \A k \in Ids : k # m => rec'[k] = rec[k]
      /\ rec'[m] = r
      /\ \A k \in Ids : Saved(k)' /\ rec'[k].job # NoJob => Used(rec'[k].job)
  BY <1>3, <1>5, RecordWritten
<1>7. TypeOK'
  BY <1>1, <1>2, <1>6 DEF TypeOK
<1>8. Rows'
  BY <1>1, <1>2, <1>6 DEF Records, Rows, Used
<1>9. Known'
  BY <1>1, <1>2, <1>6 DEF Records, Known, Used
<1>10. Stopped'
  BY <1>1, <1>2 DEF Records, Stopped
<1>11. Queue'
  BY <1>1, <1>2, QueueUnchanged
<1>12. SentWasAccepted'
  BY <1>1, <1>2, <1>4, <1>5, <1>6 DEF SentWasAccepted, Saved
<1> QED
  BY <1>7, <1>8, <1>9, <1>10, <1>11, <1>12 DEF IInv, Records

-----------------------------------------------------------------------------
LEMMA NextIInv == IInv /\ [Next]_vars => IInv'
<1> SUFFICES ASSUME IInv, [Next]_vars PROVE IInv'
  OBVIOUS
<1>1. CASE Scheduling
  BY <1>1, StepSaveRecord, StepAddJob, StepRecordJob DEF Scheduling
<1>2. CASE \E m \in Ids : PassTime(m)
  BY <1>2, StepPassTime
<1>3. CASE Cancelling
  BY <1>3, StepReadForCancel, StepRemoveJob, StepStoreCancelled DEF Cancelling
<1>4. CASE \E w \in Workers : Working(w)
  BY <1>4, StepWorking
<1>5. CASE Crash \/ Boot
  BY <1>5, StepCrash, StepBoot
<1>6. CASE Reconciling
  BY <1>6, StepReconcileAdd, StepReconcileRecord DEF Reconciling
<1>7. CASE UNCHANGED vars
  <2>1. UNCHANGED <<rec, due, jobs, sched, cancel, worker, sends, emptyTaken, todo, relinked,
                    up, crashes, boots>>
    BY <1>7 DEF vars
  <2>2. TypeOK'
    BY <2>1 DEF IInv, TypeOK
  <2>3. Queue'
    BY <2>1, QueueUnchanged DEF IInv
  <2>4. Records' /\ SentWasAccepted'
    BY <2>1, RecordsUnchanged DEF JobsKept, NewJobsSaved, Used
  <2> QED
    BY <2>2, <2>3, <2>4 DEF IInv
<1> QED
  BY <1>1, <1>2, <1>3, <1>4, <1>5, <1>6, <1>7 DEF Next

LEMMA Invariance == Spec => []IInv
BY InitIInv, NextIInv, PTL DEF Spec

\* Every variable keeps its type; the attempts and stalls of a job their bounds
\* (BullMQ: attempts of scheduler.service.ts, one restart of a stalled job).
THEOREM TypeSafe == Spec => []TypeOK
BY Invariance, PTL DEF IInv

\* For every number of messages, workers, jobs and crashes: a DELETE answered with
\* success has stopped the job the record named (scheduler.service cancel).
THEOREM CancelSafe == Spec => []CancelStopsItsJob
<1>1. IInv => CancelStopsItsJob
  BY SchedulerAssumption DEF IInv, Queue, Records, Locked, Stopped, Busy, CancelStopsItsJob
<1> QED
  BY <1>1, Invariance, PTL

\* Each send of a job (ScheduledMessageProcessor) beyond the first has used up an
\* attempt or a stall.
THEOREM RetriesExplained == Spec => []RetriesExplainSends
<1>1. IInv => RetriesExplainSends
  <2> SUFFICES ASSUME IInv, NEW j \in JobIds
               PROVE  sends[j] <= jobs[j].attempts + jobs[j].stalls + (IF PastSend(j) THEN 1 ELSE 0)
                                  + (IF jobs[j].state = "removed" THEN 1 ELSE 0)
    BY DEF RetriesExplainSends
  <2>1. Counted(j) /\ jobs[j] \in Job /\ sends[j] \in Nat
    BY DEF IInv, Queue, TypeOK
  <2>2. jobs[j].state \in JobState /\ jobs[j].attempts \in Nat /\ jobs[j].stalls \in Nat
    BY <2>1, SchedulerAssumption DEF Job
  <2>3. Past(j) => PastSend(j)
    BY DEF Past, PastSend
  <2>4. jobs[j].state = "completed" => PastSend(j)
    BY DEF PastSend
  <2> HIDE DEF Past, PastSend
  <2> QED
    BY <2>1, <2>2, <2>3, <2>4 DEF Counted, Reruns, JobState
<1> QED
  BY <1>1, Invariance, PTL

\* However exceptions, crashes and restarts interleave, a job hands its message to
\* the provider at most MaxAttempts + MaxStalls times.
THEOREM SendsAreBounded == Spec => []SendsBounded
<1>1. IInv => SendsBounded
  <2> SUFFICES ASSUME IInv, NEW j \in JobIds
               PROVE  sends[j] <= MaxAttempts + MaxStalls
    BY DEF SendsBounded
  <2>1. Counted(j) /\ jobs[j] \in Job /\ sends[j] \in Nat
    BY DEF IInv, Queue, TypeOK
  <2>2. jobs[j].state \in JobState /\ jobs[j].attempts \in Nat /\ jobs[j].stalls \in Nat
    BY <2>1, SchedulerAssumption DEF Job
  <2> HIDE DEF Past
  <2> QED
    BY <2>1, <2>2, SchedulerAssumption DEF Counted, Reruns, Fresh, JobState
<1> QED
  BY <1>1, Invariance, PTL

\* A record the worker or anyone else left as sent was accepted by the provider.
THEOREM SentAccepted == Spec => []SentWasAccepted
BY Invariance, PTL DEF IInv

-----------------------------------------------------------------------------
\* Reconciliation.  A job id held anywhere is of the message that holds it
\* (Owned), and only jobs of messages that are due have been taken (Taken); so
\* a job Boot finds in the queue, of a message that is not due, is waiting.

Owned ==
    \A m \in Ids : /\ sched[m].job # NoJob => jobs[sched[m].job].msg = m
                   /\ Saved(m) /\ rec[m].job # NoJob => jobs[rec[m].job].msg = m
                   /\ cancel[m].job # NoJob => jobs[cancel[m].job].msg = m

Taken == \A j \in JobIds : jobs[j].state \in {"active", "completed", "failed"} => jobs[j].msg \in due

Begun == \A m \in Ids : Saved(m) => sched[m].pc # "idle"

Owed(m) == /\ Pending(m) /\ m \notin due /\ up /\ m \notin todo
           /\ sched[m].pc # "saved" /\ cancel[m].pc # "removed"

LInv == Owned /\ Taken /\ Begun /\ \A m \in Ids : Owed(m) => LiveJob(m)

\* The message m was owed a job before, and its waiting jobs stay.
LEMMA JobStays ==
  ASSUME IInv, LInv, NEW m \in Ids, Owed(m),
         \A j \in JobIds : jobs[j].state = "waiting" /\ jobs[j].msg = m
             => jobs'[j].state = "waiting" /\ jobs'[j].msg = m
  PROVE  LiveJob(m)'
<1>1. PICK j \in JobIds : jobs[j].msg = m /\ jobs[j].state \in {"waiting", "active"}
  BY DEF LInv, LiveJob
<1>2. jobs[j].state = "waiting"
  BY <1>1 DEF LInv, Taken, Owed
<1> QED
  BY <1>1, <1>2 DEF LiveJob

\* Statements that touch neither the queue nor a job id.
LEMMA NoJobsTouched ==
  ASSUME IInv, LInv, UNCHANGED jobs, due \subseteq due',
         \A m \in Ids : /\ sched'[m].job = sched[m].job /\ cancel'[m].job = cancel[m].job
                        /\ Saved(m) /\ Saved(m)' => rec'[m].job = rec[m].job
                        /\ Saved(m)' /\ ~Saved(m) => rec'[m].job = NoJob
                        /\ Saved(m)' => sched'[m].pc # "idle"
                        /\ Owed(m)' => Owed(m)
  PROVE  LInv'
<1>1. Owned'
  BY DEF LInv, Owned
<1>2. Taken' /\ Begun'
  BY DEF LInv, Taken, Begun
<1>3. \A m \in Ids : Owed(m)' => LiveJob(m)'
  BY DEF LInv, LiveJob
<1> QED
  BY <1>1, <1>2, <1>3 DEF LInv

LEMMA LiveScheduling == ASSUME IInv, LInv, IInv', Scheduling PROVE LInv'
<1>1. TypeOK /\ Records /\ LInv
  BY DEF IInv
<1>2. ASSUME NEW m \in Ids, SaveRecord(m) PROVE LInv'
  <2>1. /\ sched[m].pc = "idle" /\ rec' = [rec EXCEPT ![m] = [status |-> "pending", job |-> NoJob]]
        /\ sched' = [sched EXCEPT ![m].pc = "saved"]
        /\ UNCHANGED <<due, jobs, cancel, todo, up>>
    BY <1>2 DEF SaveRecord
  <2>2. ~Saved(m)
    BY <1>1, <2>1 DEF LInv, Begun
  <2>3. \A k \in Ids : /\ sched'[k].job = sched[k].job
                       /\ k # m => sched'[k] = sched[k] /\ rec'[k] = rec[k]
                       /\ sched'[m].pc = "saved" /\ rec'[m].job = NoJob
    BY <1>1, <2>1 DEF TypeOK
  <2> QED
    BY <1>1, <2>1, <2>2, <2>3, NoJobsTouched DEF LInv, Begun, Owed, Pending, Saved
<1>3. ASSUME NEW m \in Ids, AddJob(m) PROVE LInv'
  <2>1. PICK j \in JobIds : Add(m, j) /\ sched' = [sched EXCEPT ![m] = [pc |-> "queued", job |-> j]]
    BY <1>3 DEF AddJob
  <2>2. UNCHANGED <<rec, due, cancel, worker, sends, todo, up>>
    BY <1>3 DEF AddJob
  <2>3. jobs[j].state = "unused" /\ jobs'[j].msg = m /\ jobs'[j].state = "waiting"
        /\ \A k \in JobIds : k # j => jobs'[k] = jobs[k]
    BY <1>1, <2>1 DEF Add, TypeOK, Job
  <2>4. sched'[m].job = j /\ sched'[m].pc = "queued" /\ \A k \in Ids : k # m => sched'[k] = sched[k]
    BY <1>1, <2>1 DEF TypeOK
  <2>5. Owned'
    BY <1>1, <2>2, <2>3, <2>4 DEF LInv, Owned, Records, Known, Used, Saved
  <2>6. Taken' /\ Begun'
    BY <1>1, <2>2, <2>3, <2>4 DEF LInv, Taken, Begun, Saved
  <2>7. \A k \in Ids : Owed(k)' => LiveJob(k)'
    <3> SUFFICES ASSUME NEW k \in Ids, Owed(k)' PROVE LiveJob(k)'
      OBVIOUS
    <3>1. CASE k = m
      BY <3>1, <2>3 DEF LiveJob
    <3>2. CASE k # m
      <4>1. Owed(k)
        BY <3>2, <2>2, <2>4 DEF Owed, Pending, Saved
      <4> QED
        BY <4>1, <2>3, JobStays
    <3> QED
      BY <3>1, <3>2
  <2> QED
    BY <2>5, <2>6, <2>7 DEF LInv
<1>4. ASSUME NEW m \in Ids, RecordJob(m) PROVE LInv'
  <2>1. /\ sched[m].pc = "queued" /\ rec' = [rec EXCEPT ![m].job = sched[m].job]
        /\ sched' = [sched EXCEPT ![m].pc = "done"]
        /\ UNCHANGED <<due, jobs, cancel, todo, up>>
    BY <1>4 DEF RecordJob
  <2>2. rec[m] \in Record /\ Saved(m)
    BY <1>1, <2>1 DEF TypeOK, Records, Rows, Saved
  <2>3. /\ rec'[m].job = sched[m].job /\ rec'[m].status = rec[m].status
        /\ sched'[m].pc = "done" /\ sched'[m].job = sched[m].job
        /\ \A k \in Ids : k # m => sched'[k] = sched[k] /\ rec'[k] = rec[k]
    BY <1>1, <2>1, <2>2 DEF TypeOK, Record
  <2>4. Owned'
    BY <1>1, <2>1, <2>2, <2>3 DEF LInv, Owned, Saved
  <2>5. Taken' /\ Begun'
    BY <1>1, <2>1, <2>3 DEF LInv, Taken, Begun, Saved
  <2>6. \A k \in Ids : Owed(k)' => Owed(k)
    BY <2>1, <2>2, <2>3 DEF Owed, Pending, Saved
  <2>7. \A k \in Ids : Owed(k)' => LiveJob(k)'
    BY <1>1, <2>1, <2>6 DEF LInv, LiveJob
  <2> QED
    BY <2>4, <2>5, <2>7 DEF LInv
<1> QED
  BY <1>2, <1>3, <1>4 DEF Scheduling

LEMMA LiveCancelling == ASSUME IInv, LInv, Cancelling PROVE LInv'
<1>1. TypeOK /\ Records /\ LInv
  BY DEF IInv
<1>2. ASSUME NEW m \in Ids, ReadForCancel(m) PROVE LInv'
  <2>1. /\ cancel' = [cancel EXCEPT ![m] = [pc |-> "read", job |-> rec[m].job]]
        /\ cancel[m].pc \in {"idle", "error"} /\ Saved(m) /\ UNCHANGED <<rec, due, jobs, sched, todo, up>>
    BY <1>2 DEF ReadForCancel, Pending
  <2>2. cancel'[m].job = rec[m].job /\ \A k \in Ids : k # m => cancel'[k] = cancel[k]
    BY <1>1, <2>1 DEF TypeOK
  <2>3. Owned'
    BY <1>1, <2>1, <2>2 DEF LInv, Owned, Saved
  <2>4. Taken' /\ Begun'
    BY <1>1, <2>1 DEF LInv, Taken, Begun, Saved
  <2>5. \A k \in Ids : Owed(k)' => Owed(k)
    BY <2>1, <2>2 DEF Owed, Pending, Saved
  <2>6. \A k \in Ids : Owed(k)' => LiveJob(k)'
    BY <1>1, <2>1, <2>5 DEF LInv, LiveJob
  <2> QED
    BY <2>3, <2>4, <2>6 DEF LInv
<1>3. ASSUME NEW m \in Ids, RemoveJob(m) PROVE LInv'
  <2>1. UNCHANGED <<rec, due, sched, todo, up>> /\ cancel[m].pc = "read"
    BY <1>3 DEF RemoveJob
  <2>2. PICK pc \in {"removed", "error"} :
          /\ cancel' = [cancel EXCEPT ![m].pc = pc]
          /\ \/ UNCHANGED jobs
             \/ /\ pc = "removed" /\ Exists(cancel[m].job)
                /\ jobs' = [jobs EXCEPT ![cancel[m].job].state = "removed"]
    BY <1>3 DEF RemoveJob
  <2>3. /\ cancel'[m].pc = pc /\ \A k \in Ids : cancel'[k].job = cancel[k].job
        /\ \A k \in Ids : k # m => cancel'[k] = cancel[k]
    BY <1>1, <2>2 DEF TypeOK
  <2>4. CASE UNCHANGED jobs
    <3>1. \A k \in Ids : Owed(k)' => Owed(k)
      BY <2>1, <2>2, <2>3 DEF Owed, Pending, Saved
    <3> QED
      BY <1>1, <2>1, <2>3, <2>4, <3>1, NoJobsTouched DEF LInv, Begun, Saved
  <2>5. CASE /\ pc = "removed" /\ Exists(cancel[m].job)
             /\ jobs' = [jobs EXCEPT ![cancel[m].job].state = "removed"]
    <3>1. PICK j \in JobIds : j = cancel[m].job /\ jobs[j].msg = m
      BY <1>1, <2>5, SchedulerAssumption DEF Exists, LInv, Owned
    <3>2. /\ jobs'[j].state = "removed" /\ \A k \in JobIds : jobs'[k].msg = jobs[k].msg
          /\ \A k \in JobIds : k # j => jobs'[k] = jobs[k]
      BY <1>1, <2>5, <3>1 DEF TypeOK, Job
    <3>3. Owned'
      BY <1>1, <2>1, <2>3, <3>2 DEF LInv, Owned, Records, Known, Used, Saved
    <3>4. Taken' /\ Begun'
      BY <1>1, <2>1, <3>2 DEF LInv, Taken, Begun, Saved
    <3>5. \A k \in Ids : Owed(k)' => LiveJob(k)'
      <4> SUFFICES ASSUME NEW k \in Ids, Owed(k)' PROVE LiveJob(k)'
        OBVIOUS
      <4>1. k # m
        BY <2>3, <2>5 DEF Owed
      <4>2. Owed(k)
        BY <4>1, <2>1, <2>3 DEF Owed, Pending, Saved
      <4> QED
        BY <4>1, <4>2, <3>1, <3>2, JobStays
    <3> QED
      BY <3>3, <3>4, <3>5 DEF LInv
  <2> QED
    BY <2>2, <2>4, <2>5
<1>4. ASSUME NEW m \in Ids, StoreCancelled(m) PROVE LInv'
  <2>1. /\ cancel[m].pc = "removed" /\ rec' = [rec EXCEPT ![m].status = "cancelled"]
        /\ cancel' = [cancel EXCEPT ![m].pc = "done"]
        /\ UNCHANGED <<due, jobs, sched, todo, up>>
    BY <1>4 DEF StoreCancelled
  <2>2. rec[m] \in Record /\ Saved(m)
    BY <1>1, <2>1 DEF TypeOK, Records, Rows, Saved
  <2>3. /\ rec'[m].job = rec[m].job /\ rec'[m].status = "cancelled"
        /\ \A k \in Ids : cancel'[k].job = cancel[k].job
        /\ \A k \in Ids : k # m => cancel'[k] = cancel[k] /\ rec'[k] = rec[k]
    BY <1>1, <2>1, <2>2 DEF TypeOK, Record
  <2>4. \A k \in Ids : Owed(k)' => Owed(k)
    BY <2>1, <2>3 DEF Owed, Pending, Saved
  <2> QED
    BY <1>1, <2>1, <2>2, <2>3, <2>4, NoJobsTouched DEF LInv, Begun, Saved
<1> QED
  BY <1>2, <1>3, <1>4 DEF Cancelling

\* A worker changes the state of one job, whose message is due.
LEMMA LiveQueue ==
  ASSUME IInv, LInv, UNCHANGED <<due, sched, cancel, todo, up>>,
         NEW j \in JobIds, jobs[j].msg \in due, Used(j),
         \A k \in JobIds : jobs'[k].msg = jobs[k].msg /\ (k # j => jobs'[k] = jobs[k]),
         \A m \in Ids : /\ Saved(m)' <=> Saved(m)
                        /\ Saved(m) => rec'[m].job = rec[m].job
                        /\ m \notin due => rec'[m] = rec[m]
  PROVE  LInv'
<1>1. Records
  BY DEF IInv
<1>2. Owned'
  BY <1>1 DEF LInv, Owned, Records, Known, Used
<1>3. Taken' /\ Begun'
  BY DEF LInv, Taken, Begun
<1>4. \A k \in Ids : Owed(k)' => LiveJob(k)'
  <2> SUFFICES ASSUME NEW k \in Ids, Owed(k)' PROVE LiveJob(k)'
    OBVIOUS
  <2>1. Owed(k)
    BY DEF Owed, Pending, Saved
  <2> QED
    BY <2>1, JobStays DEF Owed
<1> QED
  BY <1>2, <1>3, <1>4 DEF LInv

LEMMA LiveWorking == ASSUME IInv, LInv, NEW w \in Workers, Working(w) PROVE LInv'
<1>1. TypeOK /\ Records /\ Queue
  BY DEF IInv
<1>2. ASSUME NEW j \in JobIds, TakeJob(w, j) PROVE LInv'
  <2>1. /\ jobs[j].msg \in due /\ Used(j) /\ jobs' = [jobs EXCEPT ![j].state = "active"]
        /\ UNCHANGED <<rec, due, sched, cancel, todo, up>>
    BY <1>2 DEF TakeJob, Used
  <2>2. \A k \in JobIds : jobs'[k].msg = jobs[k].msg /\ (k # j => jobs'[k] = jobs[k])
    BY <1>1, <2>1 DEF TypeOK, Job
  <2> QED
    BY <2>1, <2>2, LiveQueue DEF Saved
<1>3. ASSUME Busy(w)
      PROVE  \E j \in JobIds : /\ j = worker[w].job /\ Used(j) /\ jobs[j].msg \in due
                               /\ jobs[j].msg \in Ids /\ Saved(jobs[j].msg)
  BY <1>1, <1>3 DEF Queue, Locked, LInv, Taken, Used, Records, Rows
<1>4. ASSUME Busy(w), CompleteJob(w) \/ FailJob(w)
      PROVE  \A k \in JobIds : /\ jobs'[k].msg = jobs[k].msg
                               /\ k # worker[w].job => jobs'[k] = jobs[k]
  <2>1. PICK n, state : EndJob(w, state, n)
    BY <1>4 DEF CompleteJob, FailJob
  <2>2. jobs' = [jobs EXCEPT ![worker[w].job] = [@ EXCEPT !.state = state, !.attempts = n]]
    BY <2>1, <1>1 DEF EndJob, TypeOK
  <2> QED
    BY <2>2, <1>1 DEF TypeOK, Job
<1>5. ASSUME Busy(w), UNCHANGED <<rec, due, sched, cancel, todo, up>>,
             UNCHANGED jobs \/ CompleteJob(w) \/ FailJob(w)
      PROVE  LInv'
  <2>1. PICK j \in JobIds : j = worker[w].job /\ Used(j) /\ jobs[j].msg \in due
    BY <1>3, <1>5
  <2>2. \A k \in JobIds : jobs'[k].msg = jobs[k].msg /\ (k # j => jobs'[k] = jobs[k])
    BY <1>4, <1>5, <2>1
  <2> QED
    BY <1>5, <2>1, <2>2, LiveQueue DEF Saved
<1>6. CASE ReadRecord(w)
  <2>1. Busy(w) /\ UNCHANGED <<rec, due, sched, cancel, todo, up>> /\ (UNCHANGED jobs \/ CompleteJob(w))
    BY <1>6 DEF ReadRecord, Busy
  <2> QED
    BY <2>1, <1>5
<1>7. CASE SendMessage(w)
  <2>1. Busy(w) /\ UNCHANGED <<rec, due, sched, cancel, todo, up>> /\ (UNCHANGED jobs \/ FailJob(w))
    BY <1>7 DEF SendMessage, Busy
  <2> QED
    BY <2>1, <1>5
<1>8. CASE SaveMessageRow(w)
  <2>1. Busy(w) /\ UNCHANGED <<rec, due, sched, cancel, todo, up>> /\ (UNCHANGED jobs \/ FailJob(w))
    BY <1>8 DEF SaveMessageRow, Busy
  <2> QED
    BY <2>1, <1>5
<1>9. CASE StoreOutcome(w)
  <2>1. /\ Busy(w) /\ CompleteJob(w) /\ UNCHANGED <<due, sched, cancel, todo, up>>
        /\ rec' = [rec EXCEPT ![jobs[worker[w].job].msg].status = worker[w].answer]
    BY <1>9 DEF StoreOutcome, Busy
  <2>2. PICK j \in JobIds : j = worker[w].job /\ Used(j) /\ jobs[j].msg \in due
                            /\ jobs[j].msg \in Ids /\ Saved(jobs[j].msg)
    BY <1>3, <2>1
  <2>3. PICK m \in Ids : m = jobs[j].msg
    BY <2>2
  <2>4. rec[m] \in Record
    BY <1>1, <2>2, <2>3 DEF TypeOK, Saved
  <2> DEFINE r == [rec[m] EXCEPT !.status = worker[w].answer]
  <2>5. rec' = [rec EXCEPT ![m] = r] /\ r.job = rec[m].job
    BY <2>1, <2>2, <2>3, <2>4 DEF Record
  <2>6. r # NoRecord
    <3>1. worker[w].answer \in {"sent", "failed"}
      BY <1>1, <1>9, <2>1 DEF StoreOutcome, Queue, Locked, Answered
    <3>2. r \in Record
      BY <2>4, <3>1 DEF Record, Status
    <3> QED
      BY <3>2, NullAssumption
  <2> HIDE DEF r
  <2>7. \A k \in Ids : /\ Saved(k)' <=> Saved(k)
                       /\ Saved(k) => rec'[k].job = rec[k].job
                       /\ k \notin due => rec'[k] = rec[k]
    BY <1>1, <2>2, <2>3, <2>5, <2>6 DEF TypeOK, Saved
  <2>8. \A k \in JobIds : jobs'[k].msg = jobs[k].msg /\ (k # j => jobs'[k] = jobs[k])
    BY <1>4, <2>1, <2>2
  <2> QED
    BY <2>1, <2>2, <2>7, <2>8, LiveQueue
<1> QED
  BY <1>2, <1>6, <1>7, <1>8, <1>9 DEF Working

\* A boot finds every message that is not due and has no waiting job.
LEMMA LiveBoot == ASSUME IInv, LInv, Boot PROVE LInv'
<1>1. TypeOK /\ Records
  BY DEF IInv
<1>2. /\ todo' = {m \in Ids \ due : Pending(m) /\ ~Exists(rec[m].job)}
      /\ UNCHANGED <<rec, due, jobs, sched, cancel>>
  BY DEF Boot
<1>3. Owned' /\ Taken' /\ Begun'
  BY <1>2 DEF LInv, Owned, Taken, Begun, Saved
<1>4. \A m \in Ids : Owed(m)' => LiveJob(m)'
  <2> SUFFICES ASSUME NEW m \in Ids, Owed(m)' PROVE LiveJob(m)
    BY <1>2 DEF LiveJob
  <2>1. Saved(m) /\ m \notin due /\ Exists(rec[m].job)
    BY <1>2 DEF Owed, Pending, Saved
  <2>2. PICK j \in JobIds : j = rec[m].job /\ jobs[j].msg = m
    BY <2>1, SchedulerAssumption DEF Exists, LInv, Owned
  <2>3. jobs[j].state = "waiting"
    BY <1>1, <2>1, <2>2 DEF TypeOK, Job, JobState, Exists, LInv, Taken
  <2> QED
    BY <2>2, <2>3 DEF LiveJob
<1> QED
  BY <1>3, <1>4 DEF LInv

LEMMA LiveCrash == ASSUME IInv, LInv, Crash PROVE LInv'
<1>1. TypeOK /\ Records
  BY DEF IInv
<1>2. \A k \in JobIds : jobs'[k].msg = jobs[k].msg /\ (Used(k)' => Used(k))
  BY CrashQueue
<1>3. UNCHANGED <<rec, due>> /\ up' = FALSE
  BY DEF Crash
<1>4. \A k \in Ids : sched'[k].job = sched[k].job /\ (sched[k].pc # "idle" => sched'[k].pc # "idle")
  BY <1>1 DEF Crash, TypeOK
<1>5. \A k \in Ids : cancel'[k].job = cancel[k].job
  BY <1>1 DEF Crash, TypeOK
<1>6. Owned'
  BY <1>1, <1>2, <1>3, <1>4, <1>5 DEF LInv, Owned, Records, Known, Used, Saved
<1>7. Taken'
  <2> SUFFICES ASSUME NEW j \in JobIds, jobs'[j].state \in {"active", "completed", "failed"}
               PROVE  jobs[j].state \in {"active", "completed", "failed"}
    BY <1>2, <1>3 DEF LInv, Taken
  <2>1. jobs'[j] = IF jobs[j].state = "active" THEN Stall(jobs[j]) ELSE jobs[j]
    BY DEF Crash
  <2> QED
    BY <2>1
<1>8. Begun'
  BY <1>3, <1>4 DEF LInv, Begun, Saved
<1> QED
  BY <1>3, <1>6, <1>7, <1>8 DEF LInv, Owed

LEMMA LiveReconciling == ASSUME IInv, LInv, Reconciling PROVE LInv'
<1>1. TypeOK /\ Records
  BY DEF IInv
<1>2. ASSUME NEW m \in Ids, ReconcileAdd(m) PROVE LInv'
  <2>1. PICK j \in JobIds : Add(m, j)
    BY <1>2 DEF ReconcileAdd
  <2>2. UNCHANGED <<rec, due, sched, cancel, up>> /\ todo' = todo \ {m}
    BY <1>2 DEF ReconcileAdd
  <2>3. jobs[j].state = "unused" /\ jobs'[j].msg = m /\ jobs'[j].state = "waiting"
        /\ \A k \in JobIds : k # j => jobs'[k] = jobs[k]
    BY <1>1, <2>1 DEF Add, TypeOK, Job
  <2>4. Owned'
    BY <1>1, <2>2, <2>3 DEF LInv, Owned, Records, Known, Used, Saved
  <2>5. Taken' /\ Begun'
    BY <1>1, <2>2, <2>3 DEF LInv, Taken, Begun, Saved
  <2>6. \A k \in Ids : Owed(k)' => LiveJob(k)'
    <3> SUFFICES ASSUME NEW k \in Ids, Owed(k)' PROVE LiveJob(k)'
      OBVIOUS
    <3>1. CASE k = m
      BY <3>1, <2>3 DEF LiveJob
    <3>2. CASE k # m
      <4>1. Owed(k)
        BY <3>2, <2>2 DEF Owed, Pending, Saved
      <4> QED
        BY <4>1, <2>3, JobStays
    <3> QED
      BY <3>1, <3>2
  <2> QED
    BY <2>4, <2>5, <2>6 DEF LInv
<1>3. ASSUME NEW j \in JobIds, ReconcileRecord(j) PROVE LInv'
  <2>1. /\ j \in relinked /\ rec' = [rec EXCEPT ![jobs[j].msg].job = j]
        /\ UNCHANGED <<due, jobs, sched, cancel, todo, up>>
    BY <1>3 DEF ReconcileRecord
  <2>2. PICK m \in Ids : m = jobs[j].msg /\ Saved(m) /\ rec[m] \in Record
    BY <1>1, <2>1 DEF Records, Known, Rows, TypeOK, Saved
  <2> DEFINE r == [rec[m] EXCEPT !.job = j]
  <2>3. rec' = [rec EXCEPT ![m] = r] /\ r.job = j /\ r.status = rec[m].status
    BY <2>1, <2>2 DEF Record
  <2> HIDE DEF r
  <2>4. rec'[m] = r /\ \A k \in Ids : k # m => rec'[k] = rec[k]
    BY <1>1, <2>3 DEF TypeOK
  <2>5. Owned'
    BY <2>1, <2>2, <2>3, <2>4 DEF LInv, Owned, Saved
  <2>6. Taken' /\ Begun'
    BY <2>1, <2>2, <2>4 DEF LInv, Taken, Begun, Saved
  <2>7. \A k \in Ids : Owed(k)' => Owed(k)
    BY <2>1, <2>2, <2>3, <2>4 DEF Owed, Pending, Saved
  <2>8. \A k \in Ids : Owed(k)' => LiveJob(k)'
    BY <2>1, <2>7 DEF LInv, LiveJob
  <2> QED
    BY <2>5, <2>6, <2>8 DEF LInv
<1> QED
  BY <1>2, <1>3 DEF Reconciling

LEMMA NextLInv == IInv /\ LInv /\ [Next]_vars => LInv'
<1> SUFFICES ASSUME IInv, LInv, [Next]_vars PROVE LInv'
  OBVIOUS
<1>1. IInv'
  BY NextIInv
<1>2. CASE \E m \in Ids : PassTime(m)
  <2>1. UNCHANGED <<rec, jobs, sched, cancel, todo, up>> /\ due \subseteq due'
    BY <1>2 DEF PassTime
  <2> QED
    BY <2>1, NoJobsTouched DEF LInv, Begun, Owed, Pending, Saved
<1>3. CASE UNCHANGED vars
  BY <1>3, NoJobsTouched DEF vars, LInv, Begun, Owed, Pending, Saved
<1> QED
  BY <1>1, <1>2, <1>3, LiveScheduling, LiveCancelling, LiveWorking, LiveCrash, LiveBoot,
     LiveReconciling DEF Next

\* What SchedulerReconciliationService promises, for every number of messages, replicas and
\* crashes: once an instance is up and its reconciliation has passed, every
\* pending message whose time has not come has a job in the queue.
THEOREM Reconciled == Spec => []PendingHasJob
<1>1. Init => LInv
  BY SchedulerAssumption DEF Init, LInv, Owned, Taken, Begun, Owed, Pending, Saved, Idle
<1>2. LInv => PendingHasJob
  BY DEF LInv, Owed, PendingHasJob
<1> QED
  BY <1>1, <1>2, NextLInv, Invariance, PTL DEF Spec
==============================================================================
