-------------------------- MODULE SchedulingProofs --------------------------
(***************************************************************************)
(* The types of JobLifecycle, and which jobs get a slot: the accounting of *)
(* the slots and the refinement of JobQueue, for every set of jobs,        *)
(* callers and models, every limit, with and without restarts and whatever *)
(* Lemonade replies.                                                       *)
(*                                                                         *)
(* What is said of slots rests on one fact, OnePlace: a job is at most at  *)
(* one of these places: the hands of the request that creates it, the jobs *)
(* to requeue after a restart, the queue, a worker.  Without it the guard  *)
(* of _enqueue_job (a job that is pending is not appended again) would not *)
(* keep a running job out of the queue, and a second worker could start.   *)
(***************************************************************************)
EXTENDS JobLifecycle, FiniteSetTheorems, TLAPS

-----------------------------------------------------------------------------
(***************************************************************************)
(* Types.                                                                  *)
(***************************************************************************)

\* The finite sets of states, written out.
LEMMA Constituents ==
    /\ WorkerPc = {"idle", "read", "check", "abort", "env", "load", "precheck",
             "batch_check", "launch", "register", "heed", "wait",
             "batch_verify", "settle", "unpin_judge", "release", "unpin",
             "released", "finish", "exit", "start", "pinning", "pin_result", "batches_init",
                  "batch_begin", "batch_end"}
    /\ Status = {"queued", "running", "cancelling", "cancelled", "failed",
                 "succeeded", "absent"}
BY DEF WorkerPc, StampedWrites, Status, Active, Terminal

\* The steps of a worker that write its record or look at memory.
LEMMA RecordStepTypes ==
    ASSUME TypeOK, NEW j \in Jobs, RecordStep(j)
    PROVE  record' \in [Jobs -> Record] /\ worker' \in [Jobs -> Worker]
<1>0. /\ record \in [Jobs -> Record]
      /\ worker \in [Jobs -> Worker]
      /\ worker[j] \in Worker
  BY DEF TypeOK
<1>1. ASSUME Store(j) PROVE record' \in [Jobs -> Record]
  BY <1>0, <1>1 DEF Store, Record, Worker
<1>2. ASSUME NEW pc \in WorkerPc, Goto(j, pc) PROVE worker' \in [Jobs -> Worker]
  BY <1>0, <1>2 DEF Goto, Worker
<1>3. ASSUME NEW pc \in WorkerPc, NEW s \in Status, Leave(j, pc, s)
      PROVE  worker' \in [Jobs -> Worker]
  BY <1>0, <1>3 DEF Leave, Worker
<1>4. AfterHandoff(j) \in WorkerPc
  BY Constituents DEF AfterHandoff
<1>5. CASE ReadRecord(j)
  BY <1>5, <1>0, <1>2, Constituents DEF ReadRecord, Worker, Record
<1>6. CASE CheckCancelled(j)
  BY <1>6, <1>0, <1>2, <1>3, Constituents DEF CheckCancelled
<1>7. CASE Abort(j)
  BY <1>7, <1>1, <1>2, Constituents DEF Abort
<1>8. CASE LaunchEnv(j)
  BY <1>8, <1>0, <1>2, <1>3, Constituents DEF LaunchEnv
<1>a. "pinning" \in Protection /\ "releasing" \in Protection
  BY DEF Protection
<1>9. CASE WriteStarted(j)
  BY <1>9, <1>0, <1>1, <1>2, <1>a, Constituents DEF WriteStarted, WriteAndGoto, Worker
<1>10. CASE WritePinning(j)
  BY <1>10, <1>1, <1>2, Constituents DEF WritePinning, WriteAndGoto
<1>11. CASE WritePinResult(j)
  BY <1>11, <1>1, <1>2, <1>3, Constituents DEF WritePinResult, WriteAndGoto
<1>12. CASE Precheck(j)
  BY <1>12, <1>0, <1>2, <1>3, Constituents DEF Precheck
<1>13. CASE WriteBatchesInit(j)
  BY <1>13, <1>1, <1>2, Constituents DEF WriteBatchesInit, WriteAndGoto
<1>14. CASE CheckBatch(j)
  BY <1>14, <1>0, <1>2, <1>3, Constituents DEF CheckBatch
<1>15. CASE WriteBatchBegin(j)
  BY <1>15, <1>1, <1>2, Constituents DEF WriteBatchBegin, WriteAndGoto
<1>16. CASE VerifyBatch(j)
  BY <1>16, <1>0, <1>2, <1>3, Constituents DEF VerifyBatch
<1>17. CASE WriteBatchEnd(j)
  BY <1>17, <1>0, <1>1, <1>2, Constituents DEF WriteBatchEnd, Worker
<1>18. CASE Settle(j)
  BY <1>18, <1>0, <1>3, <1>4, Constituents DEF Settle
<1>19. CASE WriteReleasing(j)
  BY <1>19, <1>0, <1>2, <1>a, Constituents DEF WriteReleasing, Worker, Record
<1>20. CASE WriteReleased(j)
  BY <1>20, <1>1, <1>2, Constituents DEF WriteReleased
<1>21. CASE WriteFinished(j)
  BY <1>21, <1>1, <1>2, Constituents DEF WriteFinished
<1>22. QED
  BY <1>5, <1>6, <1>7, <1>8, <1>9, <1>10, <1>11, <1>12, <1>13, <1>14, <1>15,
     <1>16, <1>17, <1>18, <1>19, <1>20, <1>21 DEF RecordStep

\* The steps of a worker that act on its process or on Lemonade.
LEMMA OutsideStepTypes ==
    ASSUME TypeOK, NEW j \in Jobs, OutsideStep(j)
    PROVE  /\ record' \in [Jobs -> Record]
           /\ worker' \in [Jobs -> Worker]
           /\ process' \in [Jobs -> {"none", "running", "terminating",
                                     "exited"}]
           /\ activeProcesses' \subseteq Jobs
           /\ pins' \subseteq Models
<1>0. /\ record \in [Jobs -> Record]
      /\ worker \in [Jobs -> Worker]
      /\ worker[j] \in Worker
      /\ process \in [Jobs -> {"none", "running", "terminating", "exited"}]
      /\ activeProcesses \subseteq Jobs
      /\ pins \subseteq Models
      /\ ModelOf[j] \in Models
  BY ModelsAssumption DEF TypeOK
<1>1. ASSUME NEW pc \in WorkerPc, Goto(j, pc) PROVE worker' \in [Jobs -> Worker]
  BY <1>0, <1>1 DEF Goto, Worker
<1>2. ASSUME NEW pc \in WorkerPc, NEW s \in Status, Leave(j, pc, s)
      PROVE  worker' \in [Jobs -> Worker]
  BY <1>0, <1>2 DEF Leave, Worker
<1>3. AfterHandoff(j) \in WorkerPc
  BY Constituents DEF AfterHandoff
<1>a. ASSUME NEW pc \in WorkerPc, NEW p \in Protection,
             worker' = [worker EXCEPT ![j].pc = pc, ![j].protection = p]
      PROVE  worker' \in [Jobs -> Worker]
  BY <1>0, <1>a DEF Worker
<1>b. ASSUME NEW pc \in WorkerPc, NEW ok \in BOOLEAN,
             worker' = [worker EXCEPT ![j].ok = ok, ![j].pc = pc]
      PROVE  worker' \in [Jobs -> Worker]
  BY <1>0, <1>b DEF Worker
<1>c. {"pinned", "unsupported", "failed", "released", "release_failed"}
        \subseteq Protection
  BY DEF Protection
<1>4. CASE LoadModel(j)
  <2>1. PICK reply \in Replies :
          /\ pins' = IF reply \in {"ok", "lost"} THEN pins \cup {ModelOf[j]}
                                                 ELSE pins
          /\ worker' = [worker EXCEPT
                          ![j].pc = "pin_result",
                          ![j].protection =
                              CASE reply = "ok"          -> "pinned"
                                [] reply = "unsupported" -> "unsupported"
                                [] OTHER                 -> "failed"]
    BY <1>4 DEF LoadModel
  <2>2. worker' \in [Jobs -> Worker]
    BY <2>1, <1>a, <1>c, Constituents
  <2>3. QED
    BY <1>4, <1>0, <2>1, <2>2 DEF LoadModel
<1>5. CASE Launch(j)
  BY <1>5, <1>0, <1>1, <1>2, <1>3, Constituents DEF Launch
<1>6. CASE Register(j)
  BY <1>6, <1>0, <1>1, Constituents DEF Register
<1>7. CASE HeedCancel(j)
  BY <1>7, <1>0, <1>1, Constituents DEF HeedCancel, Terminate
<1>8. CASE Reap(j)
  <2>1. worker' \in [Jobs -> Worker]
    BY <1>8, <1>b, Constituents DEF Reap
  <2>2. QED
    BY <1>8, <1>0, <2>1 DEF Reap
<1>9. CASE UnpinJudge(j)
  BY <1>9, <1>0, <1>1, Constituents DEF UnpinJudge, JudgeUnpinned
<1>10. CASE UnpinModel(j)
  <2>1. worker' \in [Jobs -> Worker]
    BY <1>10, <1>a, <1>c, Constituents DEF UnpinModel
  <2>2. QED
    BY <1>10, <1>0, <2>1 DEF UnpinModel
<1>11. QED
  BY <1>4, <1>5, <1>6, <1>7, <1>8, <1>9, <1>10 DEF OutsideStep


\* What a request thread may hold.
LEMMA CallerValues ==
    ASSUME TypeOK
    PROVE  /\ IdleCaller \in Caller
           /\ Absent \in Record /\ Queued \in Record
           /\ \A S \in SUBSET Jobs : Snapshot(S) \in [Jobs -> Record]
<1>1. Absent \in Record /\ Queued \in Record
  BY Constituents DEF Absent, Queued, Record, Protection
<1>2. IdleCaller \in Caller
  BY <1>1 DEF IdleCaller, Caller, CallerOp
<1>3. \A S \in SUBSET Jobs : Snapshot(S) \in [Jobs -> Record]
  BY <1>1 DEF Snapshot, TypeOK
<1>4. QED
  BY <1>1, <1>2, <1>3

LEMMA BecomesTypes ==
    ASSUME TypeOK, NEW c \in Callers, NEW r \in Caller, Becomes(c, r)
    PROVE  caller' \in [Callers -> Caller]
BY CallerValues DEF Becomes, TypeOK

\* Enqueueing appends or leaves the queue as it is.
LEMMA EnqueueTypes ==
    ASSUME TypeOK, NEW j \in Jobs, EnqueueJob(j)
    PROVE  /\ pendingJobs' \in Seq(Jobs)
           /\ cancelEvents' \in [Jobs -> {"none", "clear", "set"}]
BY DEF EnqueueJob, TypeOK

\* The requests as they arrive.
LEMMA RequestTypes ==
    ASSUME TypeOK, NEW c \in Callers, Request(c)
    PROVE  /\ issued' \in Seq(Jobs)
           /\ maxConcurrentJobs' \in Nat \ {0}
           /\ caller' \in [Callers -> Caller]
           /\ UNCHANGED <<record, pendingJobs, activeJobs, cancelEvents,
                          worker, activeProcesses, serverVars, bootVars>>
<1>1. ASSUME NEW j \in Jobs, NEW limit \in Limits \cup {0}, Submit(c, j, limit)
      PROVE  /\ issued' \in Seq(Jobs)
             /\ maxConcurrentJobs' \in Nat \ {0}
             /\ caller' \in [Callers -> Caller]
  <2>1. [IdleCaller EXCEPT !.op = "create", !.todo = {j}] \in Caller
    BY CallerValues DEF Caller, CallerOp
  <2>2. limit # 0 => limit \in Nat \ {0}
    BY LimitsAssumption
  <2>3. QED
    BY <1>1, <2>1, <2>2 DEF Submit, TypeOK
<1>2. ASSUME NEW S \in SUBSET Jobs, CancelRead(c, S)
      PROVE  caller' \in [Callers -> Caller]
  <2> DEFINE live == {j \in S : record[j].status \in Active}
             r == [op |-> "cancel", snap |-> Snapshot(live), todo |-> live,
                   writing |-> {}, signal |-> {}]
  <2>1. r \in Caller
    BY CallerValues DEF Caller, CallerOp
  <2>2. Becomes(c, r)
    BY <1>2 DEF CancelRead
  <2>3. QED
    BY <2>1, <2>2, BecomesTypes
<1>3. ASSUME NEW S \in SUBSET Jobs, ClearRead(c, S)
      PROVE  caller' \in [Callers -> Caller]
  <2> DEFINE r == [IdleCaller EXCEPT !.op = "clear",
                                     !.todo = {j \in S : record[j] # Absent}]
  <2>1. r \in Caller
    BY CallerValues DEF Caller, CallerOp
  <2>2. Becomes(c, r)
    BY <1>3 DEF ClearRead
  <2>3. QED
    BY <2>1, <2>2, BecomesTypes
<1>4. ASSUME ResultsRead(c)
      PROVE  caller' \in [Callers -> Caller]
  <2> DEFINE unfinished == {j \in Swe : record[j].status \in
                                            {"running", "cancelling"}}
             r == [op |-> "results", snap |-> Snapshot(unfinished),
                   todo |-> unfinished, writing |-> {}, signal |-> {}]
  <2>1. r \in Caller
    BY CallerValues, JobsAssumption DEF Caller, CallerOp
  <2>2. Becomes(c, r)
    BY <1>4 DEF ResultsRead
  <2>3. QED
    BY <2>1, <2>2, BecomesTypes
<1>5. CASE \E j \in Jobs, limit \in Limits \cup {0} : Submit(c, j, limit)
  BY <1>5, <1>1 DEF Submit
<1>6. CASE \E S \in SUBSET Jobs \ {{}} : CancelRead(c, S) \/ ClearRead(c, S)
  BY <1>6, <1>2, <1>3 DEF CancelRead, ClearRead, TypeOK, queueVars
<1>7. CASE ResultsRead(c)
  BY <1>7, <1>4 DEF ResultsRead, TypeOK, queueVars
<1>8. QED
  BY <1>5, <1>6, <1>7 DEF Request

\* A request that has begun.
LEMMA CallerStepTypes ==
    ASSUME TypeOK, NEW c \in Callers, CallerStep(c)
    PROVE  /\ record' \in [Jobs -> Record]
           /\ pendingJobs' \in Seq(Jobs)
           /\ cancelEvents' \in [Jobs -> {"none", "clear", "set"}]
           /\ process' \in [Jobs -> {"none", "running", "terminating",
                                     "exited"}]
           /\ caller' \in [Callers -> Caller]
           /\ UNCHANGED <<issued, activeJobs, maxConcurrentJobs, worker,
                          activeProcesses, pins, bootVars>>
<1> USE DEF queueVars, serverVars
<1>0. /\ record \in [Jobs -> Record]
      /\ pendingJobs \in Seq(Jobs)
      /\ cancelEvents \in [Jobs -> {"none", "clear", "set"}]
      /\ process \in [Jobs -> {"none", "running", "terminating", "exited"}]
      /\ caller \in [Callers -> Caller]
      /\ caller[c] \in Caller
  BY DEF TypeOK
<1>1. CASE CreateRecord(c)
  <2>1. caller' \in [Callers -> Caller]
    <3>1. [caller[c] EXCEPT !.op = "enqueue"] \in Caller
      BY <1>0 DEF Caller, CallerOp
    <3>2. \/ caller' = [caller EXCEPT ![c] = [caller[c] EXCEPT
                                                !.op = "enqueue"]]
          \/ caller' = [caller EXCEPT ![c] = IdleCaller]
      BY <1>1 DEF CreateRecord
    <3>3. QED
      BY <1>0, <3>1, <3>2, CallerValues
  <2>2. record' \in [Jobs -> Record]
    BY <1>1, <1>0, CallerValues DEF CreateRecord
  <2>3. QED
    BY <1>1, <1>0, <2>1, <2>2 DEF CreateRecord
<1>2. CASE Enqueue(c)
  <2>1. PICK j \in caller[c].todo : EnqueueJob(j)
    BY <1>2 DEF Enqueue
  <2>2. j \in Jobs
    BY <2>1, <1>0 DEF Caller
  <2>3. QED
    BY <1>2, <1>0, <2>1, <2>2, EnqueueTypes, CallerValues DEF Enqueue
<1>3. CASE ClearRemove(c)
  BY <1>3, <1>0, CallerValues DEF ClearRemove
<1>4. ASSUME NEW j \in Jobs, CancelSignal(c, j)
      PROVE  caller' \in [Callers -> Caller]
  BY <1>4, <1>0 DEF CancelSignal, Caller
<1>5. ASSUME NEW j \in Jobs, CancelWrite(c, j)
      PROVE  record' \in [Jobs -> Record] /\ caller' \in [Callers -> Caller]
  <2> DEFINE read == caller[c].snap[j]
             queued == read.status = "queued"
             written == [read EXCEPT !.status = IF queued THEN "cancelled"
                                                          ELSE "cancelling"]
             r == [caller[c] EXCEPT
                     !.snap[j] = Absent, !.writing = {},
                     !.signal = IF queued THEN @ ELSE @ \cup {j}]
  <2>1. written \in Record
    <3>1. read \in Record
      BY <1>0 DEF Caller
    <3>2. \A s \in Status : [read EXCEPT !.status = s] \in Record
      BY <3>1 DEF Record
    <3>3. QED
      BY <3>2, Constituents
  <2>2. r \in Caller
    BY <1>0, CallerValues DEF Caller
  <2>3. record' = [record EXCEPT ![j] = written] /\ Becomes(c, r)
    BY <1>5 DEF CancelWrite
  <2>4. QED
    BY <1>0, <2>1, <2>2, <2>3, BecomesTypes
<1>6. ASSUME NEW j \in Jobs, CancelTerminate(c, j)
      PROVE  /\ process' \in [Jobs -> {"none", "running", "terminating",
                                       "exited"}]
             /\ caller' \in [Callers -> Caller]
  <2> DEFINE r == [caller[c] EXCEPT !.signal = @ \ {j}]
  <2>1. r \in Caller
    BY <1>0 DEF Caller
  <2>2. Becomes(c, r)
    BY <1>6 DEF CancelTerminate
  <2>3. QED
    BY <1>6, <1>0, <2>1, <2>2, BecomesTypes DEF CancelTerminate, Terminate
<1>7. ASSUME NEW j \in Jobs, ResultsStamp(c, j)
      PROVE  caller' \in [Callers -> Caller]
  <2>1. CASE caller' = [caller EXCEPT
                          ![c].todo = @ \ {j},
                          ![c].writing = {j},
                          ![c].snap[j].status =
                              IF @ = "running" /\ Heard(j) THEN "cancelling"
                                                           ELSE @]
    <3> DEFINE st == IF caller[c].snap[j].status = "running" /\ Heard(j)
                     THEN "cancelling" ELSE caller[c].snap[j].status
               snap == [caller[c].snap EXCEPT ![j].status = st]
               r == [caller[c] EXCEPT !.todo = @ \ {j}, !.writing = {j},
                                      !.snap = snap]
    <3>1. caller[c].snap \in [Jobs -> Record] /\ caller[c].snap[j] \in Record
      BY <1>0 DEF Caller
    <3>2. st \in Status
      BY <3>1, Constituents DEF Record
    <3>3. snap \in [Jobs -> Record]
      BY <3>1, <3>2 DEF Record
    <3>4. r \in Caller
      BY <1>0, <3>3 DEF Caller
    <3>5. caller' = [caller EXCEPT ![c] = r]
      BY <2>1, <1>0 DEF Caller
    <3>6. QED
      BY <1>0, <3>4, <3>5
  <2>2. CASE Becomes(c, [caller[c] EXCEPT !.todo = @ \ {j},
                                          !.snap[j] = Absent])
    <3>1. [caller[c] EXCEPT !.todo = @ \ {j}, !.snap[j] = Absent] \in Caller
      BY <1>0, CallerValues DEF Caller
    <3>2. QED
      BY <2>2, <3>1, BecomesTypes
  <2>3. QED
    BY <1>7, <2>1, <2>2 DEF ResultsStamp
<1>8. ASSUME NEW j \in Jobs, ResultsStore(c, j)
      PROVE  record' \in [Jobs -> Record] /\ caller' \in [Callers -> Caller]
  <2> DEFINE r == [caller[c] EXCEPT !.writing = {}, !.snap[j] = Absent]
  <2>1. r \in Caller
    BY <1>0, CallerValues DEF Caller
  <2>2. Becomes(c, r) /\ record' = [record EXCEPT ![j] = caller[c].snap[j]]
    BY <1>8 DEF ResultsStore
  <2>3. QED
    BY <1>0, <2>1, <2>2, BecomesTypes DEF Caller
<1>9. CASE \E j \in Jobs : CancelSignal(c, j)
  BY <1>9, <1>0, <1>4 DEF CancelSignal
<1>10. CASE \E j \in Jobs : CancelWrite(c, j)
  BY <1>10, <1>0, <1>5 DEF CancelWrite
<1>11. CASE \E j \in Jobs : CancelTerminate(c, j)
  BY <1>11, <1>0, <1>6 DEF CancelTerminate
<1>12. CASE \E j \in Jobs : ResultsStamp(c, j)
  BY <1>12, <1>0, <1>7 DEF ResultsStamp
<1>13. CASE \E j \in Jobs : ResultsStore(c, j)
  BY <1>13, <1>0, <1>8 DEF ResultsStore
<1>14. QED
  BY <1>1, <1>2, <1>3, <1>9, <1>10, <1>11, <1>12, <1>13 DEF CallerStep

\* The application stops, and comes up again.
LEMMA RebootTypes ==
    ASSUME TypeOK, Restart \/ Boot
    PROVE  TypeOK'
<1> USE DEF queueVars, serverVars, bootVars
<1>1. CASE Restart
  <2>1. IdleWorker \in Worker
    BY Constituents DEF IdleWorker, Worker, Protection
  <2>2. QED
    BY <1>1, <2>1, CallerValues, LimitsAssumption DEF Restart, TypeOK
<1>2. ASSUME NEW j \in Jobs, Reconcile(j) PROVE TypeOK'
  <2>1. record \in [Jobs -> Record] /\ record[j] \in Record
    BY DEF TypeOK
  <2>2. [record EXCEPT ![j].status = "failed"] \in [Jobs -> Record]
    BY <2>1, Constituents DEF Record
  <2>3. \A p \in {"released_after_restart", "release_failed"} :
            [record EXCEPT ![j] = [status |-> "failed", protection |-> p]]
                \in [Jobs -> Record]
    BY <2>1, Constituents DEF Record, Protection
  <2>4. \A kept \in JudgeUnpinned(j) : kept \subseteq Models
    BY DEF JudgeUnpinned, TypeOK
  <2>5. record' \in [Jobs -> Record] /\ pins' \subseteq Models
    BY <1>2, <2>1, <2>2, <2>3, <2>4 DEF Reconcile, TypeOK
  <2>6. QED
    BY <1>2, <2>5 DEF Reconcile, TypeOK
<1>3. CASE StartScheduler
  BY <1>3 DEF StartScheduler, TypeOK
<1>4. CASE Requeue
  <2>1. PICK i \in DOMAIN issued : EnqueueJob(issued[i])
    BY <1>4 DEF Requeue
  <2>2. issued[i] \in Jobs
    BY <2>1 DEF TypeOK
  <2>3. recovery' \subseteq Jobs
    BY <1>4 DEF Requeue, TypeOK
  <2>4. QED
    BY <1>4, <2>1, <2>2, <2>3, EnqueueTypes DEF Requeue, TypeOK
<1>5. CASE Serve
  BY <1>5 DEF Serve, TypeOK
<1>6. QED
  BY <1>1, <1>2, <1>3, <1>4, <1>5 DEF Boot

\* Every step keeps the types.
LEMMA NextTypes ==
    ASSUME TypeOK, [Next]_vars
    PROVE  TypeOK'
<1> USE DEF queueVars, serverVars, bootVars
<1>1. CASE Dispatch
  <2>1. Head(pendingJobs) \in Jobs /\ Tail(pendingJobs) \in Seq(Jobs)
    BY <1>1 DEF Dispatch, TypeOK
  <2> DEFINE j == Head(pendingJobs)
  <2>2. [worker EXCEPT ![j].pc = "read"] \in [Jobs -> Worker]
    <3>1. worker \in [Jobs -> Worker] /\ worker[j] \in Worker
      BY <2>1 DEF TypeOK
    <3>2. QED
      BY <3>1, Constituents DEF Worker
  <2>3. worker' \in [Jobs -> Worker]
    BY <1>1, <2>2 DEF Dispatch, TypeOK
  <2>4. cancelEvents' \in [Jobs -> {"none", "clear", "set"}]
    BY <1>1, <2>1 DEF Dispatch, TypeOK
  <2>5. pendingJobs' \in Seq(Jobs) /\ activeJobs' \in Nat
    BY <1>1, <2>1 DEF Dispatch, TypeOK
  <2>6. QED
    BY <1>1, <2>3, <2>4, <2>5 DEF Dispatch, TypeOK
<1>2. ASSUME NEW j \in Jobs, WorkerStep(j) PROVE TypeOK'
  <2>1. CASE Stamp(j)
    <3>1. worker' \in [Jobs -> Worker]
      <4> DEFINE st == IF worker[j].status = "running" /\ Heard(j)
                       THEN "cancelling" ELSE worker[j].status
                 w == [worker[j] EXCEPT !.stamped = TRUE, !.status = st]
      <4>1. worker \in [Jobs -> Worker] /\ worker[j] \in Worker
        BY DEF TypeOK
      <4>2. st \in Status
        BY <4>1, Constituents DEF Worker
      <4>3. w \in Worker
        BY <4>1, <4>2 DEF Worker
      <4>4. worker' = [worker EXCEPT ![j] = w]
        BY <2>1, <4>1 DEF Stamp, Worker
      <4>5. QED
        BY <4>1, <4>3, <4>4
    <3>2. QED
      BY <2>1, <3>1 DEF Stamp, TypeOK
  <2>2. CASE RecordStep(j)
    <3>1. UNCHANGED <<issued, queueVars, cancelEvents, activeProcesses,
                      serverVars, caller, bootVars>>
      BY <2>2 DEF RecordStep
    <3>2. QED
      BY <2>2, <3>1, RecordStepTypes DEF TypeOK
  <2>3. CASE OutsideStep(j)
    <3>1. UNCHANGED <<issued, queueVars, cancelEvents, caller, bootVars>>
      BY <2>3 DEF OutsideStep
    <3>2. QED
      BY <2>3, <3>1, OutsideStepTypes DEF TypeOK
  <2>4. CASE Exit(j)
    <3>1. IdleWorker \in Worker
      BY Constituents DEF IdleWorker, Worker, Protection
    <3>2. QED
      BY <2>4, <3>1 DEF Exit, TypeOK
  <2>5. QED
    BY <1>2, <2>1, <2>2, <2>3, <2>4 DEF WorkerStep
<1>3. ASSUME NEW j \in Jobs, ProcessEnds(j) PROVE TypeOK'
  BY <1>3 DEF ProcessEnds, TypeOK
<1>4. ASSUME NEW j \in Jobs, SwitchPin(j) PROVE TypeOK'
  BY <1>4, ModelsAssumption DEF SwitchPin, TypeOK
<1>5. ASSUME NEW c \in Callers, Request(c) PROVE TypeOK'
  BY <1>5, RequestTypes DEF TypeOK
<1>6. ASSUME NEW c \in Callers, CallerStep(c) PROVE TypeOK'
  BY <1>6, CallerStepTypes DEF TypeOK
<1>7. CASE Restart \/ Boot
  BY <1>7, RebootTypes
<1>8. CASE UNCHANGED vars
  BY <1>8 DEF vars, TypeOK
<1>9. QED
  BY <1>1, <1>2, <1>3, <1>4, <1>5, <1>6, <1>7, <1>8 DEF Next

LEMMA InitTypes == Init => TypeOK
<1>1. IdleWorker \in Worker
  BY Constituents DEF IdleWorker, Worker, Protection
<1>2. Absent \in Record
  BY Constituents DEF Absent, Record, Protection
<1>3. IdleCaller \in Caller
  BY <1>2 DEF IdleCaller, Caller, CallerOp
<1>4. QED
  BY <1>1, <1>2, <1>3, LimitsAssumption DEF Init, TypeOK

\* Every variable has its type: in particular no record ever has a status or
\* a protection state that the code does not know.
THEOREM TypeCorrect == Spec => []TypeOK
<1>1. TypeOK /\ [Next]_vars => TypeOK'
  BY NextTypes
<1>2. QED
  BY <1>1, InitTypes, PTL DEF Spec

-----------------------------------------------------------------------------
(***************************************************************************)
(* The slots.                                                              *)
(***************************************************************************)

Once(s) == \A i, k \in DOMAIN s : s[i] = s[k] => i = k

\* The jobs request c has numbered and not yet enqueued.
Creating(c) ==
    IF caller[c].op \in {"create", "enqueue"} THEN caller[c].todo ELSE {}

\* The jobs a restart has yet to enqueue.
Awaited == IF mode = "requeueing" THEN recovery ELSE {}

Placed == Elements(pendingJobs) \cup Live

OnePlace ==
    /\ Once(pendingJobs)
    /\ Elements(pendingJobs) \cap Live = {}
    /\ Placed \subseteq Elements(issued)
    /\ \A c \in Callers : Creating(c) \subseteq Elements(issued) \ Placed
    /\ \A c, d \in Callers : c # d => Creating(c) \cap Creating(d) = {}
    /\ Awaited \cap Placed = {}

\* Nobody is at work while the application comes up.
QuietBoot ==
    /\ mode # "up" => \A c \in Callers : caller[c] = IdleCaller
    /\ mode = "recovering" => Placed = {}

SchedulingInv == TypeOK /\ OnePlace /\ QuietBoot /\ SlotAccounting

-----------------------------------------------------------------------------
(***************************************************************************)
(* Queues as sets.                                                         *)
(***************************************************************************)

LEMMA AppendElements ==
    ASSUME NEW S, NEW s \in Seq(S), NEW x \in S
    PROVE  /\ Elements(Append(s, x)) = Elements(s) \cup {x}
           /\ Once(s) /\ x \notin Elements(s) => Once(Append(s, x))
<1>1. /\ DOMAIN Append(s, x) = 1..(Len(s) + 1)
      /\ DOMAIN s = 1..Len(s)
      /\ Len(s) \in Nat
      /\ \A i \in 1..Len(s) : Append(s, x)[i] = s[i]
      /\ Append(s, x)[Len(s) + 1] = x
  OBVIOUS
<1>2. Elements(Append(s, x)) \subseteq Elements(s) \cup {x}
  BY <1>1 DEF Elements
<1>3. Elements(s) \cup {x} \subseteq Elements(Append(s, x))
  <2>1. x \in Elements(Append(s, x))
    BY <1>1 DEF Elements
  <2>2. ASSUME NEW i \in DOMAIN s PROVE s[i] \in Elements(Append(s, x))
    BY <1>1 DEF Elements
  <2>3. QED
    BY <2>1, <2>2 DEF Elements
<1>4. ASSUME Once(s), x \notin Elements(s) PROVE Once(Append(s, x))
  BY <1>1, <1>4 DEF Elements, Once
<1>5. QED
  BY <1>2, <1>3, <1>4

LEMMA TailElements ==
    ASSUME NEW S, NEW s \in Seq(S), s # <<>>, Once(s)
    PROVE  /\ Head(s) \in Elements(s)
           /\ Elements(Tail(s)) = Elements(s) \ {Head(s)}
           /\ Once(Tail(s))
<1>1. /\ Len(s) \in Nat \ {0}
      /\ DOMAIN s = 1..Len(s)
      /\ DOMAIN Tail(s) = 1..(Len(s) - 1)
      /\ Head(s) = s[1]
      /\ \A i \in 1..(Len(s) - 1) : Tail(s)[i] = s[i + 1]
  OBVIOUS
<1>2. Head(s) \in Elements(s)
  BY <1>1 DEF Elements
<1>3. Elements(Tail(s)) \subseteq Elements(s) \ {Head(s)}
  BY <1>1 DEF Elements, Once
<1>4. ASSUME NEW i \in DOMAIN s, s[i] # Head(s)
      PROVE  s[i] \in Elements(Tail(s))
  <2>1. i - 1 \in DOMAIN Tail(s) /\ Tail(s)[i - 1] = s[i]
    BY <1>1, <1>4
  <2>2. QED
    BY <2>1 DEF Elements
<1>5. Once(Tail(s))
  BY <1>1 DEF Once
<1>6. QED
  BY <1>2, <1>3, <1>4, <1>5 DEF Elements

LEMMA LiveIsFinite == IsFiniteSet(Live) /\ Live \subseteq Jobs
BY FS_Subset, JobsAssumption DEF Live

-----------------------------------------------------------------------------
(***************************************************************************)
(* What the steps do to the places.                                        *)
(***************************************************************************)


\* A worker that goes on changes its own record, the process, the pins: not
\* the queue, and no other job.
LEMMA WorkerFrame ==
    ASSUME TypeOK, NEW j \in Jobs,
           Stamp(j) \/ RecordStep(j) \/ OutsideStep(j)
    PROVE  /\ UNCHANGED <<issued, queueVars, cancelEvents, caller, bootVars>>
           /\ j \in Live
           /\ Live' = Live
           /\ \A k \in Jobs \ {j} : record'[k] = record[k]
<1> DEFINE Going == /\ worker[j].pc # "idle"
                    /\ worker'[j].pc # "idle"
                    /\ \A k \in Jobs \ {j} : worker'[k] = worker[k]
           Others == \A k \in Jobs \ {j} : record'[k] = record[k]
<1>0. /\ worker \in [Jobs -> Worker]
      /\ record \in [Jobs -> Record]
      /\ DOMAIN worker[j] = {"pc", "stamped", "status", "protection",
                             "batch", "ok"}
  BY DEF TypeOK, Worker
<1>1. ASSUME NEW pc, pc # "idle", Goto(j, pc)
      PROVE  worker'[j].pc # "idle" /\ \A k \in Jobs \ {j} : worker'[k] = worker[k]
  BY <1>0, <1>1 DEF Goto
<1>2. ASSUME NEW pc, NEW s, pc # "idle", Leave(j, pc, s)
      PROVE  worker'[j].pc # "idle" /\ \A k \in Jobs \ {j} : worker'[k] = worker[k]
  BY <1>0, <1>2 DEF Leave
<1>3. ASSUME Store(j) PROVE Others
  BY <1>0, <1>3 DEF Store
<1>4. AfterHandoff(j) # "idle"
  BY DEF AfterHandoff
<1>5. ASSUME Stamp(j) PROVE Going /\ Others
  BY <1>0, <1>5 DEF Stamp, StampedWrites
<1>6. ASSUME RecordStep(j) PROVE Going /\ Others
  <2> USE <1>0 DEF At
  <2>1. CASE ReadRecord(j)
    BY <2>1, <1>1 DEF ReadRecord
  <2>2. CASE CheckCancelled(j)
    BY <2>2, <1>1, <1>2 DEF CheckCancelled
  <2>3. CASE Abort(j)
    BY <2>3, <1>1, <1>3 DEF Abort
  <2>4. CASE LaunchEnv(j)
    BY <2>4, <1>1, <1>2 DEF LaunchEnv
  <2>5. CASE WriteStarted(j)
    BY <2>5, <1>1, <1>3 DEF WriteStarted, WriteAndGoto
  <2>6. CASE WritePinning(j)
    BY <2>6, <1>1, <1>3 DEF WritePinning, WriteAndGoto
  <2>7. CASE WritePinResult(j)
    BY <2>7, <1>1, <1>2, <1>3 DEF WritePinResult, WriteAndGoto
  <2>8. CASE Precheck(j)
    BY <2>8, <1>1, <1>2 DEF Precheck
  <2>9. CASE WriteBatchesInit(j)
    BY <2>9, <1>1, <1>3 DEF WriteBatchesInit, WriteAndGoto
  <2>10. CASE CheckBatch(j)
    BY <2>10, <1>1, <1>2 DEF CheckBatch
  <2>11. CASE WriteBatchBegin(j)
    BY <2>11, <1>1, <1>3 DEF WriteBatchBegin, WriteAndGoto
  <2>12. CASE VerifyBatch(j)
    BY <2>12, <1>1, <1>2 DEF VerifyBatch
  <2>13. CASE WriteBatchEnd(j)
    BY <2>13, <1>1, <1>3 DEF WriteBatchEnd
  <2>14. CASE Settle(j)
    BY <2>14, <1>2, <1>4 DEF Settle
  <2>15. CASE WriteReleasing(j)
    BY <2>15, <1>1 DEF WriteReleasing
  <2>16. CASE WriteReleased(j)
    BY <2>16, <1>1, <1>3 DEF WriteReleased
  <2>17. CASE WriteFinished(j)
    BY <2>17, <1>1, <1>3 DEF WriteFinished
  <2>18. QED
    BY <1>6, <2>1, <2>2, <2>3, <2>4, <2>5, <2>6, <2>7, <2>8, <2>9, <2>10,
       <2>11, <2>12, <2>13, <2>14, <2>15, <2>16, <2>17 DEF RecordStep
<1>7. ASSUME OutsideStep(j) PROVE Going /\ Others
  <2> USE <1>0 DEF At
  <2>1. CASE LoadModel(j)
    BY <2>1 DEF LoadModel
  <2>2. CASE Launch(j)
    BY <2>2, <1>1, <1>2, <1>4 DEF Launch
  <2>3. CASE Register(j)
    BY <2>3, <1>1 DEF Register
  <2>4. CASE HeedCancel(j)
    BY <2>4, <1>1 DEF HeedCancel
  <2>5. CASE Reap(j)
    BY <2>5 DEF Reap
  <2>6. CASE UnpinJudge(j)
    BY <2>6, <1>1 DEF UnpinJudge
  <2>7. CASE UnpinModel(j)
    BY <2>7 DEF UnpinModel
  <2>8. QED
    BY <1>7, <2>1, <2>2, <2>3, <2>4, <2>5, <2>6, <2>7 DEF OutsideStep
<1>8. UNCHANGED <<issued, queueVars, cancelEvents, caller, bootVars>>
  BY DEF Stamp, RecordStep, OutsideStep, queueVars
<1>9. QED
  BY <1>5, <1>6, <1>7, <1>8 DEF Live, At

\* What a thread of the server process does before it begins: nothing but
\* note what it is about to do, or number a job that nobody has.
LEMMA RequestFrame ==
    ASSUME TypeOK, NEW c \in Callers, Request(c)
    PROVE  /\ UNCHANGED <<pendingJobs, activeJobs, cancelEvents, worker,
                          bootVars>>
           /\ mode = "up"
           /\ Elements(issued) \subseteq Elements(issued')
           /\ \A d \in Callers \ {c} : caller'[d] = caller[d]
           /\ Creating(c)' \subseteq Elements(issued') \ Elements(issued)
<1>0. /\ caller \in [Callers -> Caller]
      /\ issued \in Seq(Jobs)
  BY DEF TypeOK
<1>1. ASSUME NEW r, Becomes(c, r), r.op \notin {"create", "enqueue"}
      PROVE  /\ \A d \in Callers \ {c} : caller'[d] = caller[d]
             /\ Creating(c)' = {}
  BY <1>0, <1>1 DEF Becomes, Creating, IdleCaller
<1>2. CASE \E j \in Jobs, limit \in Limits \cup {0} : Submit(c, j, limit)
  <2>1. PICK j \in Jobs, limit \in Limits \cup {0} : Submit(c, j, limit)
    BY <1>2
  <2>2. Elements(issued') = Elements(issued) \cup {j}
    BY <1>0, <2>1, AppendElements DEF Submit
  <2>3. Creating(c)' = {j}
    BY <1>0, <2>1 DEF Submit, Creating, IdleCaller
  <2>4. QED
    BY <1>0, <2>1, <2>2, <2>3 DEF Submit, Free
<1>3. ASSUME NEW S \in SUBSET Jobs, CancelRead(c, S) \/ ClearRead(c, S)
      PROVE  /\ UNCHANGED <<issued, pendingJobs, activeJobs, cancelEvents,
                            worker, bootVars>>
             /\ mode = "up"
             /\ \A d \in Callers \ {c} : caller'[d] = caller[d]
             /\ Creating(c)' = {}
  BY <1>1, <1>3 DEF CancelRead, ClearRead, Free, queueVars, IdleCaller
<1>4. CASE ResultsRead(c)
  BY <1>1, <1>4 DEF ResultsRead, Free, queueVars
<1>5. QED
  BY <1>2, <1>3, <1>4 DEF Request

\* A request that has begun and does not enqueue leaves the queue alone.
LEMMA CallerFrame ==
    ASSUME TypeOK, NEW c \in Callers, CallerStep(c), ~Enqueue(c)
    PROVE  /\ UNCHANGED <<issued, queueVars, worker, bootVars>>
           /\ caller[c] # IdleCaller
           /\ \A d \in Callers \ {c} : caller'[d] = caller[d]
           /\ Creating(c)' \subseteq Creating(c)
<1>0. /\ caller \in [Callers -> Caller]
      /\ DOMAIN caller[c] = {"op", "snap", "todo", "writing", "signal"}
  BY DEF TypeOK, Caller
<1>1. ASSUME NEW r, Becomes(c, r), r.op \notin {"create", "enqueue"}
      PROVE  /\ \A d \in Callers \ {c} : caller'[d] = caller[d]
             /\ Creating(c)' = {}
  BY <1>0, <1>1 DEF Becomes, Creating, IdleCaller
<1> USE <1>0 DEF IdleCaller
<1>2. CASE CreateRecord(c)
  BY <1>2 DEF CreateRecord, Creating, queueVars
<1>3. CASE ClearRemove(c)
  BY <1>3 DEF ClearRemove, Creating, queueVars
<1>4. ASSUME NEW j \in Jobs, CancelSignal(c, j) PROVE
             /\ UNCHANGED <<issued, queueVars, worker, bootVars>>
             /\ caller[c] # IdleCaller
             /\ \A d \in Callers \ {c} : caller'[d] = caller[d]
             /\ Creating(c)' = {}
  BY <1>4 DEF CancelSignal, Creating
<1>5. ASSUME NEW j \in Jobs, CancelWrite(c, j)
      PROVE  /\ UNCHANGED <<issued, queueVars, worker, bootVars>>
             /\ caller[c] # IdleCaller
             /\ \A d \in Callers \ {c} : caller'[d] = caller[d]
             /\ Creating(c)' = {}
  <2> DEFINE queued == caller[c].snap[j].status = "queued"
             r == [caller[c] EXCEPT
                     !.snap[j] = Absent, !.writing = {},
                     !.signal = IF queued THEN @ ELSE @ \cup {j}]
  <2>1. r.op = caller[c].op
    BY <1>0
  <2>2. Becomes(c, r) /\ caller[c].op = "cancel"
    BY <1>5 DEF CancelWrite
  <2> HIDE DEF r
  <2>3. QED
    BY <1>5, <2>1, <2>2, <1>1 DEF CancelWrite
<1>6. ASSUME NEW j \in Jobs, CancelTerminate(c, j)
      PROVE  /\ UNCHANGED <<issued, queueVars, worker, bootVars>>
             /\ caller[c] # IdleCaller
             /\ \A d \in Callers \ {c} : caller'[d] = caller[d]
             /\ Creating(c)' = {}
  <2> DEFINE r == [caller[c] EXCEPT !.signal = @ \ {j}]
  <2>1. r.op = caller[c].op
    BY <1>0
  <2>2. Becomes(c, r) /\ caller[c].op = "cancel"
    BY <1>6 DEF CancelTerminate
  <2> HIDE DEF r
  <2>3. QED
    BY <1>6, <2>1, <2>2, <1>1 DEF CancelTerminate
<1>7. ASSUME NEW j \in Jobs, ResultsStore(c, j)
      PROVE  /\ UNCHANGED <<issued, queueVars, worker, bootVars>>
             /\ caller[c] # IdleCaller
             /\ \A d \in Callers \ {c} : caller'[d] = caller[d]
             /\ Creating(c)' = {}
  <2> DEFINE r == [caller[c] EXCEPT !.writing = {}, !.snap[j] = Absent]
  <2>1. r.op = caller[c].op
    BY <1>0
  <2>2. Becomes(c, r) /\ caller[c].op = "results"
    BY <1>7 DEF ResultsStore
  <2> HIDE DEF r
  <2>3. QED
    BY <1>7, <2>1, <2>2, <1>1 DEF ResultsStore
<1>8. ASSUME NEW j \in Jobs, ResultsStamp(c, j)
      PROVE  /\ UNCHANGED <<issued, queueVars, worker, bootVars>>
             /\ caller[c] # IdleCaller
             /\ \A d \in Callers \ {c} : caller'[d] = caller[d]
             /\ Creating(c)' = {}
  <2>1. /\ caller[c].op = "results"
        /\ UNCHANGED <<issued, queueVars, worker, bootVars>>
    BY <1>8 DEF ResultsStamp
  <2> DEFINE r == [caller[c] EXCEPT !.todo = @ \ {j}, !.snap[j] = Absent]
  <2>2. r.op = caller[c].op
    BY <1>0
  <2>3. CASE Becomes(c, r)
    <3> HIDE DEF r
    <3>1. QED
      BY <2>1, <2>2, <2>3, <1>1
  <2>4. CASE caller' = [caller EXCEPT
                          ![c].todo = @ \ {j},
                          ![c].writing = {j},
                          ![c].snap[j].status =
                              IF @ = "running" /\ Heard(j) THEN "cancelling"
                                                           ELSE @]
    <3>1. /\ \A d \in Callers \ {c} : caller'[d] = caller[d]
          /\ caller'[c].op = caller[c].op
      BY <2>4
    <3>2. QED
      BY <2>1, <3>1 DEF Creating
  <2>5. QED
    BY <1>8, <2>3, <2>4 DEF ResultsStamp
<1>9. QED
  BY <1>2, <1>3, <1>4, <1>5, <1>6, <1>7, <1>8 DEF CallerStep

\* _enqueue_job appends a job that is at no place.
LEMMA EnqueueFrame ==
    ASSUME TypeOK, NEW j \in Jobs, EnqueueJob(j), j \notin Elements(pendingJobs)
    PROVE  /\ pendingJobs' = Append(pendingJobs, j)
           /\ Elements(pendingJobs') = Elements(pendingJobs) \cup {j}
           /\ Once(pendingJobs) => Once(pendingJobs')
           /\ {k \in Jobs : Heard(k)}' = {k \in Jobs : Heard(k)}
<1>1. pendingJobs \in Seq(Jobs)
  BY DEF TypeOK
<1>2. pendingJobs' = Append(pendingJobs, j)
  BY DEF EnqueueJob
<1>3. {k \in Jobs : Heard(k)}' = {k \in Jobs : Heard(k)}
  BY DEF EnqueueJob, Heard, TypeOK
<1>4. QED
  BY <1>1, <1>2, <1>3, AppendElements

-----------------------------------------------------------------------------
(***************************************************************************)
(* The invariant is inductive.                                             *)
(***************************************************************************)

\* The scheduler gives a slot to a job that has no worker, or drops it.
LEMMA DispatchPlaces ==
    ASSUME SchedulingInv, Dispatch
    PROVE  OnePlace' /\ QuietBoot' /\ SlotAccounting'
<1> DEFINE j == Head(pendingJobs)
<1>1. /\ pendingJobs \in Seq(Jobs) /\ pendingJobs # <<>>
      /\ worker \in [Jobs -> Worker]
      /\ activeJobs \in Nat
      /\ mode # "recovering"
  BY DEF SchedulingInv, TypeOK, Dispatch
<1>2. /\ Once(pendingJobs)
      /\ j \in Elements(pendingJobs)
      /\ Elements(pendingJobs') = Elements(pendingJobs) \ {j}
      /\ Once(pendingJobs')
  BY <1>1, TailElements DEF SchedulingInv, OnePlace, Dispatch
<1>3. j \in Jobs /\ j \notin Live
  BY <1>1, <1>2 DEF SchedulingInv, OnePlace
<1>4. \/ Live' = Live /\ activeJobs' = activeJobs
      \/ Live' = Live \cup {j} /\ activeJobs' = activeJobs + 1
  <2>1. ASSUME worker' = [worker EXCEPT ![j].pc = "read"]
        PROVE  Live' = Live \cup {j}
    BY <1>1, <1>3, <2>1 DEF Live, At, Worker
  <2>2. QED
    BY <2>1 DEF Dispatch, Live, At
<1>5. SlotAccounting'
  BY <1>3, <1>4, LiveIsFinite, FS_AddElement DEF SchedulingInv, SlotAccounting
<1>6. UNCHANGED <<issued, caller, mode, recovery>>
  BY DEF Dispatch, bootVars
<1>7. \A c \in Callers : Creating(c)' = Creating(c)
  BY <1>6 DEF Creating
<1>8. Awaited' = Awaited
  BY <1>6 DEF Awaited
<1>9. Placed' \subseteq Placed
  BY <1>2, <1>4 DEF Placed
<1>10. OnePlace'
  BY <1>2, <1>4, <1>6, <1>7, <1>8, <1>9 DEF SchedulingInv, OnePlace
<1>11. QuietBoot'
  BY <1>1, <1>6 DEF SchedulingInv, QuietBoot
<1>12. QED
  BY <1>5, <1>10, <1>11

\* A worker that ends gives back the slot it had.
LEMMA ExitPlaces ==
    ASSUME SchedulingInv, NEW j \in Jobs, Exit(j)
    PROVE  /\ OnePlace' /\ QuietBoot' /\ SlotAccounting'
           /\ j \in Live /\ Live' = Live \ {j}
<1>1. worker \in [Jobs -> Worker]
  BY DEF SchedulingInv, TypeOK
<1>2. j \in Live /\ Live' = Live \ {j}
  BY <1>1 DEF Exit, Live, At, IdleWorker
<1>3. activeJobs # 0
  BY <1>2, LiveIsFinite, FS_EmptySet DEF SchedulingInv, SlotAccounting
<1>4. SlotAccounting'
  BY <1>2, <1>3, LiveIsFinite, FS_RemoveElement
     DEF SchedulingInv, SlotAccounting, Exit
<1>5. UNCHANGED <<pendingJobs, issued, caller, mode, recovery>>
  BY DEF Exit, bootVars
<1>6. /\ \A c \in Callers : Creating(c)' = Creating(c)
      /\ Awaited' = Awaited
      /\ Placed' \subseteq Placed
  BY <1>2, <1>5 DEF Creating, Awaited, Placed
<1>7. OnePlace' /\ QuietBoot'
  BY <1>2, <1>5, <1>6 DEF SchedulingInv, OnePlace, QuietBoot, Once
<1>8. QED
  BY <1>2, <1>4, <1>7

\* A new request takes no job that has a place.
LEMMA RequestPlaces ==
    ASSUME SchedulingInv, NEW c \in Callers, Request(c)
    PROVE  OnePlace' /\ QuietBoot' /\ SlotAccounting'
<1>1. TypeOK
  BY DEF SchedulingInv
<1>2. /\ UNCHANGED <<pendingJobs, activeJobs, worker, mode, recovery>>
      /\ mode = "up"
      /\ Elements(issued) \subseteq Elements(issued')
      /\ \A d \in Callers \ {c} : caller'[d] = caller[d]
      /\ Creating(c)' \subseteq Elements(issued') \ Elements(issued)
  BY <1>1, RequestFrame DEF bootVars
<1>3. Live' = Live /\ Placed' = Placed /\ Awaited' = Awaited
  BY <1>2 DEF Live, At, Placed, Awaited
<1>4. \A d \in Callers \ {c} : Creating(d)' = Creating(d)
  BY <1>2 DEF Creating
<1>5. Creating(c)' \cap Placed = {}
  BY <1>2 DEF SchedulingInv, OnePlace
<1>6. \A d \in Callers \ {c} : Creating(c)' \cap Creating(d)' = {}
  BY <1>2, <1>4 DEF SchedulingInv, OnePlace
<1>7. \A d \in Callers : Creating(d)' \subseteq Elements(issued') \ Placed'
  BY <1>2, <1>3, <1>4, <1>5 DEF SchedulingInv, OnePlace
<1>8. \A d, e \in Callers : d # e => Creating(d)' \cap Creating(e)' = {}
  BY <1>4, <1>6 DEF SchedulingInv, OnePlace
<1>9. OnePlace'
  BY <1>2, <1>3, <1>7, <1>8 DEF SchedulingInv, OnePlace, Once
<1>10. QED
  BY <1>2, <1>3, <1>9 DEF SchedulingInv, QuietBoot, SlotAccounting

\* The end of a creation puts the job in the queue; no other request that has
\* begun moves a job.
LEMMA CallerPlaces ==
    ASSUME SchedulingInv, NEW c \in Callers, CallerStep(c)
    PROVE  OnePlace' /\ QuietBoot' /\ SlotAccounting'
<1>1. TypeOK
  BY DEF SchedulingInv
<1>2. CASE ~Enqueue(c)
  <2>1. /\ UNCHANGED <<issued, pendingJobs, activeJobs, worker, mode, recovery>>
        /\ caller[c] # IdleCaller
        /\ \A d \in Callers \ {c} : caller'[d] = caller[d]
        /\ Creating(c)' \subseteq Creating(c)
    BY <1>1, <1>2, CallerFrame DEF queueVars, bootVars
  <2>2. Live' = Live /\ Placed' = Placed /\ Awaited' = Awaited
    BY <2>1 DEF Live, At, Placed, Awaited
  <2>3. \A d \in Callers : Creating(d)' \subseteq Creating(d)
    BY <2>1 DEF Creating
  <2>4. mode = "up"
    BY <2>1 DEF SchedulingInv, QuietBoot
  <2>5. QED
    BY <2>1, <2>2, <2>3, <2>4
       DEF SchedulingInv, OnePlace, QuietBoot, SlotAccounting, Once
<1>3. CASE Enqueue(c)
  <2>1. PICK j \in caller[c].todo : EnqueueJob(j)
    BY <1>3 DEF Enqueue
  <2>2. /\ j \in Creating(c)
        /\ UNCHANGED <<issued, activeJobs, worker, mode, recovery>>
        /\ caller' = [caller EXCEPT ![c] = IdleCaller]
    BY <1>3, <2>1 DEF Enqueue, Creating, bootVars
  <2>3. /\ j \in Elements(issued) \ Placed
        /\ j \in Jobs
    BY <1>1, <2>1, <2>2 DEF SchedulingInv, OnePlace, TypeOK, Caller
  <2>4. /\ Elements(pendingJobs') = Elements(pendingJobs) \cup {j}
        /\ Once(pendingJobs')
    BY <1>1, <2>1, <2>3, EnqueueFrame DEF SchedulingInv, OnePlace, Placed
  <2>5. Live' = Live /\ Awaited' = Awaited /\ Placed' = Placed \cup {j}
    BY <2>2, <2>4 DEF Live, At, Placed, Awaited
  <2>6. /\ Creating(c)' = {}
        /\ \A d \in Callers \ {c} : /\ Creating(d)' = Creating(d)
                                    /\ j \notin Creating(d)
    BY <1>1, <2>2 DEF Creating, IdleCaller, TypeOK, SchedulingInv, OnePlace
  <2>7. mode = "up"
    BY <1>3 DEF SchedulingInv, QuietBoot, Enqueue, IdleCaller
  <2>8. OnePlace'
    <3>1. \A d \in Callers : Creating(d)' \subseteq Elements(issued') \ Placed'
      BY <2>2, <2>5, <2>6 DEF SchedulingInv, OnePlace
    <3>2. \A d, e \in Callers : d # e => Creating(d)' \cap Creating(e)' = {}
      BY <2>6 DEF SchedulingInv, OnePlace
    <3>3. Awaited' = {}
      BY <2>5, <2>7 DEF Awaited
    <3>4. QED
      BY <2>2, <2>3, <2>4, <2>5, <3>1, <3>2, <3>3
         DEF SchedulingInv, OnePlace, Placed
  <2>9. QED
    BY <2>2, <2>5, <2>7, <2>8 DEF SchedulingInv, QuietBoot, SlotAccounting
<1>4. QED
  BY <1>2, <1>3

\* A restart empties all places; the queued jobs come back one by one.
LEMMA RebootPlaces ==
    ASSUME SchedulingInv, Restart \/ Boot
    PROVE  OnePlace' /\ QuietBoot' /\ SlotAccounting'
<1>1. TypeOK
  BY DEF SchedulingInv
<1>2. CASE Restart
  <2>1. /\ pendingJobs' = <<>> /\ activeJobs' = 0
        /\ mode' = "recovering"
        /\ worker' = [k \in Jobs |-> IdleWorker]
        /\ caller' = [c \in Callers |-> IdleCaller]
    BY <1>2 DEF Restart
  <2>2. Elements(pendingJobs') = {} /\ Live' = {} /\ Placed' = {}
    BY <2>1 DEF Elements, Live, At, IdleWorker, Placed
  <2>3. Awaited' = {} /\ \A c \in Callers : Creating(c)' = {}
    BY <2>1 DEF Awaited, Creating, IdleCaller
  <2>4. Once(pendingJobs')
    BY <2>1 DEF Once
  <2>5. SlotAccounting'
    BY <2>1, <2>2, FS_EmptySet DEF SlotAccounting
  <2>6. QED
    BY <2>1, <2>2, <2>3, <2>4, <2>5 DEF OnePlace, QuietBoot
<1>3. ASSUME NEW j \in Jobs, Reconcile(j)
      PROVE  OnePlace' /\ QuietBoot' /\ SlotAccounting'
  <2>1. /\ UNCHANGED <<issued, pendingJobs, activeJobs, worker, caller, mode>>
        /\ mode = "recovering"
    BY <1>3 DEF Reconcile, queueVars
  <2>2. /\ Live' = Live /\ Placed' = Placed
        /\ Awaited' = {}
        /\ \A c \in Callers : Creating(c)' = Creating(c)
    BY <2>1 DEF Live, At, Placed, Awaited, Creating
  <2>3. QED
    BY <2>1, <2>2 DEF SchedulingInv, OnePlace, QuietBoot, SlotAccounting, Once
<1>4. CASE StartScheduler
  <2>1. /\ UNCHANGED <<issued, pendingJobs, activeJobs, worker, caller>>
        /\ mode = "recovering" /\ mode' = "requeueing"
    BY <1>4 DEF StartScheduler, queueVars
  <2>2. /\ Live' = Live /\ Placed' = Placed /\ Placed = {}
        /\ \A c \in Callers : /\ Creating(c)' = Creating(c)
                              /\ caller[c] = IdleCaller
    BY <2>1 DEF Live, At, Placed, Creating, SchedulingInv, QuietBoot
  <2>3. QED
    BY <2>1, <2>2 DEF SchedulingInv, OnePlace, QuietBoot, SlotAccounting, Once
<1>5. CASE Requeue
  <2>1. PICK i \in DOMAIN issued : /\ issued[i] \in recovery
                                   /\ EnqueueJob(issued[i])
                                   /\ recovery' = recovery \ {issued[i]}
    BY <1>5 DEF Requeue
  <2> DEFINE j == issued[i]
  <2>2. /\ UNCHANGED <<issued, activeJobs, worker, caller, mode>>
        /\ mode = "requeueing"
    BY <1>5 DEF Requeue
  <2>3. /\ j \in Elements(issued) \ Placed
        /\ j \in Jobs
        /\ j \in Awaited
    BY <1>1, <2>1, <2>2
       DEF SchedulingInv, OnePlace, TypeOK, Elements, Awaited
  <2>4. /\ Elements(pendingJobs') = Elements(pendingJobs) \cup {j}
        /\ Once(pendingJobs')
    BY <1>1, <2>1, <2>3, EnqueueFrame DEF SchedulingInv, OnePlace, Placed
  <2>5. /\ Live' = Live
        /\ Awaited' = Awaited \ {j}
        /\ Placed' = Placed \cup {j}
    BY <2>1, <2>2, <2>4 DEF Live, At, Placed, Awaited
  <2>6. \A c \in Callers : Creating(c)' = {} /\ caller[c] = IdleCaller
    BY <2>2 DEF Creating, SchedulingInv, QuietBoot, IdleCaller
  <2> HIDE DEF j
  <2>7. OnePlace'
    BY <2>2, <2>3, <2>4, <2>5, <2>6 DEF SchedulingInv, OnePlace, Placed
  <2>8. QED
    BY <2>2, <2>5, <2>7 DEF SchedulingInv, QuietBoot, SlotAccounting
<1>6. CASE Serve
  <2>1. /\ UNCHANGED <<issued, pendingJobs, activeJobs, worker, caller>>
        /\ mode' = "up"
    BY <1>6 DEF Serve, queueVars
  <2>2. /\ Live' = Live /\ Placed' = Placed /\ Awaited' = {}
        /\ \A c \in Callers : Creating(c)' = Creating(c)
    BY <2>1 DEF Live, At, Placed, Awaited, Creating
  <2>3. QED
    BY <2>1, <2>2 DEF SchedulingInv, OnePlace, QuietBoot, SlotAccounting, Once
<1>7. QED
  BY <1>2, <1>3, <1>4, <1>5, <1>6 DEF Boot

\* Steps that leave queue, workers and requests alone.
LEMMA IdlePlaces ==
    ASSUME SchedulingInv, Live' = Live,
           UNCHANGED <<issued, pendingJobs, activeJobs, caller, bootVars>>
    PROVE  OnePlace' /\ QuietBoot' /\ SlotAccounting'
<1>1. /\ Placed' = Placed /\ Awaited' = Awaited
      /\ \A c \in Callers : Creating(c)' = Creating(c)
  BY DEF Placed, Awaited, Creating, bootVars
<1>2. QED
  BY <1>1
     DEF SchedulingInv, OnePlace, QuietBoot, SlotAccounting, Once, bootVars

LEMMA SchedulingStep ==
    ASSUME SchedulingInv, [Next]_vars
    PROVE  SchedulingInv'
<1>1. TypeOK /\ TypeOK'
  BY NextTypes DEF SchedulingInv
<1>2. CASE Dispatch
  BY <1>1, <1>2, DispatchPlaces DEF SchedulingInv
<1>3. ASSUME NEW j \in Jobs, WorkerStep(j)
      PROVE  OnePlace' /\ QuietBoot' /\ SlotAccounting'
  <2>1. CASE Exit(j)
    BY <2>1, ExitPlaces
  <2>2. CASE Stamp(j) \/ RecordStep(j) \/ OutsideStep(j)
    BY <1>1, <2>2, WorkerFrame, IdlePlaces DEF queueVars
  <2>3. QED
    BY <1>3, <2>1, <2>2 DEF WorkerStep
<1>4. ASSUME NEW j \in Jobs, ProcessEnds(j) \/ SwitchPin(j)
      PROVE  OnePlace' /\ QuietBoot' /\ SlotAccounting'
  BY <1>4, IdlePlaces DEF ProcessEnds, SwitchPin, queueVars, Live, At
<1>5. ASSUME NEW c \in Callers, Request(c) \/ CallerStep(c)
      PROVE  OnePlace' /\ QuietBoot' /\ SlotAccounting'
  BY <1>5, RequestPlaces, CallerPlaces
<1>6. CASE Restart \/ Boot
  BY <1>1, <1>6, RebootPlaces DEF SchedulingInv
<1>7. CASE UNCHANGED vars
  BY <1>1, <1>7, IdlePlaces DEF vars, queueVars, Live, At, SchedulingInv
<1>8. QED
  BY <1>1, <1>2, <1>3, <1>4, <1>5, <1>6, <1>7 DEF Next, SchedulingInv

LEMMA InitScheduling == Init => SchedulingInv
<1> SUFFICES ASSUME Init PROVE SchedulingInv
  OBVIOUS
<1>1. TypeOK
  BY InitTypes
<1>2. Elements(pendingJobs) = {} /\ Live = {} /\ Placed = {}
  BY DEF Init, Elements, Live, At, IdleWorker, Placed
<1>3. Awaited = {} /\ \A c \in Callers : Creating(c) = {}
  BY DEF Init, Awaited, Creating, IdleCaller
<1>4. QED
  BY <1>1, <1>2, <1>3, FS_EmptySet
     DEF Init, SchedulingInv, OnePlace, QuietBoot, SlotAccounting, Once

\* No job is at two places, whatever the threads do.
THEOREM SchedulingInvariant == Spec => []SchedulingInv
<1>1. SchedulingInv /\ [Next]_vars => SchedulingInv'
  BY SchedulingStep
<1>2. QED
  BY <1>1, InitScheduling, PTL DEF Spec

\* The counter of _scheduler_loop and _run_scheduled_job is the number of
\* worker threads: its clamp at zero (jobs.py:935) never hides a lost slot,
\* and no second worker is ever started for a job that has one.
THEOREM SlotsAreCounted == Spec => []SlotAccounting
<1>1. SchedulingInv => SlotAccounting
  BY DEF SchedulingInv
<1>2. QED
  BY <1>1, SchedulingInvariant, PTL

-----------------------------------------------------------------------------
(***************************************************************************)
(* The job manager implements the queue.                                   *)
(***************************************************************************)

Signalled == {j \in Jobs : Heard(j)}

\* Steps that change nothing the queue shows.
LEMMA Stutters ==
    ASSUME UNCHANGED <<pendingJobs, maxConcurrentJobs>>, Live' = Live,
           Signalled' = Signalled
    PROVE  [Queue!Next]_(Queue!queueVars)
BY DEF Queue!queueVars, Signalled

LEMMA DispatchRefines ==
    ASSUME SchedulingInv, Dispatch
    PROVE  [Queue!Next]_(Queue!queueVars)
<1> DEFINE j == Head(pendingJobs)
<1>1. /\ pendingJobs \in Seq(Jobs) /\ pendingJobs # <<>>
      /\ worker \in [Jobs -> Worker]
      /\ cancelEvents \in [Jobs -> {"none", "clear", "set"}]
  BY DEF SchedulingInv, TypeOK, Dispatch
<1>2. /\ j \in Elements(pendingJobs) /\ j \in Jobs /\ j \notin Live
  BY <1>1, TailElements DEF SchedulingInv, OnePlace
<1>3. pendingJobs' = Tail(pendingJobs) /\ UNCHANGED maxConcurrentJobs
  BY DEF Dispatch
<1>4. CASE Heard(j)
  <2>1. Live' = Live /\ Signalled' = Signalled \ {j}
    BY <1>1, <1>2, <1>4 DEF Dispatch, Live, At, Signalled, Heard
  <2>2. Queue!Drop
    BY <1>1, <1>2, <1>3, <1>4, <2>1 DEF Queue!Drop, Signalled
  <2>3. QED
    BY <2>2 DEF Queue!Next
<1>5. CASE ~Heard(j)
  <2>1. Live' = Live \cup {j} /\ Signalled' = Signalled
    BY <1>1, <1>2, <1>5 DEF Dispatch, Live, At, Worker, Signalled, Heard
  <2>2. Queue!Cardinality(Live) < maxConcurrentJobs
    <3>1. Cardinality(Live) < maxConcurrentJobs
      BY DEF SchedulingInv, SlotAccounting, Dispatch
    <3>2. Queue!Cardinality(Live) = Cardinality(Live)
      BY DEF Queue!Cardinality, Cardinality
    <3>3. QED
      BY <3>1, <3>2
  <2>3. Queue!Start
    BY <1>1, <1>2, <1>3, <1>5, <2>1, <2>2 DEF Queue!Start, Signalled
  <2>4. QED
    BY <2>3 DEF Queue!Next
<1>6. QED
  BY <1>4, <1>5

\* Enqueueing, by a request or after a restart, is a submission.
LEMMA EnqueueRefines ==
    ASSUME SchedulingInv, NEW j \in Jobs, EnqueueJob(j), j \notin Placed,
           UNCHANGED <<worker, maxConcurrentJobs>>
    PROVE  [Queue!Next]_(Queue!queueVars)
<1>1. /\ pendingJobs' = Append(pendingJobs, j)
      /\ Signalled' = Signalled
  BY EnqueueFrame DEF SchedulingInv, Placed, Signalled
<1>2. Live' = Live
  BY DEF Live, At
<1>3. Queue!Submit(j)
  BY <1>1, <1>2 DEF Queue!Submit, Queue!Waits, Placed, Elements, Signalled
<1>4. QED
  BY <1>3 DEF Queue!Next

LEMMA CallerRefines ==
    ASSUME SchedulingInv, NEW c \in Callers, CallerStep(c)
    PROVE  [Queue!Next]_(Queue!queueVars)
<1>1. TypeOK
  BY DEF SchedulingInv
<1>2. CASE Enqueue(c)
  <2>1. PICK j \in caller[c].todo : EnqueueJob(j)
    BY <1>2 DEF Enqueue
  <2>2. j \in Jobs /\ j \notin Placed
    BY <1>1, <1>2, <2>1
       DEF Enqueue, Creating, SchedulingInv, OnePlace, TypeOK, Caller
  <2>3. QED
    BY <1>2, <2>1, <2>2, EnqueueRefines DEF Enqueue
<1>3. ASSUME NEW j \in Jobs, CancelSignal(c, j)
      PROVE  Queue!Cancel(j)
  <2>1. Signalled' = Signalled \cup {j}
    BY <1>1, <1>3 DEF CancelSignal, Signalled, Heard, TypeOK
  <2>2. UNCHANGED <<pendingJobs, maxConcurrentJobs>> /\ Live' = Live
    BY <1>3 DEF CancelSignal, queueVars, Live, At
  <2>3. QED
    BY <2>1, <2>2 DEF Queue!Cancel, Signalled
<1>4. CASE \/ CreateRecord(c) \/ ClearRemove(c)
           \/ \E j \in Jobs : \/ CancelWrite(c, j) \/ CancelTerminate(c, j)
                              \/ ResultsStamp(c, j) \/ ResultsStore(c, j)
  <2>1. UNCHANGED <<queueVars, cancelEvents, worker>>
    BY <1>4 DEF CreateRecord, ClearRemove, CancelWrite, CancelTerminate,
                ResultsStamp, ResultsStore
  <2>2. QED
    BY <2>1, Stutters DEF queueVars, Live, At, Signalled, Heard
<1>5. QED
  BY <1>2, <1>3, <1>4 DEF CallerStep, Queue!Next

LEMMA RequestRefines ==
    ASSUME SchedulingInv, NEW c \in Callers, Request(c)
    PROVE  [Queue!Next]_(Queue!queueVars)
<1>1. UNCHANGED <<pendingJobs, cancelEvents, worker>>
  BY RequestFrame DEF SchedulingInv
<1>2. maxConcurrentJobs' \in Nat \ {0}
  BY RequestTypes DEF SchedulingInv
<1>3. Queue!SetLimit
  BY <1>1, <1>2 DEF Queue!SetLimit, Live, At, Heard
<1>4. QED
  BY <1>3 DEF Queue!Next

LEMMA RebootRefines ==
    ASSUME SchedulingInv, Restart \/ Boot
    PROVE  [Queue!Next]_(Queue!queueVars)
<1>1. CASE Restart
  <2>1. /\ pendingJobs' = <<>> /\ maxConcurrentJobs' = DefaultLimit
        /\ Live' = {} /\ Signalled' = {}
    BY <1>1 DEF Restart, Live, At, IdleWorker, Signalled, Heard
  <2>2. Queue!Reset
    BY <2>1 DEF Queue!Reset, Signalled
  <2>3. QED
    BY <2>2 DEF Queue!Next
<1>2. CASE Requeue
  <2>1. PICK i \in DOMAIN issued : /\ issued[i] \in recovery
                                   /\ EnqueueJob(issued[i])
    BY <1>2 DEF Requeue
  <2>2. /\ issued[i] \in Jobs
        /\ issued[i] \notin Placed
        /\ UNCHANGED <<worker, maxConcurrentJobs>>
    BY <1>2, <2>1
       DEF Requeue, SchedulingInv, OnePlace, TypeOK, Awaited
  <2>3. QED
    BY <2>1, <2>2, EnqueueRefines
<1>3. CASE (\E j \in Jobs : Reconcile(j)) \/ StartScheduler \/ Serve
  <2>1. UNCHANGED <<queueVars, cancelEvents, worker>>
    BY <1>3 DEF Reconcile, StartScheduler, Serve
  <2>2. QED
    BY <2>1, Stutters DEF queueVars, Live, At, Signalled, Heard
<1>4. QED
  BY <1>1, <1>2, <1>3 DEF Boot

LEMMA StepRefines ==
    ASSUME SchedulingInv, [Next]_vars
    PROVE  [Queue!Next]_(Queue!queueVars)
<1>1. CASE Dispatch
  BY <1>1, DispatchRefines
<1>2. ASSUME NEW j \in Jobs, WorkerStep(j)
      PROVE  [Queue!Next]_(Queue!queueVars)
  <2>1. CASE Exit(j)
    <3>1. j \in Live /\ Live' = Live \ {j}
      BY <2>1, ExitPlaces
    <3>2. Signalled' = Signalled \ {j}
      BY <2>1 DEF Exit, Signalled, Heard, SchedulingInv, TypeOK
    <3>3. Queue!Finish(j)
      BY <2>1, <3>1, <3>2 DEF Queue!Finish, Exit, Signalled
    <3>4. QED
      BY <3>3 DEF Queue!Next
  <2>2. CASE Stamp(j) \/ RecordStep(j) \/ OutsideStep(j)
    <3>1. UNCHANGED <<queueVars, cancelEvents>> /\ Live' = Live
      BY <2>2, WorkerFrame DEF SchedulingInv
    <3>2. QED
      BY <3>1, Stutters DEF queueVars, Signalled, Heard
  <2>3. QED
    BY <1>2, <2>1, <2>2 DEF WorkerStep
<1>3. ASSUME NEW j \in Jobs, ProcessEnds(j) \/ SwitchPin(j)
      PROVE  [Queue!Next]_(Queue!queueVars)
  BY <1>3, Stutters
     DEF ProcessEnds, SwitchPin, queueVars, Live, At, Signalled, Heard
<1>4. ASSUME NEW c \in Callers, Request(c) \/ CallerStep(c)
      PROVE  [Queue!Next]_(Queue!queueVars)
  BY <1>4, RequestRefines, CallerRefines
<1>5. CASE Restart \/ Boot
  BY <1>5, RebootRefines
<1>6. CASE UNCHANGED vars
  BY <1>6, Stutters DEF vars, queueVars, Live, At, Signalled, Heard
<1>7. QED
  BY <1>1, <1>2, <1>3, <1>4, <1>5, <1>6 DEF Next

\* Whatever requests, workers and restarts do, jobs get slots in the order in
\* which they were enqueued, never more than the limit at the time one is
\* given, and a job that was cancelled while it waited gets none.
THEOREM QueueIsImplemented == Spec => ImplementsQueue
<1>1. Init => Queue!Init
  BY DEF Init, Queue!Init, Live, At, IdleWorker, Heard
<1>2. SchedulingInv /\ [Next]_vars => [Queue!Next]_(Queue!queueVars)
  BY StepRefines
<1>3. QED
  BY <1>1, <1>2, SchedulingInvariant, PTL DEF Spec, Queue!Spec, ImplementsQueue
=============================================================================
