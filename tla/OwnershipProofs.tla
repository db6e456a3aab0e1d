-------------------------- MODULE OwnershipProofs --------------------------
(***************************************************************************)
(* Job files, workers and cancel requests agree: what a file says of a job *)
(* is what some thread is about to act on.                                 *)
(*                                                                         *)
(* Three parties write the file of a job that is not a SWE Mini job: its   *)
(* worker, the request that creates it and the requests that cancel or     *)
(* clear it, each from a copy of its own.  The argument follows the cancel *)
(* event: it is set before any file says cancelling, it stays set while    *)
(* the job has a worker, and a worker never writes "queued".               *)
(***************************************************************************)
EXTENDS DispatchProofs

\* Where a worker has not written the file yet, where it works, and where it
\* only has a result to write.
Starting == {"read", "check", "abort", "env", "start"}
Working == {"start", "pinning", "load", "pin_result", "precheck",
            "batches_init", "batch_check", "batch_begin", "launch",
            "register", "heed", "wait", "batch_verify", "batch_end", "settle"}
Ending == {"abort", "unpin_judge", "release", "unpin", "released", "finish"}

\* What a worker holds of its job is a status it may write at this point, and
\* not "cancelling" before the event is set.
CopyFits(j) ==
    /\ At(j, "idle") => worker[j] = IdleWorker
    /\ worker[j].pc \in Working =>
          worker[j].status \in {"running", "cancelling"}
    /\ worker[j].pc \in Ending => worker[j].status \in Terminal
    /\ worker[j].status = "cancelling" => Heard(j)

\* A process runs only under a worker that waits for it, or without one after
\* a restart; while it is waited for, cancel requests can find it.
ProcessFits(j) ==
    /\ j \in Live /\ process[j] # "none" =>
          worker[j].pc \in {"register", "heed", "wait"}
    /\ worker[j].pc \in {"heed", "wait"} => j \in activeProcesses

\* The file is behind the worker, never ahead of it.
FileFits(j) ==
    /\ record[j].status = "queued" =>
          process[j] = "none" /\ worker[j].pc \in Starting \cup {"idle"}
    /\ record[j].status = "running" =>
          IF mode = "recovering" THEN j \in recovery
                                 ELSE j \in Live /\ ~At(j, "exit")
    /\ record[j].status = "cancelling" /\ j \in Live =>
          /\ Heard(j)
          /\ process[j] = "running" =>
                \/ worker[j].pc \in {"register", "heed"}
                \/ \E c \in Callers : j \in caller[c].signal

\* What a request may hold: files one at a time, one new job, and a results
\* request only those of SWE Mini jobs.
RequestFits(c) ==
    /\ caller[c].op # "cancel" => caller[c].signal = {}
    /\ caller[c].op \notin {"cancel", "results"} => caller[c].writing = {}
    /\ \A j, k \in caller[c].writing : j = k
    /\ caller[c].op \in {"create", "enqueue"} =>
          \A j, k \in caller[c].todo : j = k
    /\ caller[c].op = "results" =>
          caller[c].todo \cup caller[c].writing \subseteq Swe

\* What a request is about to do to a job: write its cancelled file, signal its
\* process, or put it in the queue.  A job is new until it is created.
Cancels(c, j) == caller[c].op = "cancel" /\ j \in caller[c].writing
Signals(j) == \E c \in Callers : j \in caller[c].signal
Enqueues(c, j) == caller[c].op = "enqueue" /\ j \in caller[c].todo
New(j) ==
    \/ j \notin Elements(issued)
    \/ \E c \in Callers : caller[c].op = "create" /\ j \in caller[c].todo

\* A request that is about to write a cancelled job has set its event; an
\* event that is set before the file was written has such a request.  Nobody
\* has heard of a job that has no file yet.
EventFits(j) ==
    /\ \A c \in Callers : Cancels(c, j) /\ j \in Live => Heard(j)
    /\ Heard(j) => mode # "recovering"
    /\ Heard(j) /\ record[j].status = "queued" =>
          \E c \in Callers : Cancels(c, j)
    /\ New(j) => ~Heard(j) /\ process[j] = "none"

\* A file that says queued has somebody who will get to it.
QueuedFits(j) ==
    record[j].status = "queued" /\ mode # "recovering" =>
        \/ j \in Placed \cup recovery
        \/ \E c \in Callers : Enqueues(c, j) \/ Cancels(c, j)

JobFits(j) == CopyFits(j) /\ ProcessFits(j) /\ FileFits(j) /\ EventFits(j)
                /\ QueuedFits(j)

OwnershipInv == /\ DispatchInv
                /\ \A c \in Callers : RequestFits(c)
                /\ \A j \in NotSwe : JobFits(j)

Fits == /\ \A c \in Callers : RequestFits(c)
        /\ \A j \in NotSwe : JobFits(j)

\* A step keeps the facts about a job it does not touch.
LEMMA Untouched ==
    ASSUME NEW k \in NotSwe, JobFits(k),
           worker'[k] = worker[k], record'[k] = record[k],
           process'[k] = process[k],
           mode' = "recovering" <=> mode = "recovering",
           k \in activeProcesses => k \in activeProcesses',
           Heard(k)' <=> Heard(k),
           k \in recovery => \/ k \in recovery'
                            \/ /\ mode # "recovering"
                               /\ k \in Elements(pendingJobs'),
           k \in Elements(pendingJobs) => k \in Elements(pendingJobs'),
           New(k)' => New(k),
           Signals(k) => Signals(k)',
           \A c \in Callers : /\ Cancels(c, k)' <=> Cancels(c, k)
                              /\ Enqueues(c, k) =>
                                    \/ Enqueues(c, k)'
                                    \/ k \in Elements(pendingJobs')
    PROVE  JobFits(k)'
<1>1. /\ k \in Jobs
      /\ k \in Live' <=> k \in Live
      /\ \A pc : At(k, pc)' <=> At(k, pc)
  BY DEF NotSwe, Live, At
<1>2. CopyFits(k)' /\ ProcessFits(k)'
  BY <1>1 DEF JobFits, CopyFits, ProcessFits
<1>3. FileFits(k)'
  BY <1>1 DEF JobFits, FileFits, Signals
<1>4. EventFits(k)'
  BY <1>1 DEF JobFits, EventFits
<1>5. QueuedFits(k)'
  BY <1>1 DEF JobFits, QueuedFits, Placed
<1>6. QED
  BY <1>2, <1>3, <1>4, <1>5 DEF JobFits

\* A file that is cancelled or removed no longer speaks of the queue or of a
\* worker.
LEMMA Rewritten ==
    ASSUME NEW k \in NotSwe, JobFits(k),
           worker'[k] = worker[k], process'[k] = process[k],
           UNCHANGED <<mode, activeProcesses>>,
           Heard(k)' <=> Heard(k),
           New(k)' => New(k),
           \A c \in Callers : Cancels(c, k)' => Cancels(c, k),
           record'[k].status \notin {"queued", "running"},
           record'[k].status = "cancelling" /\ k \in Live =>
                Heard(k) /\ Signals(k)'
    PROVE  JobFits(k)'
<1>1. /\ k \in Jobs
      /\ k \in Live' <=> k \in Live
      /\ \A pc : At(k, pc)' <=> At(k, pc)
  BY DEF NotSwe, Live, At
<1>2. CopyFits(k)' /\ ProcessFits(k)' /\ EventFits(k)' /\ QueuedFits(k)'
  BY <1>1 DEF JobFits, CopyFits, ProcessFits, EventFits, QueuedFits
<1>3. FileFits(k)'
  BY <1>1 DEF JobFits, FileFits, Signals
<1>4. QED
  BY <1>2, <1>3 DEF JobFits

-----------------------------------------------------------------------------
(***************************************************************************)
(* Steps of a worker.                                                      *)
(***************************************************************************)

\* A worker touches nothing of another job.
LEMMA WorkerTouches ==
    ASSUME TypeOK, NEW j \in Jobs, WorkerStep(j), NEW k \in Jobs \ {j}
    PROVE  /\ worker'[k] = worker[k] /\ record'[k] = record[k]
           /\ process'[k] = process[k]
           /\ k \in activeProcesses' <=> k \in activeProcesses
           /\ Heard(k)' <=> Heard(k)
           /\ UNCHANGED <<issued, pendingJobs, caller, bootVars>>
<1> DEFINE Others == worker'[k] = worker[k]
<1>0. /\ worker \in [Jobs -> Worker]
      /\ process \in [Jobs -> {"none", "running", "terminating", "exited"}]
      /\ cancelEvents \in [Jobs -> {"none", "clear", "set"}]
  BY DEF TypeOK
<1>1. ASSUME NEW pc, Goto(j, pc) PROVE Others
  BY <1>0, <1>1 DEF Goto
<1>2. ASSUME NEW pc, NEW s, Leave(j, pc, s) PROVE Others
  BY <1>0, <1>2 DEF Leave
<1>3. CASE Exit(j)
  BY <1>0, <1>3 DEF Exit, Heard, serverVars
<1>4. CASE Stamp(j)
  <2>1. worker'[k] = worker[k]
    BY <1>0, <1>4 DEF Stamp
  <2>2. QED
    BY <1>4, <2>1, WorkerFrame DEF Stamp, queueVars, serverVars, Heard
<1>5. CASE RecordStep(j)
  <2>1. ASSUME ReadRecord(j) \/ CheckCancelled(j) \/ Abort(j) \/ LaunchEnv(j)
        PROVE  Others
    BY <2>1, <1>0, <1>1, <1>2 DEF ReadRecord, CheckCancelled, Abort, LaunchEnv
  <2>2. ASSUME WriteStarted(j) \/ WritePinning(j) \/ WritePinResult(j)
        PROVE  Others
    BY <2>2, <1>0, <1>1, <1>2
       DEF WriteStarted, WritePinning, WritePinResult, WriteAndGoto
  <2>3. ASSUME \/ Precheck(j) \/ WriteBatchesInit(j) \/ CheckBatch(j)
               \/ WriteBatchBegin(j) \/ VerifyBatch(j)
        PROVE  Others
    BY <2>3, <1>1, <1>2 DEF Precheck, WriteBatchesInit, CheckBatch,
                            WriteBatchBegin, VerifyBatch, WriteAndGoto
  <2>4. ASSUME WriteBatchEnd(j) \/ Settle(j) PROVE Others
    BY <2>4, <1>0, <1>1, <1>2 DEF WriteBatchEnd, Settle
  <2>5. ASSUME WriteReleasing(j) \/ WriteReleased(j) \/ WriteFinished(j)
        PROVE  Others
    BY <2>5, <1>0, <1>1 DEF WriteReleasing, WriteReleased, WriteFinished
  <2>6. Others
    BY <1>5, <2>1, <2>2, <2>3, <2>4, <2>5 DEF RecordStep
  <2>7. QED
    BY <1>5, <2>6, WorkerFrame DEF RecordStep, queueVars, serverVars, Heard
<1>6. CASE OutsideStep(j)
  <2> DEFINE Apart == /\ Others /\ process'[k] = process[k]
                      /\ k \in activeProcesses' <=> k \in activeProcesses
  <2>1. ASSUME LoadModel(j) \/ UnpinModel(j) PROVE Apart
    BY <2>1, <1>0 DEF LoadModel, UnpinModel
  <2>2. ASSUME Launch(j) \/ Register(j) \/ HeedCancel(j) \/ UnpinJudge(j)
        PROVE  Apart
    BY <2>2, <1>0, <1>1, <1>2
       DEF Launch, Register, HeedCancel, Terminate, UnpinJudge
  <2>3. ASSUME Reap(j) PROVE Apart
    BY <2>3, <1>0 DEF Reap
  <2>4. Apart
    BY <1>6, <2>1, <2>2, <2>3 DEF OutsideStep
  <2>5. QED
    BY <1>6, <2>4, WorkerFrame DEF OutsideStep, queueVars, Heard
<1>7. QED
  BY <1>3, <1>4, <1>5, <1>6 DEF WorkerStep

\* What the file says of a worker's own job after a step of that worker.
LEMMA WorkerFits ==
    ASSUME OwnershipInv, NEW j \in NotSwe,
           Stamp(j) \/ RecordStep(j) \/ OutsideStep(j)
    PROVE  /\ CopyFits(j)' /\ ProcessFits(j)' /\ FileFits(j)'
           /\ record'[j].status = "queued" => record'[j] = record[j]
           /\ ~At(j, "read")'
<1> DEFINE Own == /\ CopyFits(j)' /\ ProcessFits(j)' /\ FileFits(j)'
                  /\ record'[j].status = "queued" => record'[j] = record[j]
                  /\ ~At(j, "read")'
<1>0. /\ worker \in [Jobs -> Worker]
      /\ DOMAIN worker[j] = {"pc", "stamped", "status", "protection",
                             "batch", "ok"}
      /\ worker[j].status \in Status
      /\ record \in [Jobs -> Record]
      /\ process \in [Jobs -> {"none", "running", "terminating", "exited"}]
      /\ j \in Jobs /\ j \notin Swe
      /\ TypeOK
  BY DEF OwnershipInv, DispatchInv, SchedulingInv, TypeOK, Worker, NotSwe
<1>1. CopyFits(j) /\ ProcessFits(j) /\ FileFits(j)
  BY DEF OwnershipInv, JobFits
<1>2. /\ UNCHANGED <<cancelEvents, caller, mode, recovery>>
      /\ Heard(j)' <=> Heard(j)
      /\ mode # "recovering"
      /\ j \in Live /\ j \in Live'
  BY <1>0, WorkerFrame
     DEF bootVars, Heard, OwnershipInv, DispatchInv, SchedulingInv, QuietBoot,
         Placed
<1>3. ASSUME NEW pc, Goto(j, pc)
      PROVE  /\ worker'[j].pc = pc /\ worker'[j].status = worker[j].status
             /\ worker'[j].protection = worker[j].protection
  BY <1>0, <1>3 DEF Goto
<1>4. ASSUME NEW pc, NEW s, Leave(j, pc, s)
      PROVE  worker'[j].pc = pc /\ worker'[j].status = s
  BY <1>0, <1>4 DEF Leave
<1>5. ASSUME Store(j) PROVE record'[j].status = worker[j].status
  BY <1>0, <1>5 DEF Store
<1> USE <1>0, <1>1, <1>2
<1> USE DEF CopyFits, ProcessFits, FileFits, Live, At, Starting, Working,
            Ending, Terminal, StampedWrites
<1>6. ASSUME Stamp(j) PROVE Own
  BY <1>6 DEF Stamp, serverVars
<1>7. ASSUME RecordStep(j) PROVE Own
  <2>0. UNCHANGED <<process, activeProcesses>>
    BY <1>7 DEF RecordStep, serverVars
  <2>1. ASSUME ReadRecord(j) PROVE Own
    BY <2>0, <2>1, <1>3 DEF ReadRecord
  <2>2. ASSUME CheckCancelled(j) PROVE Own
    BY <2>0, <2>2, <1>3, <1>4 DEF CheckCancelled
  <2>3. ASSUME Abort(j) PROVE Own
    BY <2>0, <2>3, <1>3, <1>5 DEF Abort
  <2>4. ASSUME LaunchEnv(j) PROVE Own
    BY <2>0, <2>4, <1>3, <1>4 DEF LaunchEnv
  <2>5. ASSUME WriteStarted(j) PROVE Own
    BY <2>0, <2>5, <1>3, <1>5 DEF WriteStarted, WriteAndGoto
  <2>6. ASSUME WritePinning(j) PROVE Own
    BY <2>0, <2>6, <1>3, <1>5 DEF WritePinning, WriteAndGoto
  <2>7. ASSUME WritePinResult(j) PROVE Own
    BY <2>0, <2>7, <1>3, <1>4, <1>5 DEF WritePinResult, WriteAndGoto
  <2>8. ASSUME Precheck(j) PROVE Own
    BY <2>0, <2>8, <1>3, <1>4 DEF Precheck
  <2>9. ASSUME WriteBatchesInit(j) PROVE Own
    BY <2>0, <2>9, <1>3, <1>5 DEF WriteBatchesInit, WriteAndGoto
  <2>10. ASSUME CheckBatch(j) PROVE Own
    BY <2>0, <2>10, <1>3, <1>4 DEF CheckBatch
  <2>11. ASSUME WriteBatchBegin(j) PROVE Own
    BY <2>0, <2>11, <1>3, <1>5 DEF WriteBatchBegin, WriteAndGoto
  <2>12. ASSUME VerifyBatch(j) PROVE Own
    BY <2>0, <2>12, <1>3, <1>4 DEF VerifyBatch
  <2>13. ASSUME WriteBatchEnd(j) PROVE Own
    BY <2>0, <2>13, <1>3, <1>5 DEF WriteBatchEnd
  <2>14. ASSUME Settle(j) PROVE Own
    BY <2>0, <2>14, <1>3, <1>4 DEF Settle, AfterHandoff
  <2>15. ASSUME WriteReleasing(j) PROVE Own
    BY <2>0, <2>15, <1>3 DEF WriteReleasing
  <2>16. ASSUME WriteReleased(j) PROVE Own
    BY <2>0, <2>16, <1>3, <1>5 DEF WriteReleased
  <2>17. ASSUME WriteFinished(j) PROVE Own
    BY <2>0, <2>17, <1>3, <1>5 DEF WriteFinished
  <2>18. QED
    BY <1>7, <2>1, <2>2, <2>3, <2>4, <2>5, <2>6, <2>7, <2>8, <2>9,
       <2>10, <2>11, <2>12, <2>13, <2>14, <2>15, <2>16, <2>17 DEF RecordStep
<1>8. ASSUME OutsideStep(j) PROVE Own
  <2>1. ASSUME LoadModel(j) PROVE Own
    BY <2>1, <1>3 DEF LoadModel
  <2>2. ASSUME Launch(j) PROVE Own
    BY <2>2, <1>3, <1>4 DEF Launch, AfterHandoff
  <2>3. ASSUME Register(j) PROVE Own
    BY <2>3, <1>3 DEF Register
  <2>4. ASSUME HeedCancel(j) PROVE Own
    BY <2>4, <1>3 DEF HeedCancel, Terminate
  <2>5. ASSUME Reap(j) PROVE Own
    BY <2>5, <1>3 DEF Reap
  <2>6. ASSUME UnpinJudge(j) PROVE Own
    BY <2>6, <1>3 DEF UnpinJudge
  <2>7. ASSUME UnpinModel(j) PROVE Own
    BY <2>7, <1>3 DEF UnpinModel
  <2>8. QED
    BY <1>8, <2>1, <2>2, <2>3, <2>4, <2>5, <2>6, <2>7 DEF OutsideStep
<1>9. QED
  BY <1>6, <1>7, <1>8
\* The end of a worker frees its job: its file says neither queued nor running.
LEMMA WorkerKeeps ==
    ASSUME OwnershipInv, NEW j \in Jobs, WorkerStep(j)
    PROVE  Fits'
<1>0. /\ TypeOK
      /\ worker \in [Jobs -> Worker]
      /\ cancelEvents \in [Jobs -> {"none", "clear", "set"}]
  BY DEF OwnershipInv, DispatchInv, SchedulingInv, TypeOK
<1>1. UNCHANGED <<issued, caller, mode, recovery, pendingJobs>>
  <2>1. CASE Exit(j)
    BY <2>1 DEF Exit, bootVars
  <2>2. CASE Stamp(j) \/ RecordStep(j) \/ OutsideStep(j)
    BY <2>2, <1>0, WorkerFrame DEF bootVars, queueVars
  <2>3. QED
    BY <2>1, <2>2 DEF WorkerStep
<1>2. \A c \in Callers : RequestFits(c)'
  BY <1>1 DEF OwnershipInv, RequestFits
<1>3. \A k : /\ New(k)' <=> New(k)
             /\ Signals(k)' <=> Signals(k)
             /\ \A c \in Callers : /\ Cancels(c, k)' <=> Cancels(c, k)
                                   /\ Enqueues(c, k)' <=> Enqueues(c, k)
  BY <1>1 DEF New, Signals, Cancels, Enqueues
<1>4. ASSUME NEW k \in NotSwe \ {j} PROVE JobFits(k)'
  <2>1. /\ worker'[k] = worker[k] /\ record'[k] = record[k]
        /\ process'[k] = process[k]
        /\ k \in activeProcesses' <=> k \in activeProcesses
        /\ Heard(k)' <=> Heard(k)
    BY <1>0, WorkerTouches DEF NotSwe
  <2>2. JobFits(k)
    BY DEF OwnershipInv
  <2>3. QED
    BY <1>1, <1>3, <2>1, <2>2, Untouched
<1>5. ASSUME j \in NotSwe PROVE JobFits(j)'
  <2>0. JobFits(j)
    BY <1>5 DEF OwnershipInv
  <2>1. j \in Live /\ ~New(j)
    <3>1. j \in Live
      BY <1>0, WorkerFrame, ExitPlaces
         DEF WorkerStep, OwnershipInv, DispatchInv
    <3>2. QED
      BY <3>1 DEF New, OwnershipInv, DispatchInv, SchedulingInv, OnePlace,
                  Placed, Creating
  <2>2. CASE Exit(j)
    <3>1. /\ worker'[j] = IdleWorker /\ ~Heard(j)' /\ At(j, "exit")
          /\ UNCHANGED <<record, process>>
      BY <1>0, <2>2 DEF Exit, Heard, serverVars
    <3>2. j \notin Live'
      BY <3>1 DEF Live, At, IdleWorker
    <3>3. /\ record[j].status # "queued"
          /\ record[j].status = "running" => mode = "recovering"
      BY <2>0, <3>1 DEF JobFits, FileFits, At, Starting
    <3>4. QED
      BY <1>1, <1>3, <2>0, <2>1, <3>1, <3>2, <3>3
         DEF JobFits, CopyFits, ProcessFits, FileFits, EventFits, QueuedFits,
             At, IdleWorker, Working, Ending
  <2>3. CASE Stamp(j) \/ RecordStep(j) \/ OutsideStep(j)
    <3>1. /\ CopyFits(j)' /\ ProcessFits(j)' /\ FileFits(j)'
          /\ record'[j].status = "queued" => record[j].status = "queued"
      BY <1>5, <2>3, WorkerFits
    <3>2. /\ j \in Live'
          /\ Heard(j)' <=> Heard(j)
      BY <1>0, <2>1, <2>3, WorkerFrame DEF Heard
    <3>3. EventFits(j)'
      BY <1>1, <1>3, <2>0, <2>1, <3>1, <3>2 DEF JobFits, EventFits
    <3>4. QueuedFits(j)'
      BY <3>2 DEF QueuedFits, Placed
    <3>5. QED
      BY <3>1, <3>3, <3>4 DEF JobFits
  <2>4. QED
    BY <2>2, <2>3 DEF WorkerStep
<1>6. QED
  BY <1>2, <1>4, <1>5 DEF Fits
-----------------------------------------------------------------------------
(***************************************************************************)
(* Steps of the scheduler, of processes and of the runner.                 *)
(***************************************************************************)

\* The job that gets a slot has a queued file that nobody is about to write;
\* the job that is dropped has a cancel request that is about to.
LEMMA DispatchKeeps ==
    ASSUME OwnershipInv, Dispatch
    PROVE  Fits'
<1>0. /\ TypeOK
      /\ worker \in [Jobs -> Worker]
      /\ cancelEvents \in [Jobs -> {"none", "clear", "set"}]
      /\ mode # "recovering"
      /\ UNCHANGED <<record, process, issued, caller, mode, recovery,
                     activeProcesses>>
  BY DEF OwnershipInv, DispatchInv, SchedulingInv, TypeOK, Dispatch, bootVars,
         serverVars
<1>1. PICK h \in Jobs :
        /\ h = Head(pendingJobs)
        /\ h \in Elements(pendingJobs) /\ h \notin Live
        /\ Elements(pendingJobs') = Elements(pendingJobs) \ {h}
  <2>1. /\ pendingJobs \in Seq(Jobs) /\ pendingJobs # <<>>
        /\ Once(pendingJobs)
        /\ Elements(pendingJobs) \cap Live = {}
    BY <1>0 DEF Dispatch, TypeOK, OwnershipInv, DispatchInv, SchedulingInv,
                OnePlace
  <2>2. QED
    BY <2>1, TailElements DEF Dispatch
<1>2. \/ /\ Heard(h)
         /\ cancelEvents' = [cancelEvents EXCEPT ![h] = "none"]
         /\ UNCHANGED worker
      \/ /\ ~Heard(h)
         /\ cancelEvents' = [cancelEvents EXCEPT ![h] = "clear"]
         /\ worker' = [worker EXCEPT ![h].pc = "read"]
  BY <1>1 DEF Dispatch
<1>3. \A c \in Callers : RequestFits(c)'
  BY <1>0 DEF OwnershipInv, RequestFits
<1>4. \A k : /\ New(k)' <=> New(k)
             /\ Signals(k)' <=> Signals(k)
             /\ \A c \in Callers : /\ Cancels(c, k)' <=> Cancels(c, k)
                                   /\ Enqueues(c, k)' <=> Enqueues(c, k)
  BY <1>0 DEF New, Signals, Cancels, Enqueues
<1>5. ASSUME NEW k \in NotSwe \ {h} PROVE JobFits(k)'
  <2>1. /\ worker'[k] = worker[k]
        /\ Heard(k)' <=> Heard(k)
    BY <1>0, <1>1, <1>2 DEF Heard, NotSwe
  <2>2. JobFits(k)
    BY DEF OwnershipInv
  <2>3. QED
    BY <1>0, <1>1, <1>4, <2>1, <2>2, Untouched
<1>6. ASSUME h \in NotSwe PROVE JobFits(h)'
  <2>1. JobFits(h) /\ At(h, "idle") /\ worker[h] = IdleWorker
    BY <1>1, <1>6 DEF OwnershipInv, JobFits, CopyFits, Live
  <2>2. ~Heard(h)' /\ record[h].status # "running"
    BY <1>0, <1>1, <1>2, <2>1 DEF Heard, JobFits, FileFits
  <2>3. CASE Heard(h)
    <3>1. worker'[h] = worker[h]
      BY <1>2, <2>3
    <3>2. h \notin Live'
      BY <2>1, <3>1 DEF Live, At
    <3>3. QED
      BY <1>0, <1>4, <2>1, <2>2, <2>3, <3>1, <3>2
         DEF JobFits, CopyFits, ProcessFits, FileFits, EventFits, QueuedFits,
             At, IdleWorker, Working, Ending
  <2>4. CASE ~Heard(h)
    <3>1. worker'[h] = [IdleWorker EXCEPT !.pc = "read"]
      BY <1>0, <1>1, <1>2, <2>1, <2>4
    <3>2. h \in Live' /\ worker'[h].pc = "read" /\ worker'[h].status = "absent"
      BY <1>1, <3>1 DEF Live, At, IdleWorker
    <3>3. /\ record[h].status = "queued"
          /\ \A c \in Callers : ~Overwrites(c, h)
      BY <1>1, <2>4 DEF OwnershipInv, DispatchInv, ExpectedIsQueued, Expected
    <3>4. process[h] = "none" /\ \A c \in Callers : ~Cancels(c, h)
      BY <2>1, <3>3 DEF JobFits, FileFits, Overwrites, Cancels
    <3>5. CopyFits(h)' /\ ProcessFits(h)' /\ FileFits(h)'
      BY <1>0, <3>2, <3>3, <3>4
         DEF CopyFits, ProcessFits, FileFits, At, Starting, Working, Ending
    <3>6. EventFits(h)' /\ QueuedFits(h)'
      BY <1>0, <1>4, <2>1, <2>2, <3>2, <3>4
         DEF JobFits, EventFits, QueuedFits, Placed
    <3>7. QED
      BY <3>5, <3>6 DEF JobFits
  <2>5. QED
    BY <2>3, <2>4
<1>7. QED
  BY <1>3, <1>5, <1>6 DEF Fits

LEMMA ProcessKeeps ==
    ASSUME OwnershipInv, NEW j \in Jobs, ProcessEnds(j) \/ SwitchPin(j)
    PROVE  Fits'
<1>0. /\ process \in [Jobs -> {"none", "running", "terminating", "exited"}]
      /\ UNCHANGED <<record, worker, issued, pendingJobs, caller, cancelEvents,
                     mode, recovery, activeProcesses>>
  BY DEF OwnershipInv, DispatchInv, SchedulingInv, TypeOK, ProcessEnds,
         SwitchPin, bootVars, queueVars
<1>1. \A c \in Callers : RequestFits(c)'
  BY <1>0 DEF OwnershipInv, RequestFits
<1>2. ASSUME NEW k \in NotSwe PROVE JobFits(k)'
  <2>1. JobFits(k) /\ k \in Jobs
    BY DEF OwnershipInv, NotSwe
  <2>2. /\ process'[k] # "none" => process[k] # "none"
        /\ process'[k] = "running" => process[k] = "running"
    BY <1>0, <2>1 DEF ProcessEnds, SwitchPin
  <2>3. /\ process[k] = "none" => process'[k] = "none"
    BY <2>2
  <2>4. /\ k \in Live' <=> k \in Live
        /\ Heard(k)' <=> Heard(k)
        /\ New(k)' <=> New(k)
        /\ \A c \in Callers : /\ Cancels(c, k)' <=> Cancels(c, k)
                              /\ Enqueues(c, k)' <=> Enqueues(c, k)
    BY <1>0 DEF Live, At, Heard, New, Cancels, Enqueues
  <2>5. CopyFits(k)' /\ ProcessFits(k)' /\ FileFits(k)'
    BY <1>0, <2>1, <2>2, <2>4 DEF JobFits, CopyFits, ProcessFits, FileFits, At
  <2>6. EventFits(k)' /\ QueuedFits(k)'
    BY <1>0, <2>1, <2>2, <2>4 DEF JobFits, EventFits, QueuedFits, Placed
  <2>7. QED
    BY <2>5, <2>6 DEF JobFits
<1>3. QED
  BY <1>1, <1>2 DEF Fits

-----------------------------------------------------------------------------
(***************************************************************************)
(* Steps of requests.                                                      *)
(***************************************************************************)

\* What becomes of a request that goes on.
LEMMA BecomesFields ==
    ASSUME TypeOK, NEW c \in Callers, NEW r, Becomes(c, r)
    PROVE  /\ caller'[c].todo = r.todo
           /\ caller'[c].writing = r.writing
           /\ caller'[c].signal = r.signal
           /\ caller'[c].op \in {r.op, "idle"}
           /\ r.todo \cup r.writing \cup r.signal # {} => caller'[c].op = r.op
           /\ \A d \in Callers \ {c} : caller'[d] = caller[d]
<1>1. caller \in [Callers -> Caller]
  BY DEF TypeOK
<1>2. CASE r.todo \cup r.writing \cup r.signal = {}
  BY <1>1, <1>2 DEF Becomes, IdleCaller
<1>3. CASE r.todo \cup r.writing \cup r.signal # {}
  BY <1>1, <1>3 DEF Becomes
<1>4. QED
  BY <1>2, <1>3

\* A new request only reads, or takes a job that has no file.
LEMMA RequestKeeps ==
    ASSUME OwnershipInv, NEW c \in Callers, Request(c)
    PROVE  Fits'
<1>0. TypeOK /\ caller \in [Callers -> Caller]
  BY DEF OwnershipInv, DispatchInv, SchedulingInv, TypeOK
<1>1. /\ UNCHANGED <<record, pendingJobs, cancelEvents, worker, mode, recovery>>
      /\ Elements(issued) \subseteq Elements(issued')
      /\ \A d \in Callers \ {c} : caller'[d] = caller[d]
      /\ caller'[c].op = "create" =>
            caller'[c].todo \cap Elements(issued) = {}
  BY <1>0, RequestFrame, RequestCopies DEF bootVars
<1>2. /\ caller[c].op = "idle" /\ caller[c].signal = {}
      /\ UNCHANGED <<process, activeProcesses>>
  BY DEF Request, Submit, CancelRead, ClearRead, ResultsRead, Free,
         OwnershipInv, RequestFits, serverVars
<1>3. /\ caller'[c].writing = {} /\ caller'[c].signal = {}
      /\ caller'[c].op # "enqueue"
      /\ RequestFits(c)'
  <2>1. CASE \E j \in Jobs, limit \in Limits \cup {0} : Submit(c, j, limit)
    BY <1>0, <2>1 DEF Submit, IdleCaller, RequestFits
  <2>2. ASSUME NEW S \in SUBSET Jobs, CancelRead(c, S)
        PROVE  /\ caller'[c].writing = {} /\ caller'[c].signal = {}
               /\ caller'[c].op \in {"cancel", "idle"}
    BY <1>0, <2>2, BecomesFields DEF CancelRead
  <2>3. ASSUME NEW S \in SUBSET Jobs, ClearRead(c, S)
        PROVE  /\ caller'[c].writing = {} /\ caller'[c].signal = {}
               /\ caller'[c].op \in {"clear", "idle"}
    <3> DEFINE r == [IdleCaller EXCEPT
                       !.op = "clear", !.todo = {j \in S : record[j] # Absent}]
    <3>1. Becomes(c, r)
      BY <2>3 DEF ClearRead
    <3>2. r.writing = {} /\ r.signal = {} /\ r.op = "clear"
      BY DEF IdleCaller
    <3> HIDE DEF r
    <3>3. QED
      BY <1>0, <3>1, <3>2, BecomesFields
  <2>4. ASSUME ResultsRead(c)
        PROVE  /\ caller'[c].writing = {} /\ caller'[c].signal = {}
               /\ caller'[c].op \in {"results", "idle"}
               /\ caller'[c].todo \subseteq Swe
    <3> DEFINE unfinished == {j \in Swe : record[j].status \in
                                              {"running", "cancelling"}}
               r == [op |-> "results", snap |-> Snapshot(unfinished),
                     todo |-> unfinished, writing |-> {}, signal |-> {}]
    <3>1. Becomes(c, r)
      BY <2>4 DEF ResultsRead
    <3>2. /\ r.writing = {} /\ r.signal = {} /\ r.op = "results"
          /\ r.todo \subseteq Swe
      OBVIOUS
    <3> HIDE DEF r
    <3>3. QED
      BY <1>0, <3>1, <3>2, BecomesFields
  <2>5. QED
    BY <2>1, <2>2, <2>3, <2>4 DEF Request, RequestFits
<1>4. \A d \in Callers : RequestFits(d)'
  BY <1>1, <1>3 DEF OwnershipInv, RequestFits
<1>5. ASSUME NEW k \in NotSwe PROVE JobFits(k)'
  <2>1. JobFits(k) /\ k \in Jobs
    BY DEF OwnershipInv, NotSwe
  <2>2. \A d \in Callers : /\ Cancels(d, k)' <=> Cancels(d, k)
                           /\ Enqueues(d, k) => Enqueues(d, k)'
    BY <1>1, <1>2, <1>3 DEF Cancels, Enqueues
  <2>3. Signals(k) => Signals(k)'
    BY <1>1, <1>2 DEF Signals
  <2>4. CASE New(k)' => New(k)
    BY <1>1, <1>2, <2>1, <2>2, <2>3, <2>4, Untouched DEF Heard
  <2>5. New(k)' => New(k)
    BY <1>1, <2>1 DEF New
  <2>6. QED
    BY <2>4, <2>5
<1>6. QED
  BY <1>4, <1>5 DEF Fits
\* The file of a new job is written before it is enqueued.
LEMMA CreateKeeps ==
    ASSUME OwnershipInv, NEW c \in Callers, CreateRecord(c)
    PROVE  Fits'
<1>0. /\ caller \in [Callers -> Caller]
      /\ DOMAIN caller[c] = {"op", "snap", "todo", "writing", "signal"}
      /\ worker \in [Jobs -> Worker]
  BY DEF OwnershipInv, DispatchInv, SchedulingInv, TypeOK, Caller
<1>1. /\ UNCHANGED <<issued, pendingJobs, cancelEvents, worker, process, mode,
                     recovery, activeProcesses>>
      /\ caller[c].op = "create"
      /\ caller[c].writing = {} /\ caller[c].signal = {}
      /\ \A d \in Callers \ {c} : caller'[d] = caller[d]
  BY <1>0 DEF CreateRecord, queueVars, bootVars, serverVars, OwnershipInv,
              RequestFits
<1>2. \/ /\ caller'[c].op = "enqueue" /\ caller'[c].todo = caller[c].todo
         /\ caller'[c].writing = {} /\ caller'[c].signal = {}
         /\ \A k \in Jobs : record'[k] = IF k \in caller[c].todo
                                         THEN Queued ELSE record[k]
      \/ /\ caller'[c] = IdleCaller
         /\ UNCHANGED record
  BY <1>0, <1>1 DEF CreateRecord
<1>3. \A d \in Callers : RequestFits(d)'
  BY <1>1, <1>2 DEF OwnershipInv, RequestFits, IdleCaller
<1>4. ASSUME NEW k \in NotSwe PROVE JobFits(k)'
  <2>1. JobFits(k) /\ k \in Jobs
    BY DEF OwnershipInv, NotSwe
  <2>2. /\ New(k)' => New(k)
        /\ Signals(k) => Signals(k)'
        /\ Heard(k)' <=> Heard(k)
        /\ \A d \in Callers : /\ Cancels(d, k)' <=> Cancels(d, k)
                              /\ Enqueues(d, k) => Enqueues(d, k)'
    BY <1>1, <1>2 DEF New, Signals, Heard, Cancels, Enqueues, IdleCaller
  <2>3. CASE record'[k] = record[k]
    BY <1>1, <2>1, <2>2, <2>3, Untouched
  <2>4. CASE /\ k \in caller[c].todo /\ record'[k] = Queued
             /\ caller'[c].op = "enqueue" /\ caller'[c].todo = caller[c].todo
    <3>1. New(k) /\ Enqueues(c, k)'
      BY <1>1, <2>4 DEF New, Enqueues
    <3>2. ~Heard(k) /\ process[k] = "none"
      BY <2>1, <3>1 DEF JobFits, EventFits
    <3>3. At(k, "idle") /\ k \notin Live'
      BY <1>0, <1>1, <2>1, <2>4 DEF OwnershipInv, DispatchInv, SchedulingInv,
                               OnePlace, Placed, Creating, Live, At
    <3>4. CopyFits(k)' /\ ProcessFits(k)' /\ FileFits(k)'
      BY <1>1, <2>1, <2>2, <2>4, <3>2, <3>3
         DEF JobFits, CopyFits, ProcessFits, FileFits, Queued, At
    <3>5. EventFits(k)' /\ QueuedFits(k)'
      BY <1>1, <2>2, <3>1, <3>2, <3>3 DEF EventFits, QueuedFits
    <3>6. QED
      BY <3>4, <3>5 DEF JobFits
  <2>5. QED
    BY <1>2, <2>1, <2>3, <2>4
<1>5. QED
  BY <1>3, <1>4 DEF Fits

LEMMA EnqueueKeeps ==
    ASSUME OwnershipInv, NEW c \in Callers, Enqueue(c)
    PROVE  Fits'
<1>0. TypeOK /\ caller \in [Callers -> Caller]
  BY DEF OwnershipInv, DispatchInv, SchedulingInv, TypeOK
<1>1. PICK j \in caller[c].todo : EnqueueJob(j)
  BY DEF Enqueue
<1>2. /\ UNCHANGED <<record, issued, worker, process, mode, recovery,
                     activeProcesses>>
      /\ caller[c].op = "enqueue"
      /\ caller[c].writing = {} /\ caller[c].signal = {}
      /\ caller[c].todo = {j}
      /\ caller'[c] = IdleCaller
      /\ \A d \in Callers \ {c} : caller'[d] = caller[d]
  BY <1>0, <1>1 DEF Enqueue, serverVars, bootVars, OwnershipInv, RequestFits
<1>3. j \in Jobs /\ j \notin Elements(pendingJobs)
  BY <1>0, <1>1, <1>2 DEF OwnershipInv, DispatchInv, SchedulingInv, OnePlace,
                          Creating, Placed, Caller
<1>4. /\ Elements(pendingJobs') = Elements(pendingJobs) \cup {j}
      /\ {k \in Jobs : Heard(k)}' = {k \in Jobs : Heard(k)}
  BY <1>0, <1>1, <1>3, EnqueueFrame
<1>5. \A d \in Callers : RequestFits(d)'
  BY <1>2 DEF OwnershipInv, RequestFits, IdleCaller
<1>6. ASSUME NEW k \in NotSwe PROVE JobFits(k)'
  <2>1. JobFits(k) /\ k \in Jobs
    BY DEF OwnershipInv, NotSwe
  <2>2. Heard(k)' <=> Heard(k)
    BY <1>4, <2>1
  <2>3. /\ New(k)' => New(k)
        /\ Signals(k) => Signals(k)'
        /\ \A d \in Callers : /\ Cancels(d, k)' <=> Cancels(d, k)
                              /\ Enqueues(d, k) => \/ Enqueues(d, k)'
                                                   \/ k = j
    BY <1>2 DEF New, Signals, Cancels, Enqueues, IdleCaller
  <2>4. QED
    BY <1>2, <1>4, <2>1, <2>2, <2>3, Untouched
<1>7. QED
  BY <1>5, <1>6 DEF Fits

\* Cleanup removes the files it read, whatever they say by then.
LEMMA ClearKeeps ==
    ASSUME OwnershipInv, NEW c \in Callers, ClearRemove(c)
    PROVE  Fits'
<1>0. caller \in [Callers -> Caller]
  BY DEF OwnershipInv, DispatchInv, SchedulingInv, TypeOK
<1>1. /\ UNCHANGED <<issued, pendingJobs, cancelEvents, worker, process, mode,
                     recovery, activeProcesses>>
      /\ caller[c].op = "clear"
      /\ caller[c].writing = {} /\ caller[c].signal = {}
      /\ caller'[c] = IdleCaller
      /\ \A d \in Callers \ {c} : caller'[d] = caller[d]
      /\ \A k \in Jobs : record'[k] \in {record[k], Absent}
  BY <1>0 DEF ClearRemove, queueVars, bootVars, serverVars, OwnershipInv,
              RequestFits
<1>2. \A d \in Callers : RequestFits(d)'
  BY <1>1 DEF OwnershipInv, RequestFits, IdleCaller
<1>3. ASSUME NEW k \in NotSwe PROVE JobFits(k)'
  <2>1. JobFits(k) /\ k \in Jobs
    BY DEF OwnershipInv, NotSwe
  <2>2. /\ New(k)' => New(k)
        /\ Signals(k) => Signals(k)'
        /\ Heard(k)' <=> Heard(k)
        /\ \A d \in Callers : /\ Cancels(d, k)' <=> Cancels(d, k)
                              /\ Enqueues(d, k) => Enqueues(d, k)'
    BY <1>1 DEF New, Signals, Heard, Cancels, Enqueues, IdleCaller
  <2>3. CASE record'[k] = record[k]
    BY <1>1, <2>1, <2>2, <2>3, Untouched
  <2>4. CASE record'[k] = Absent
    BY <1>1, <2>1, <2>2, <2>4, Rewritten DEF Absent
  <2>5. QED
    BY <1>1, <2>1, <2>3, <2>4
<1>4. QED
  BY <1>2, <1>3 DEF Fits
\* The event first, then the file: from here on the worker may write
\* "cancelling" itself.
LEMMA SignalKeeps ==
    ASSUME OwnershipInv, NEW c \in Callers, NEW j \in Jobs, CancelSignal(c, j)
    PROVE  Fits'
<1>0. /\ caller \in [Callers -> Caller]
      /\ DOMAIN caller[c] = {"op", "snap", "todo", "writing", "signal"}
      /\ cancelEvents \in [Jobs -> {"none", "clear", "set"}]
  BY DEF OwnershipInv, DispatchInv, SchedulingInv, TypeOK, Caller
<1>1. /\ UNCHANGED <<record, issued, pendingJobs, worker, process, mode,
                     recovery, activeProcesses>>
      /\ caller[c].op = "cancel" /\ caller'[c].op = "cancel"
      /\ caller[c].writing = {} /\ caller'[c].writing = {j}
      /\ caller'[c].signal = caller[c].signal
      /\ j \in caller[c].todo
      /\ \A d \in Callers \ {c} : caller'[d] = caller[d]
      /\ mode = "up"
  BY <1>0 DEF CancelSignal, queueVars, bootVars, serverVars, OwnershipInv,
              DispatchInv, SchedulingInv, QuietBoot, IdleCaller
<1>2. /\ Heard(j)'
      /\ \A k \in Jobs \ {j} : Heard(k)' <=> Heard(k)
  BY <1>0 DEF CancelSignal, Heard
<1>3. \A d \in Callers : RequestFits(d)'
  BY <1>1 DEF OwnershipInv, RequestFits
<1>4. ASSUME NEW k
      PROVE  /\ New(k)' <=> New(k)
             /\ Signals(k)' <=> Signals(k)
             /\ \A d \in Callers :
                  /\ k # j => (Cancels(d, k)' <=> Cancels(d, k))
                  /\ Enqueues(d, k)' <=> Enqueues(d, k)
  BY <1>1 DEF New, Signals, Cancels, Enqueues
<1>5. ASSUME NEW k \in NotSwe \ {j} PROVE JobFits(k)'
  <2>1. JobFits(k) /\ k \in Jobs
    BY DEF OwnershipInv, NotSwe
  <2>2. QED
    BY <1>1, <1>2, <1>4, <2>1, Untouched
<1>6. ASSUME j \in NotSwe PROVE JobFits(j)'
  <2>1. JobFits(j)
    BY <1>6 DEF OwnershipInv
  <2>2. ~New(j)'
    <3>1. Handles(c, j)
      BY <1>1 DEF Handles
    <3>2. ~New(j)
      BY <3>1 DEF New, OwnershipInv, DispatchInv, OnlyIssuedJobs, FreshJobs
    <3>3. QED
      BY <1>4, <3>2
  <2>3. Cancels(c, j)'
    BY <1>1 DEF Cancels
  <2>4. CopyFits(j)' /\ ProcessFits(j)'
    BY <1>1, <1>2, <2>1 DEF JobFits, CopyFits, ProcessFits, Live, At
  <2>5. FileFits(j)'
    BY <1>1, <1>2, <1>4, <2>1 DEF JobFits, FileFits, Signals, Live, At
  <2>6. EventFits(j)' /\ QueuedFits(j)'
    BY <1>1, <1>2, <2>2, <2>3 DEF EventFits, QueuedFits
  <2>7. QED
    BY <2>4, <2>5, <2>6 DEF JobFits
<1>7. QED
  BY <1>3, <1>5, <1>6 DEF Fits

\* The copy of a cancel request says queued, and the file becomes cancelled;
\* or the request goes on to signal the process.
LEMMA CancelKeeps ==
    ASSUME OwnershipInv, NEW c \in Callers, NEW j \in Jobs, CancelWrite(c, j)
    PROVE  Fits'
<1> DEFINE queued == caller[c].snap[j].status = "queued"
           r == [caller[c] EXCEPT
                   !.snap[j] = Absent, !.writing = {},
                   !.signal = IF queued THEN @ ELSE @ \cup {j}]
<1>0. /\ TypeOK
      /\ caller \in [Callers -> Caller]
      /\ DOMAIN caller[c] = {"op", "snap", "todo", "writing", "signal"}
      /\ caller[c].snap[j] \in Record
      /\ record \in [Jobs -> Record]
  BY DEF OwnershipInv, DispatchInv, SchedulingInv, TypeOK, Caller
<1>1. /\ UNCHANGED <<issued, pendingJobs, cancelEvents, worker, process, mode,
                     recovery, activeProcesses>>
      /\ caller[c].op = "cancel" /\ caller[c].writing = {j}
      /\ Becomes(c, r)
  BY <1>0 DEF CancelWrite, queueVars, bootVars, serverVars, OwnershipInv,
              RequestFits
<1>2. /\ r.op = "cancel" /\ r.todo = caller[c].todo /\ r.writing = {}
      /\ r.signal = caller[c].signal \cup (IF queued THEN {} ELSE {j})
  BY <1>0, <1>1
<1>3. /\ record'[j].status = IF queued THEN "cancelled" ELSE "cancelling"
      /\ \A k \in Jobs \ {j} : record'[k] = record[k]
  BY <1>0 DEF CancelWrite, Record
<1> HIDE DEF queued, r
<1>4. /\ caller'[c].op \in {"cancel", "idle"}
      /\ caller'[c].op = "idle" => caller'[c].signal = {}
      /\ caller'[c].writing = {}
      /\ caller[c].signal \subseteq caller'[c].signal
      /\ ~queued => j \in caller'[c].signal
      /\ \A d \in Callers \ {c} : caller'[d] = caller[d]
  BY <1>0, <1>1, <1>2, BecomesFields
<1>5. \A d \in Callers : RequestFits(d)'
  BY <1>4 DEF OwnershipInv, RequestFits
<1>6. ASSUME NEW k \in NotSwe PROVE JobFits(k)'
  <2>1. JobFits(k) /\ k \in Jobs
    BY DEF OwnershipInv, NotSwe
  <2>2. /\ New(k)' => New(k)
        /\ Signals(k) => Signals(k)'
        /\ Heard(k)' <=> Heard(k)
        /\ \A d \in Callers : /\ Cancels(d, k)' => Cancels(d, k)
                              /\ k # j => (Cancels(d, k)' <=> Cancels(d, k))
                              /\ Enqueues(d, k) => Enqueues(d, k)'
    BY <1>1, <1>4 DEF New, Signals, Heard, Cancels, Enqueues
  <2>3. CASE k # j
    BY <1>1, <1>3, <2>1, <2>2, <2>3, Untouched
  <2>4. CASE k = j
    <3>1. k \in Live => Heard(k)
      BY <1>1, <2>1, <2>4 DEF Cancels, JobFits, EventFits
    <3>2. record'[k].status = "cancelling" => Signals(k)'
      BY <1>3, <1>4, <2>4 DEF Signals
    <3>3. record'[k].status \notin {"queued", "running"}
      BY <1>3, <2>4
    <3>4. QED
      BY <1>1, <2>1, <2>2, <3>1, <3>2, <3>3, Rewritten
  <2>5. QED
    BY <2>3, <2>4
<1>7. QED
  BY <1>5, <1>6 DEF Fits

\* The process of a worker that waits is among the active ones: the signal
\* reaches it.
LEMMA TerminateKeeps ==
    ASSUME OwnershipInv, NEW c \in Callers, NEW j \in Jobs,
           CancelTerminate(c, j)
    PROVE  Fits'
<1> DEFINE r == [caller[c] EXCEPT !.signal = @ \ {j}]
<1>0. /\ TypeOK
      /\ caller \in [Callers -> Caller]
      /\ DOMAIN caller[c] = {"op", "snap", "todo", "writing", "signal"}
      /\ process \in [Jobs -> {"none", "running", "terminating", "exited"}]
  BY DEF OwnershipInv, DispatchInv, SchedulingInv, TypeOK, Caller
<1>1. /\ UNCHANGED <<record, issued, pendingJobs, cancelEvents, worker, mode,
                     recovery, activeProcesses>>
      /\ caller[c].op = "cancel"
      /\ caller[c].todo = {} /\ caller[c].writing = {}
      /\ Becomes(c, r)
  BY DEF CancelTerminate, queueVars, bootVars
<1>2. /\ r.op = "cancel" /\ r.todo = {} /\ r.writing = {}
      /\ r.signal = caller[c].signal \ {j}
  BY <1>0, <1>1
<1>3. /\ \A k \in Jobs \ {j} : process'[k] = process[k]
      /\ process'[j] = "none" <=> process[j] = "none"
      /\ process'[j] = "running" => /\ process[j] = "running"
                                    /\ j \notin activeProcesses
  BY <1>0 DEF CancelTerminate, Terminate
<1> HIDE DEF r
<1>4. /\ caller'[c].op \in {"cancel", "idle"}
      /\ caller'[c].op = "idle" => caller'[c].signal = {}
      /\ caller'[c].writing = {} /\ caller'[c].todo = {}
      /\ caller'[c].signal = caller[c].signal \ {j}
      /\ \A d \in Callers \ {c} : caller'[d] = caller[d]
  BY <1>0, <1>1, <1>2, BecomesFields
<1>5. \A d \in Callers : RequestFits(d)'
  BY <1>4 DEF OwnershipInv, RequestFits
<1>6. ASSUME NEW k \in NotSwe PROVE JobFits(k)'
  <2>1. JobFits(k) /\ k \in Jobs
    BY DEF OwnershipInv, NotSwe
  <2>2. /\ New(k)' => New(k)
        /\ k # j /\ Signals(k) => Signals(k)'
        /\ Heard(k)' <=> Heard(k)
        /\ k \in Live' <=> k \in Live
        /\ \A d \in Callers : /\ Cancels(d, k)' <=> Cancels(d, k)
                              /\ Enqueues(d, k) <=> Enqueues(d, k)'
    BY <1>1, <1>4 DEF New, Signals, Heard, Cancels, Enqueues, Live, At
  <2>3. CASE k # j
    BY <1>1, <1>3, <2>1, <2>2, <2>3, Untouched
  <2>4. CASE k = j
    <3>1. CopyFits(k)' /\ ProcessFits(k)'
      BY <1>1, <1>3, <2>1, <2>2, <2>4 DEF JobFits, CopyFits, ProcessFits, At
    <3>2. process'[k] = "running" /\ k \in Live
            => worker[k].pc \in {"register", "heed"}
      BY <1>3, <2>1, <2>4 DEF JobFits, ProcessFits
    <3>3. FileFits(k)'
      BY <1>1, <1>3, <2>1, <2>2, <2>4, <3>2 DEF JobFits, FileFits, At
    <3>4. EventFits(k)' /\ QueuedFits(k)'
      BY <1>1, <1>3, <2>1, <2>2, <2>4 DEF JobFits, EventFits, QueuedFits, Placed
    <3>5. QED
      BY <3>1, <3>3, <3>4 DEF JobFits
  <2>5. QED
    BY <2>3, <2>4
<1>7. QED
  BY <1>5, <1>6 DEF Fits

\* A results request writes files of SWE Mini jobs only.
LEMMA ResultsKeep ==
    ASSUME OwnershipInv, NEW c \in Callers, NEW j \in Jobs,
           ResultsStamp(c, j) \/ ResultsStore(c, j)
    PROVE  Fits'
<1>0. /\ TypeOK
      /\ caller \in [Callers -> Caller]
      /\ DOMAIN caller[c] = {"op", "snap", "todo", "writing", "signal"}
      /\ record \in [Jobs -> Record]
  BY DEF OwnershipInv, DispatchInv, SchedulingInv, TypeOK, Caller
<1>1. /\ UNCHANGED <<issued, pendingJobs, cancelEvents, worker, process, mode,
                     recovery, activeProcesses>>
      /\ caller[c].op = "results" /\ caller[c].signal = {} /\ j \in Swe
      /\ caller[c].todo \subseteq Swe
      /\ \A k \in Jobs \ {j} : record'[k] = record[k]
  BY <1>0 DEF ResultsStamp, ResultsStore, queueVars, bootVars, serverVars,
              OwnershipInv, RequestFits
<1>2. /\ caller'[c].op \in {"results", "idle"}
      /\ caller'[c].todo \subseteq Swe /\ caller'[c].writing \subseteq {j}
      /\ caller'[c].signal = {}
      /\ caller'[c].op = "idle" => caller'[c].writing = {}
      /\ \A d \in Callers \ {c} : caller'[d] = caller[d]
  <2>1. CASE ResultsStore(c, j)
    <3> DEFINE r == [caller[c] EXCEPT !.writing = {}, !.snap[j] = Absent]
    <3>1. Becomes(c, r)
      BY <2>1 DEF ResultsStore
    <3>2. /\ r.op = "results" /\ r.todo = caller[c].todo /\ r.writing = {}
          /\ r.signal = {}
      BY <1>0, <1>1
    <3> HIDE DEF r
    <3>3. QED
      BY <1>0, <1>1, <3>1, <3>2, BecomesFields
  <2> DEFINE r == [caller[c] EXCEPT !.todo = @ \ {j}, !.snap[j] = Absent]
  <2>2. CASE ResultsStamp(c, j) /\ Becomes(c, r)
    <3>1. /\ r.op = "results" /\ r.todo \subseteq caller[c].todo
          /\ r.writing = {} /\ r.signal = {}
      BY <1>0, <1>1, <2>2 DEF ResultsStamp
    <3> HIDE DEF r
    <3>2. QED
      BY <1>0, <1>1, <2>2, <3>1, BecomesFields
  <2>3. CASE caller' = [caller EXCEPT
                          ![c].todo = @ \ {j},
                          ![c].writing = {j},
                          ![c].snap[j].status =
                              IF @ = "running" /\ Heard(j) THEN "cancelling"
                                                           ELSE @]
    <3>1. /\ caller'[c].op = caller[c].op
          /\ caller'[c].todo = caller[c].todo \ {j}
          /\ caller'[c].writing = {j}
          /\ caller'[c].signal = caller[c].signal
          /\ \A d \in Callers \ {c} : caller'[d] = caller[d]
      BY <1>0, <2>3
    <3>2. QED
      BY <1>1, <3>1
  <2>4. QED
    BY <2>1, <2>2, <2>3 DEF ResultsStamp
<1>3. \A d \in Callers : RequestFits(d)'
  BY <1>1, <1>2 DEF OwnershipInv, RequestFits
<1>4. ASSUME NEW k \in NotSwe PROVE JobFits(k)'
  <2>1. JobFits(k) /\ k \in Jobs \ {j}
    BY <1>1 DEF OwnershipInv, NotSwe
  <2>2. /\ New(k)' => New(k)
        /\ Signals(k) => Signals(k)'
        /\ Heard(k)' <=> Heard(k)
        /\ \A d \in Callers : /\ Cancels(d, k)' <=> Cancels(d, k)
                              /\ Enqueues(d, k) => Enqueues(d, k)'
    BY <1>1, <1>2 DEF New, Signals, Heard, Cancels, Enqueues
  <2>3. QED
    BY <1>1, <2>1, <2>2, Untouched
<1>5. QED
  BY <1>3, <1>4 DEF Fits
-----------------------------------------------------------------------------
(***************************************************************************)
(* Restarts.                                                               *)
(***************************************************************************)

\* Memory is empty: nobody has heard of anything, and every file that says
\* running is among those to reconcile.
LEMMA RestartKeeps ==
    ASSUME OwnershipInv, Restart
    PROVE  Fits'
<1>0. /\ process \in [Jobs -> {"none", "running", "terminating", "exited"}]
      /\ record \in [Jobs -> Record]
  BY DEF OwnershipInv, DispatchInv, SchedulingInv, TypeOK
<1>1. /\ UNCHANGED <<record, issued>>
      /\ cancelEvents' = [k \in Jobs |-> "none"]
      /\ worker' = [k \in Jobs |-> IdleWorker]
      /\ caller' = [c \in Callers |-> IdleCaller]
      /\ mode' = "recovering"
      /\ recovery' = {k \in Jobs : record[k] # Absent}
      /\ \A k \in Jobs : process[k] = "none" => process'[k] = "none"
  BY <1>0 DEF Restart
<1>2. \A c \in Callers : RequestFits(c)'
  BY <1>1 DEF RequestFits, IdleCaller
<1>3. ASSUME NEW k \in NotSwe PROVE JobFits(k)'
  <2>1. JobFits(k) /\ k \in Jobs
    BY DEF OwnershipInv, NotSwe
  <2>2. /\ worker'[k] = IdleWorker /\ IdleWorker.pc = "idle"
        /\ IdleWorker.status = "absent"
        /\ ~Heard(k)'
        /\ \A c \in Callers : ~Cancels(c, k)' /\ ~Enqueues(c, k)'
        /\ New(k)' => New(k)
    BY <1>1, <2>1 DEF IdleWorker, Heard, Cancels, Enqueues, New, IdleCaller
  <2>3. k \notin Live' /\ At(k, "idle")'
    BY <2>2 DEF Live, At
  <2>4. CopyFits(k)' /\ ProcessFits(k)'
    BY <2>2, <2>3 DEF CopyFits, ProcessFits, Working, Ending
  <2>5. FileFits(k)'
    <3>1. record[k].status = "running" => record[k] # Absent
      BY DEF Absent
    <3>2. QED
      BY <1>1, <2>1, <2>2, <2>3, <3>1 DEF JobFits, FileFits
  <2>6. EventFits(k)' /\ QueuedFits(k)'
    BY <1>1, <2>1, <2>2, <2>3 DEF JobFits, EventFits, QueuedFits
  <2>7. QED
    BY <2>4, <2>5, <2>6 DEF JobFits
<1>4. QED
  BY <1>2, <1>3 DEF Fits

\* Reconciling leaves no file that says running; what is still queued then is
\* enqueued again.
LEMMA BootKeeps ==
    ASSUME OwnershipInv, Boot
    PROVE  Fits'
<1>0. /\ TypeOK
      /\ record \in [Jobs -> Record]
      /\ issued \in Seq(Jobs)
  BY DEF OwnershipInv, DispatchInv, SchedulingInv, TypeOK
<1>1. UNCHANGED <<issued, worker, process, caller, activeProcesses>>
  BY DEF Boot, Reconcile, StartScheduler, Requeue, Serve, serverVars
<1>2. \A c \in Callers : RequestFits(c)'
  BY <1>1 DEF OwnershipInv, RequestFits
<1>3. \A k : /\ New(k)' <=> New(k)
             /\ Signals(k)' <=> Signals(k)
             /\ k \in Live' <=> k \in Live
             /\ \A c \in Callers : /\ Cancels(c, k)' <=> Cancels(c, k)
                                   /\ Enqueues(c, k)' <=> Enqueues(c, k)
  BY <1>1 DEF New, Signals, Cancels, Enqueues, Live, At
<1>4. ASSUME NEW j \in Jobs, Reconcile(j), NEW k \in NotSwe
      PROVE  JobFits(k)'
  <2>1. JobFits(k) /\ k \in Jobs /\ k \notin Swe
    BY DEF OwnershipInv, NotSwe
  <2>2. /\ UNCHANGED <<pendingJobs, cancelEvents, mode>>
        /\ mode = "recovering" /\ recovery' = recovery \ {j}
        /\ Heard(k)' <=> Heard(k)
    BY <1>4 DEF Reconcile, queueVars, Heard
  <2>3. CASE k # j
    <3>1. record'[k] = record[k]
      BY <1>0, <1>4, <2>1, <2>3 DEF Reconcile
    <3>2. QED
      BY <1>1, <1>3, <2>1, <2>2, <2>3, <3>1, Untouched
  <2>4. CASE k = j
    <3>1. \/ record'[k].status = "failed"
          \/ record'[k] = record[k] /\ record[k].status # "running"
      BY <1>0, <1>4, <2>1, <2>4 DEF Reconcile, Terminal, Record
    <3>2. CopyFits(k)' /\ ProcessFits(k)' /\ FileFits(k)'
      BY <1>1, <1>3, <2>1, <2>2, <3>1
         DEF JobFits, CopyFits, ProcessFits, FileFits, At
    <3>3. EventFits(k)' /\ QueuedFits(k)'
      BY <1>1, <1>3, <2>1, <2>2, <3>1 DEF JobFits, EventFits, QueuedFits
    <3>4. QED
      BY <3>2, <3>3 DEF JobFits
  <2>5. QED
    BY <2>3, <2>4
<1>5. ASSUME StartScheduler, NEW k \in NotSwe PROVE JobFits(k)'
  <2>1. JobFits(k) /\ k \in Jobs
    BY DEF OwnershipInv, NotSwe
  <2>2. /\ UNCHANGED <<record, cancelEvents>>
        /\ mode = "recovering" /\ mode' = "requeueing" /\ recovery = {}
        /\ recovery' = {i \in Jobs : record[i].status = "queued"}
        /\ Heard(k)' <=> Heard(k)
    BY <1>5 DEF StartScheduler, queueVars, Heard
  <2>3. ~Heard(k) /\ record[k].status # "running"
    BY <2>1, <2>2 DEF JobFits, EventFits, FileFits
  <2>4. CopyFits(k)' /\ ProcessFits(k)' /\ FileFits(k)'
    BY <1>1, <1>3, <2>1, <2>2, <2>3
       DEF JobFits, CopyFits, ProcessFits, FileFits, At
  <2>5. EventFits(k)' /\ QueuedFits(k)'
    BY <1>1, <1>3, <2>1, <2>2, <2>3 DEF JobFits, EventFits, QueuedFits
  <2>6. QED
    BY <2>4, <2>5 DEF JobFits
<1>6. ASSUME Requeue, NEW k \in NotSwe PROVE JobFits(k)'
  <2>1. JobFits(k) /\ k \in Jobs
    BY DEF OwnershipInv, NotSwe
  <2>2. PICK j \in Jobs : /\ j \in recovery
                          /\ EnqueueJob(j)
                          /\ recovery' = recovery \ {j}
    BY <1>0, <1>6 DEF Requeue
  <2>3. UNCHANGED <<record, mode>> /\ mode = "requeueing"
    BY <1>6 DEF Requeue
  <2>4. j \notin Elements(pendingJobs)
    BY <2>2, <2>3 DEF OwnershipInv, DispatchInv, SchedulingInv, OnePlace,
                      Awaited, Placed
  <2>5. /\ Elements(pendingJobs') = Elements(pendingJobs) \cup {j}
        /\ {i \in Jobs : Heard(i)}' = {i \in Jobs : Heard(i)}
    BY <1>0, <2>2, <2>4, EnqueueFrame
  <2>6. Heard(k)' <=> Heard(k)
    BY <2>1, <2>5
  <2>7. QED
    BY <1>1, <1>3, <2>1, <2>2, <2>3, <2>5, <2>6, Untouched
<1>7. ASSUME Serve, NEW k \in NotSwe PROVE JobFits(k)'
  <2>1. JobFits(k) /\ k \in Jobs
    BY DEF OwnershipInv, NotSwe
  <2>2. /\ UNCHANGED <<record, pendingJobs, recovery>>
        /\ mode = "requeueing" /\ mode' = "up"
        /\ Heard(k)' <=> Heard(k)
    BY <1>7 DEF Serve, queueVars, Heard
  <2>3. QED
    BY <1>1, <1>3, <2>1, <2>2, Untouched
<1>8. QED
  BY <1>2, <1>4, <1>5, <1>6, <1>7 DEF Boot, Fits

-----------------------------------------------------------------------------
(***************************************************************************)
(* The theorems.                                                           *)
(***************************************************************************)

LEMMA OwnershipStep ==
    ASSUME OwnershipInv, [Next]_vars
    PROVE  OwnershipInv'
<1>1. DispatchInv'
  BY DispatchInvStep DEF OwnershipInv
<1>2. CASE Dispatch
  BY <1>1, <1>2, DispatchKeeps DEF OwnershipInv, Fits
<1>3. ASSUME NEW j \in Jobs, WorkerStep(j) \/ ProcessEnds(j) \/ SwitchPin(j)
      PROVE  Fits'
  BY <1>3, WorkerKeeps, ProcessKeeps
<1>4. ASSUME NEW c \in Callers, Request(c) \/ CallerStep(c)
      PROVE  Fits'
  BY <1>4, RequestKeeps, CreateKeeps, EnqueueKeeps, ClearKeeps, SignalKeeps,
     CancelKeeps, TerminateKeeps, ResultsKeep DEF CallerStep
<1>5. CASE Restart \/ Boot
  BY <1>1, <1>5, RestartKeeps, BootKeeps DEF OwnershipInv, Fits
<1>6. CASE UNCHANGED vars
  <2>1. \A c \in Callers : RequestFits(c)'
    BY <1>6 DEF vars, OwnershipInv, RequestFits
  <2>2. ASSUME NEW k \in NotSwe PROVE JobFits(k)'
    <3>1. JobFits(k)
      BY DEF OwnershipInv
    <3>2. QED
      BY <1>6, <3>1, Untouched
         DEF vars, queueVars, serverVars, bootVars, New, Signals, Cancels,
             Enqueues, Heard
  <2>3. QED
    BY <1>1, <2>1, <2>2 DEF OwnershipInv
<1>7. QED
  BY <1>1, <1>2, <1>3, <1>4, <1>5, <1>6 DEF Next, OwnershipInv, Fits

LEMMA InitOwnership == Init => OwnershipInv
<1> SUFFICES ASSUME Init PROVE OwnershipInv
  OBVIOUS
<1>1. DispatchInv
  <2>1. SchedulingInv
    BY InitScheduling
  <2>2. \A c \in Callers : caller[c].op = "idle" /\ caller[c].writing = {}
    BY DEF Init, IdleCaller
  <2>3. \A j \in Jobs : ~Expected(j) /\ \A c \in Callers : ~Handles(c, j)
    BY <2>2 DEF Init, Expected, Awaited, Elements, Handles
  <2>4. QED
    BY <2>1, <2>2, <2>3
       DEF Init, DispatchInv, OnlyIssuedJobs, FreshJobs, ExpectedIsQueued
<1>2. \A c \in Callers : RequestFits(c)
  BY DEF Init, RequestFits, IdleCaller
<1>3. ASSUME NEW k \in NotSwe PROVE JobFits(k)
  <2>1. /\ k \in Jobs /\ worker[k] = IdleWorker /\ record[k] = Absent
        /\ process[k] = "none" /\ ~Heard(k)
        /\ IdleWorker.pc = "idle" /\ IdleWorker.status = "absent"
        /\ Absent.status = "absent"
    BY DEF Init, NotSwe, Heard, IdleWorker, Absent
  <2>2. k \notin Live
    BY <2>1 DEF Live, At
  <2>3. QED
    BY <2>1, <2>2 DEF JobFits, CopyFits, ProcessFits, FileFits, EventFits,
                      QueuedFits, At, Working, Ending
<1>4. QED
  BY <1>1, <1>2, <1>3 DEF OwnershipInv

\* Job files, workers, events and cancel requests agree in every state.
THEOREM OwnershipInvariant == Spec => []OwnershipInv
<1>1. OwnershipInv /\ [Next]_vars => OwnershipInv'
  BY OwnershipStep
<1>2. QED
  BY <1>1, InitOwnership, PTL DEF Spec

\* No record says running once its thread is gone: the worker writes a final
\* status on every path, a cancel writes no "running", and a restart fails
\* what it finds running (jobs.py:460-476, 1213-1260).
THEOREM RunningFilesAreOwned == Spec => []RunningIsOwned
<1>1. OwnershipInv => RunningIsOwned
  BY DEF OwnershipInv, JobFits, FileFits, RunningIsOwned
<1>2. QED
  BY <1>1, OwnershipInvariant, PTL

\* No queued record is forgotten: by the queue, by its worker, by the restart
\* or by the cancel that is about to overwrite it.
THEOREM QueuedFilesAreTracked == Spec => []QueuedIsTracked
<1>1. OwnershipInv => QueuedIsTracked
  <2> SUFFICES ASSUME OwnershipInv, mode # "recovering", NEW j \in NotSwe,
                      record[j].status = "queued"
               PROVE  \/ j \in Elements(pendingJobs) \cup recovery
                      \/ worker[j].pc \in Starting
                      \/ \E c \in Callers : Enqueues(c, j) \/ Cancels(c, j)
    BY DEF QueuedIsTracked, Starting, Enqueues, Cancels
  <2>1. QueuedFits(j) /\ FileFits(j)
    BY DEF OwnershipInv, JobFits
  <2>2. QED
    BY <2>1 DEF QueuedFits, FileFits, Placed, Live, At
<1>2. QED
  BY <1>1, OwnershipInvariant, PTL

\* A cancelled benchmark is not left to run: whichever comes first, the
\* signal of the request or the worker's second look at the event reaches the
\* process (jobs.py:970-974, 411-415).
THEOREM CancelReachesProcess == Spec => []CancellingIsHeard
<1>1. OwnershipInv => CancellingIsHeard
  BY DEF OwnershipInv, JobFits, FileFits, CancellingIsHeard, NotSwe, Live
<1>2. QED
  BY <1>1, OwnershipInvariant, PTL
-----------------------------------------------------------------------------
(***************************************************************************)
(* Pins.  They are not counted, so a pin lasts only if no other job has    *)
(* the same model or judge.                                                *)
(***************************************************************************)

OwnModels ==
    \A j \in NotSwe, k \in Jobs :
        /\ k # j => ModelOf[k] # ModelOf[j]
        /\ k \in Swe => JudgeOf[k] # ModelOf[j]

\* Request c has a copy of the file of job j that it may write back.
Copies(c, j) ==
    caller[c].op = "cancel" /\ j \in caller[c].todo \cup caller[c].writing

\* Neither the file nor a copy of it says that the model is pinned.
Unprotected(j) ==
    /\ record[j].protection # "pinned"
    /\ \A c \in Callers :
          Copies(c, j) => caller[c].snap[j].protection # "pinned"

\* A worker that reads a file has never pinned before; a worker that has
\* pinned finds the pin in place.
PinFits(j) ==
    /\ record[j].status = "queued" \/ At(j, "read") => Unprotected(j)
    /\ worker[j].protection = "pinned" => ModelOf[j] \in pins

PinInv == OwnershipInv /\ \A j \in NotSwe : PinFits(j)

\* A worker pins its own model and unpins at most its own model and judge.
LEMMA WorkerPins ==
    ASSUME OwnModels, PinInv, NEW j \in Jobs, WorkerStep(j)
    PROVE  /\ \A k \in NotSwe \ {j} :
                     ModelOf[k] \in pins => ModelOf[k] \in pins'
           /\ j \in NotSwe /\ worker'[j].protection = "pinned"
                => ModelOf[j] \in pins'
<1> DEFINE Others == \A k \in NotSwe \ {j} :
                        ModelOf[k] \in pins => ModelOf[k] \in pins'
           Own == j \in NotSwe /\ worker'[j].protection = "pinned"
                    => ModelOf[j] \in pins'
<1>0. /\ worker \in [Jobs -> Worker]
      /\ DOMAIN worker[j] = {"pc", "stamped", "status", "protection",
                             "batch", "ok"}
      /\ j \in NotSwe => j \notin Swe
      /\ \A k \in NotSwe \ {j} : /\ ModelOf[j] # ModelOf[k]
                                 /\ j \in Swe => JudgeOf[j] # ModelOf[k]
  BY DEF PinInv, OwnershipInv, DispatchInv, SchedulingInv, TypeOK, Worker,
         NotSwe, OwnModels
<1>1. j \in NotSwe => PinFits(j)
  BY DEF PinInv
<1>2. ASSUME NEW pc, Goto(j, pc)
      PROVE  worker'[j].protection = worker[j].protection
  BY <1>0, <1>2 DEF Goto
<1>3. ASSUME NEW pc, NEW s, Leave(j, pc, s)
      PROVE  worker'[j].protection = worker[j].protection
  BY <1>0, <1>3 DEF Leave
<1> DEFINE Kept == j \in NotSwe /\ worker'[j].protection = "pinned"
                     => worker[j].protection = "pinned"
<1>4. ASSUME UNCHANGED pins, Kept PROVE Others /\ Own
  BY <1>1, <1>4 DEF PinFits
<1>5. CASE Exit(j)
  BY <1>0, <1>4, <1>5 DEF Exit, IdleWorker, serverVars
<1>6. CASE Stamp(j)
  BY <1>0, <1>4, <1>6 DEF Stamp, serverVars
<1>7. CASE RecordStep(j)
  <2>1. ASSUME ReadRecord(j) PROVE Kept
    <3>1. j \in NotSwe => record[j].protection # "pinned"
      BY <1>1, <2>1 DEF PinFits, Unprotected, ReadRecord
    <3>2. QED
      BY <1>0, <1>2, <2>1, <3>1 DEF ReadRecord
  <2>2. ASSUME \/ CheckCancelled(j) \/ Abort(j) \/ LaunchEnv(j) \/ Precheck(j)
               \/ CheckBatch(j) \/ VerifyBatch(j) \/ Settle(j)
        PROVE  Kept
    BY <1>2, <1>3, <2>2 DEF CheckCancelled, Abort, LaunchEnv, Precheck,
                            CheckBatch, VerifyBatch, Settle
  <2>3. ASSUME WriteStarted(j) \/ WritePinning(j) \/ WritePinResult(j)
        PROVE  Kept
    <3>1. ASSUME worker' = [worker EXCEPT ![j].pc = "pinning",
                                          ![j].stamped = FALSE,
                                          ![j].protection = "pinning"]
          PROVE  worker'[j].protection = "pinning"
      BY <1>0, <3>1
    <3>2. QED
      BY <1>2, <1>3, <2>3, <3>1
         DEF WriteStarted, WritePinning, WritePinResult, WriteAndGoto
  <2>4. ASSUME WriteBatchesInit(j) \/ WriteBatchBegin(j) \/ WriteBatchEnd(j)
        PROVE  Kept
    BY <1>0, <1>2, <2>4
       DEF WriteBatchesInit, WriteBatchBegin, WriteBatchEnd, WriteAndGoto
  <2>5. ASSUME WriteReleasing(j) \/ WriteReleased(j) \/ WriteFinished(j)
        PROVE  Kept
    BY <1>0, <1>2, <2>5 DEF WriteReleasing, WriteReleased, WriteFinished
  <2>6. Kept /\ UNCHANGED pins
    BY <1>7, <2>1, <2>2, <2>3, <2>4, <2>5 DEF RecordStep, serverVars
  <2>7. QED
    BY <1>4, <2>6
<1>8. CASE OutsideStep(j)
  <2>1. ASSUME LoadModel(j) PROVE Others /\ Own
    BY <1>0, <2>1 DEF LoadModel
  <2>2. ASSUME Launch(j) \/ Register(j) \/ HeedCancel(j) \/ Reap(j)
        PROVE  Others /\ Own
    <3>1. ASSUME Reap(j)
          PROVE  worker'[j].protection = worker[j].protection
      BY <1>0, <3>1 DEF Reap
    <3>2. Kept /\ UNCHANGED pins
      BY <1>2, <1>3, <2>2, <3>1 DEF Launch, Register, HeedCancel, Reap
    <3>3. QED
      BY <1>4, <3>2
  <2>3. ASSUME UnpinJudge(j) PROVE Others /\ Own
    BY <1>0, <1>1, <1>2, <2>3 DEF UnpinJudge, JudgeUnpinned, PinFits
  <2>4. ASSUME UnpinModel(j) PROVE Others /\ Own
    BY <1>0, <2>4 DEF UnpinModel
  <2>5. QED
    BY <1>8, <2>1, <2>2, <2>3, <2>4 DEF OutsideStep
<1>9. QED
  BY <1>5, <1>6, <1>7, <1>8 DEF WorkerStep

\* A request copies what the file says, and writes back what it copied.
LEMMA CallerUnprotected ==
    ASSUME PinInv, NEW c \in Callers, Request(c) \/ CallerStep(c),
           NEW k \in NotSwe,
           record'[k].status = "queued" \/ At(k, "read")'
    PROVE  Unprotected(k)'
<1>0. /\ TypeOK
      /\ caller \in [Callers -> Caller]
      /\ DOMAIN caller[c] = {"op", "snap", "todo", "writing", "signal"}
      /\ DOMAIN caller[c].snap = Jobs
      /\ record \in [Jobs -> Record]
      /\ caller[c].snap \in [Jobs -> Record]
      /\ k \in Jobs /\ k \notin Swe
  BY DEF PinInv, OwnershipInv, DispatchInv, SchedulingInv, TypeOK, Caller,
         NotSwe
<1>1. /\ PinFits(k) /\ RequestFits(c)
      /\ At(k, "read")' <=> At(k, "read")
      /\ \A d \in Callers \ {c} : caller'[d] = caller[d]
  <2>1. UNCHANGED worker
    BY <1>0, RequestFrame, CallerStepTypes
  <2>2. \A d \in Callers \ {c} : caller'[d] = caller[d]
    BY <1>0, RequestFrame, CallerFrame DEF Enqueue
  <2>3. QED
    BY <2>1, <2>2 DEF PinInv, OwnershipInv, At
<1>2. ASSUME record'[k] = record[k],
             Copies(c, k)' => /\ Copies(c, k)
                              /\ caller'[c].snap[k] = caller[c].snap[k]
      PROVE  Unprotected(k)'
  BY <1>1, <1>2 DEF PinFits, Unprotected, Copies
<1>3. ASSUME NEW j \in Jobs, NEW limit \in Limits \cup {0}, Submit(c, j, limit)
      PROVE  Unprotected(k)'
  BY <1>0, <1>2, <1>3 DEF Submit, Copies, IdleCaller
<1>4. ASSUME NEW S \in SUBSET Jobs, CancelRead(c, S)
      PROVE  Unprotected(k)'
  <2> DEFINE live == {j \in S : record[j].status \in Active}
             r == [op |-> "cancel", snap |-> Snapshot(live), todo |-> live,
                   writing |-> {}, signal |-> {}]
  <2>1. UNCHANGED record /\ caller' \in {[caller EXCEPT ![c] = r],
                                         [caller EXCEPT ![c] = IdleCaller]}
    BY <1>4 DEF CancelRead, Becomes
  <2>2. caller'[c] \in {r, IdleCaller}
    BY <1>0, <2>1
  <2>3. record[k].protection # "pinned"
    BY <1>1, <2>1 DEF PinFits, Unprotected
  <2>4. /\ k \in r.todo => r.snap[k] = record[k]
        /\ r.writing = {}
    BY <1>0 DEF Snapshot
  <2> HIDE DEF r
  <2>5. Copies(c, k)' => caller'[c].snap[k].protection # "pinned"
    BY <2>2, <2>3, <2>4 DEF Copies, IdleCaller
  <2>6. QED
    BY <1>1, <2>1, <2>3, <2>5 DEF PinFits, Unprotected, Copies
<1>5. ASSUME ResultsRead(c) \/ \E S \in SUBSET Jobs \ {{}} : ClearRead(c, S)
      PROVE  Unprotected(k)'
  <2>1. UNCHANGED record /\ caller'[c].op # "cancel"
    <3>1. CASE ResultsRead(c)
      BY <1>0, <3>1, BecomesFields DEF ResultsRead
    <3>2. ASSUME NEW S \in SUBSET Jobs, ClearRead(c, S)
          PROVE  UNCHANGED record /\ caller'[c].op # "cancel"
      <4> DEFINE r == [IdleCaller EXCEPT !.op = "clear",
                         !.todo = {j \in S : record[j] # Absent}]
      <4>1. Becomes(c, r) /\ UNCHANGED record
        BY <3>2 DEF ClearRead
      <4>2. r.op = "clear"
        BY DEF IdleCaller
      <4> HIDE DEF r
      <4>3. QED
        BY <1>0, <4>1, <4>2, BecomesFields
    <3>3. QED
      BY <1>5, <3>1, <3>2
  <2>2. QED
    BY <1>2, <2>1 DEF Copies
<1>6. ASSUME CreateRecord(c) PROVE Unprotected(k)'
  <2>1. /\ caller[c].op = "create" /\ caller'[c].op # "cancel"
        /\ \/ record'[k] = record[k]
           \/ k \in caller[c].todo /\ record'[k] = Queued
    BY <1>0, <1>6 DEF CreateRecord, IdleCaller
  <2>2. CASE k \in caller[c].todo /\ record'[k] = Queued
    <3>1. \A d \in Callers : ~Copies(d, k)
      BY <2>1, <2>2 DEF Copies, Handles, PinInv, OwnershipInv, DispatchInv,
                        FreshJobs
    <3>2. QED
      BY <1>1, <2>1, <2>2, <3>1 DEF Unprotected, Copies, Queued
  <2>3. QED
    BY <1>2, <2>1, <2>2 DEF Copies
<1>7. ASSUME Enqueue(c) PROVE Unprotected(k)'
  BY <1>0, <1>2, <1>7 DEF Enqueue, IdleCaller, Copies
<1>8. ASSUME ClearRemove(c) PROVE Unprotected(k)'
  <2>1. caller'[c].op # "cancel" /\ record'[k] \in {record[k], Absent}
    BY <1>0, <1>8 DEF ClearRemove, IdleCaller
  <2>2. CASE record'[k] = Absent
    BY <1>1, <2>1, <2>2 DEF PinFits, Unprotected, Copies, Absent
  <2>3. QED
    BY <1>2, <2>1, <2>2 DEF Copies
<1>9. ASSUME NEW j \in Jobs, CancelSignal(c, j) PROVE Unprotected(k)'
  <2>1. /\ record'[k] = record[k]
        /\ caller[c].op = "cancel"
        /\ caller'[c].todo \cup caller'[c].writing
              = caller[c].todo \cup caller[c].writing
        /\ caller'[c].snap = caller[c].snap
    BY <1>0, <1>9 DEF CancelSignal
  <2>2. QED
    BY <1>2, <2>1 DEF Copies
<1>10. ASSUME NEW j \in Jobs, CancelWrite(c, j) PROVE Unprotected(k)'
  <2> DEFINE queued == caller[c].snap[j].status = "queued"
             r == [caller[c] EXCEPT
                     !.snap[j] = Absent, !.writing = {},
                     !.signal = IF queued THEN @ ELSE @ \cup {j}]
  <2>1. /\ caller[c].op = "cancel" /\ j \in caller[c].writing
        /\ Becomes(c, r)
    BY <1>10 DEF CancelWrite
  <2>2. /\ r.todo = caller[c].todo /\ r.writing = {}
        /\ r.snap = [caller[c].snap EXCEPT ![j] = Absent]
    BY <1>0
  <2>3. /\ record'[j].protection = caller[c].snap[j].protection
        /\ record'[j].status # "queued"
        /\ \A i \in Jobs \ {j} : record'[i] = record[i]
    BY <1>0, <1>10 DEF CancelWrite, Record
  <2> HIDE DEF queued, r
  <2>4. caller'[c] \in {r, IdleCaller}
    BY <1>0, <2>1 DEF Becomes
  <2>5. CASE k # j
    <3>1. r.snap[k] = caller[c].snap[k]
      BY <1>0, <2>2, <2>5
    <3>2. QED
      BY <1>0, <1>2, <2>1, <2>2, <2>3, <2>4, <2>5, <3>1 DEF Copies, IdleCaller
  <2>6. CASE k = j
    <3>1. Unprotected(k) /\ Copies(c, k)
      BY <1>1, <2>1, <2>3, <2>6 DEF PinFits, Copies
    <3>2. record'[k].protection # "pinned"
      BY <2>3, <2>6, <3>1 DEF Unprotected
    <3>3. Copies(c, k)' => caller'[c].snap[k] = Absent
      BY <1>0, <2>2, <2>4, <2>6 DEF Copies, IdleCaller
    <3>4. QED
      BY <1>1, <3>1, <3>2, <3>3 DEF Unprotected, Copies, Absent
  <2>7. QED
    BY <2>5, <2>6
<1>11. ASSUME NEW j \in Jobs, CancelTerminate(c, j) PROVE Unprotected(k)'
  <2> DEFINE r == [caller[c] EXCEPT !.signal = @ \ {j}]
  <2>1. /\ caller[c].todo = {} /\ caller[c].writing = {}
        /\ Becomes(c, r) /\ UNCHANGED record
    BY <1>11 DEF CancelTerminate
  <2>2. r.todo = {} /\ r.writing = {}
    BY <1>0, <2>1
  <2> HIDE DEF r
  <2>3. caller'[c].todo = {} /\ caller'[c].writing = {}
    BY <1>0, <2>1, <2>2, BecomesFields
  <2>4. QED
    BY <1>2, <2>1, <2>3 DEF Copies
<1>12. ASSUME NEW j \in Jobs, ResultsStamp(c, j) \/ ResultsStore(c, j)
       PROVE  Unprotected(k)'
  <2>1. k # j /\ caller[c].op = "results"
    BY <1>0, <1>1, <1>12 DEF ResultsStamp, ResultsStore, RequestFits
  <2>2. record'[k] = record[k]
    BY <1>0, <1>12, <2>1 DEF ResultsStamp, ResultsStore
  <2>3. caller'[c].op # "cancel"
    <3> DEFINE kept == [caller[c] EXCEPT !.writing = {}, !.snap[j] = Absent]
               left == [caller[c] EXCEPT !.todo = @ \ {j}, !.snap[j] = Absent]
    <3>0. kept.op = "results" /\ left.op = "results"
      BY <1>0, <2>1
    <3>1. CASE ResultsStore(c, j)
      <4>1. Becomes(c, kept)
        BY <3>1 DEF ResultsStore
      <4> HIDE DEF kept
      <4>2. QED
        BY <1>0, <3>0, <4>1, BecomesFields
    <3>2. CASE ResultsStamp(c, j)
      <4>1. \/ Becomes(c, left)
            \/ caller'[c].op = caller[c].op
        BY <1>0, <3>2 DEF ResultsStamp
      <4> HIDE DEF left
      <4>2. QED
        BY <1>0, <2>1, <3>0, <4>1, BecomesFields
    <3>3. QED
      BY <1>12, <3>1, <3>2
  <2>4. QED
    BY <1>2, <2>2, <2>3 DEF Copies
<1>13. QED
  BY <1>3, <1>4, <1>5, <1>6, <1>7, <1>8, <1>9, <1>10, <1>11, <1>12
     DEF Request, CallerStep
LEMMA PinStep ==
    ASSUME OwnModels, PinInv, [Next]_vars
    PROVE  PinInv'
<1>0. /\ OwnershipInv' /\ TypeOK
      /\ worker \in [Jobs -> Worker]
      /\ record \in [Jobs -> Record]
  BY OwnershipStep DEF PinInv, OwnershipInv, DispatchInv, SchedulingInv, TypeOK
<1> SUFFICES ASSUME NEW k \in NotSwe PROVE PinFits(k)'
  BY <1>0 DEF PinInv
<1>1. /\ k \in Jobs /\ k \notin Swe /\ PinFits(k) /\ JobFits(k)
      /\ \A j \in Jobs \ {k} : ModelOf[j] # ModelOf[k]
      /\ \A j \in Swe : JudgeOf[j] # ModelOf[k]
  BY JobsAssumption DEF PinInv, OwnershipInv, NotSwe, OwnModels
<1>2. ASSUME worker'[k] = worker[k], record'[k] = record[k],
             UNCHANGED caller, ModelOf[k] \in pins => ModelOf[k] \in pins'
      PROVE  PinFits(k)'
  BY <1>1, <1>2 DEF PinFits, Unprotected, Copies, At
<1>3. CASE Dispatch
  <2>1. UNCHANGED <<record, caller, pins>>
    BY <1>3 DEF Dispatch, serverVars
  <2>2. /\ pendingJobs \in Seq(Jobs) /\ pendingJobs # <<>>
        /\ Once(pendingJobs)
        /\ Elements(pendingJobs) \cap Live = {}
    BY <1>0, <1>3 DEF Dispatch, TypeOK, PinInv, OwnershipInv, DispatchInv,
                      SchedulingInv, OnePlace
  <2>3. PICK h \in Jobs : /\ h = Head(pendingJobs)
                          /\ h \in Elements(pendingJobs) /\ h \notin Live
    BY <2>2, TailElements
  <2>4. CASE worker'[k] = worker[k]
    BY <1>2, <2>1, <2>4
  <2>5. CASE worker'[k] # worker[k]
    <3>1. /\ k = h /\ ~Heard(k)
          /\ worker' = [worker EXCEPT ![h].pc = "read"]
      BY <1>0, <1>1, <1>3, <2>3, <2>5 DEF Dispatch
    <3>2. record[k].status = "queued"
      BY <2>3, <3>1 DEF PinInv, OwnershipInv, DispatchInv, ExpectedIsQueued,
                        Expected
    <3>3. worker[k] = IdleWorker
      BY <1>1, <2>3, <3>1 DEF JobFits, CopyFits, Live
    <3>4. worker'[k].protection = "none"
      BY <1>0, <1>1, <3>1, <3>3 DEF IdleWorker
    <3>5. QED
      BY <1>1, <2>1, <3>2, <3>4 DEF PinFits, Unprotected, Copies
  <2>6. QED
    BY <2>4, <2>5
<1>4. ASSUME NEW j \in Jobs, WorkerStep(j) PROVE PinFits(k)'
  <2>1. CASE k # j
    <3>1. /\ worker'[k] = worker[k] /\ record'[k] = record[k]
          /\ UNCHANGED caller
      BY <1>0, <1>1, <1>4, <2>1, WorkerTouches
    <3>2. ModelOf[k] \in pins => ModelOf[k] \in pins'
      BY <1>4, <2>1, WorkerPins
    <3>3. QED
      BY <1>2, <3>1, <3>2
  <2>2. CASE k = j
    <3>1. worker'[k].protection = "pinned" => ModelOf[k] \in pins'
      BY <1>4, <2>2, WorkerPins
    <3>2. /\ record'[k].status = "queued" => record'[k] = record[k]
          /\ ~At(k, "read")'
          /\ UNCHANGED caller
      <4>1. CASE Exit(j)
        BY <1>0, <1>1, <2>2, <4>1 DEF Exit, IdleWorker, At
      <4>2. CASE Stamp(j) \/ RecordStep(j) \/ OutsideStep(j)
        BY <1>0, <2>2, <4>2, WorkerFits, WorkerFrame DEF PinInv
      <4>3. QED
        BY <1>4, <4>1, <4>2 DEF WorkerStep
    <3>3. QED
      BY <1>1, <3>1, <3>2 DEF PinFits, Unprotected, Copies
  <2>3. QED
    BY <2>1, <2>2
<1>5. ASSUME NEW j \in Jobs, ProcessEnds(j) \/ SwitchPin(j)
      PROVE  PinFits(k)'
  <2>1. ModelOf[k] \in pins => ModelOf[k] \in pins'
    BY <1>1, <1>5 DEF ProcessEnds, SwitchPin
  <2>2. QED
    BY <1>2, <1>5, <2>1 DEF ProcessEnds, SwitchPin
<1>6. ASSUME NEW c \in Callers, Request(c) \/ CallerStep(c)
      PROVE  PinFits(k)'
  <2>1. UNCHANGED worker
    BY <1>0, <1>6, RequestFrame, CallerStepTypes
  <2>2. UNCHANGED pins
    BY <1>6 DEF Request, Submit, CancelRead, ClearRead, ResultsRead,
                CallerStep, CreateRecord, Enqueue, ClearRemove, CancelSignal,
                CancelWrite, CancelTerminate, ResultsStamp, ResultsStore,
                serverVars
  <2>3. record'[k].status = "queued" \/ At(k, "read")' => Unprotected(k)'
    BY <1>6, CallerUnprotected
  <2>4. QED
    BY <1>1, <2>1, <2>2, <2>3 DEF PinFits
<1>7. CASE Restart
  <2>1. /\ worker'[k] = IdleWorker
        /\ \A c \in Callers : caller'[c] = IdleCaller
        /\ UNCHANGED record
    BY <1>1, <1>7 DEF Restart
  <2>2. QED
    BY <1>1, <2>1 DEF PinFits, Unprotected, Copies, At, IdleWorker, IdleCaller
<1>8. CASE Boot
  <2>1. ASSUME NEW j \in Jobs, Reconcile(j) PROVE PinFits(k)'
    <3>1. worker'[k] = IdleWorker
      BY <1>1, <2>1 DEF Reconcile, PinInv, OwnershipInv, DispatchInv,
                        SchedulingInv, QuietBoot, Placed, Live, JobFits,
                        CopyFits
    <3>2. /\ UNCHANGED caller
          /\ record'[k].status = "queued" => record'[k] = record[k]
      BY <1>0, <1>1, <2>1 DEF Reconcile, Record
    <3>3. QED
      BY <1>1, <3>1, <3>2
         DEF PinFits, Unprotected, Copies, At, IdleWorker
  <2>2. CASE StartScheduler \/ Requeue \/ Serve
    BY <1>2, <2>2 DEF StartScheduler, Requeue, Serve, serverVars
  <2>3. QED
    BY <1>8, <2>1, <2>2 DEF Boot
<1>9. CASE UNCHANGED vars
  BY <1>2, <1>9 DEF vars, serverVars
<1>10. QED
  BY <1>3, <1>4, <1>5, <1>6, <1>7, <1>8, <1>9 DEF Next

\* The model of an lm-eval or Lemonade Bench job that was pinned stays pinned
\* until the job unpins it, if no other job has that model or judge
\* (README.md:234-235).
THEOREM PinsLast ==
    ASSUME OwnModels
    PROVE  Spec => []PinHeldAcrossBatches
<1>1. Init => PinInv
  <2> SUFFICES ASSUME Init PROVE PinInv
    OBVIOUS
  <2>1. ASSUME NEW j \in NotSwe PROVE PinFits(j)
    BY DEF Init, NotSwe, PinFits, At, IdleWorker, Absent
  <2>2. QED
    BY <2>1, InitOwnership DEF PinInv
<1>2. PinInv /\ [Next]_vars => PinInv'
  BY PinStep
<1>3. PinInv => PinHeldAcrossBatches
  BY DEF PinInv, PinFits, PinHeldAcrossBatches
<1>4. QED
  BY <1>1, <1>2, <1>3, PTL DEF Spec
=============================================================================
