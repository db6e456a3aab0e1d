---------------------------- MODULE JobLifecycle ----------------------------
(***************************************************************************)
(* The job manager of lm_eval_webui/jobs.py: HTTP request threads that     *)
(* create, cancel and clear jobs, the scheduler thread, one worker thread  *)
(* per running job, the benchmark process each worker launches, the model  *)
(* pins held at the Lemonade server, and restarts of the application.      *)
(*                                                                         *)
(* The unit of atomicity is a section of code between two points where     *)
(* another thread can act: a lock-protected section, one replacement of a  *)
(* job file, one call to Lemonade, one launch of a process.  A request     *)
(* thread that reads job files and writes them back later keeps what it    *)
(* read in caller[c].snap, exactly as the code keeps a dict.               *)
(*                                                                         *)
(* The configuration modelled is the deployed one: run_async, the default  *)
(* launcher, and protect_models (jobs.py:150-154).                         *)
(***************************************************************************)
EXTENDS Naturals, Sequences, FiniteSets

CONSTANTS
    Jobs,          \* job identifiers
    Callers,       \* HTTP request threads
    Models,        \* models of the Lemonade server
    ModelOf,       \* the model each job benchmarks
    JudgeOf,       \* the judge model each SWE Mini job hands off to
    Swe, Bench,    \* the jobs of the SWE Mini and Lemonade Bench suites
    Batches,       \* task batches of an lm-eval job; 0: no task_batch_size
    DefaultLimit,  \* --max-concurrent-jobs
    Limits,        \* the max_concurrent_jobs a request may carry
    Restarts,      \* may the application stop and start again?
    Replies        \* how a call to Lemonade may end

ASSUME JobsAssumption ==
    /\ IsFiniteSet(Jobs)
    /\ Swe \subseteq Jobs
    /\ Bench \subseteq Jobs \ Swe
    /\ Batches \in [Jobs -> Nat]

ASSUME ModelsAssumption ==
    /\ ModelOf \in [Jobs -> Models]
    /\ JudgeOf \in [Swe -> Models]

ASSUME LimitsAssumption ==
    /\ DefaultLimit \in Nat \ {0}
    /\ Limits \subseteq Nat \ {0}
    /\ Restarts \in BOOLEAN

\* "error": no effect and an exception; "lost": the effect and an exception
\* (a timeout, a broken reply); "unsupported": 404 or 405.
ASSUME RepliesAssumption ==
    /\ "ok" \in Replies
    /\ Replies \subseteq {"ok", "unsupported", "error", "lost"}

VARIABLES
    record,             \* the job files: jobs_dir/<id>.json
    issued,             \* job ids drawn so far, in created_at order
    pendingJobs,        \* _pending_jobs
    activeJobs,         \* _active_jobs
    maxConcurrentJobs,  \* max_concurrent_jobs
    cancelEvents,       \* _cancel_events
    worker,             \* the worker threads and the job dict each one holds
    process,            \* the benchmark processes
    activeProcesses,    \* _active_processes
    pins,               \* the models pinned at the Lemonade server
    caller,             \* the HTTP request threads
    mode,               \* where JobManager.__init__ is, or "up"
    recovery            \* the jobs __init__ has yet to handle

queueVars  == <<pendingJobs, activeJobs, maxConcurrentJobs>>
bootVars   == <<mode, recovery>>
serverVars == <<pins, process>>
vars == <<record, issued, queueVars, cancelEvents, worker, activeProcesses,
          serverVars, caller, bootVars>>

Active   == {"queued", "running", "cancelling"}
Terminal == {"cancelled", "failed", "succeeded"}
Protection == {"none", "pinning", "pinned", "unsupported", "failed",
               "releasing", "released", "release_failed",
               "released_after_restart"}
Status   == Active \cup Terminal \cup {"absent"}
Record == [status : Status, protection : Protection]
Absent == [status |-> "absent", protection |-> "none"]
Queued == [status |-> "queued", protection |-> "none"]

(***************************************************************************)
(* The program counters of a worker, in program order.  At the stamped     *)
(* writes _write_job first compares the job with its cancel event and only *)
(* then replaces the file.                                                 *)
(***************************************************************************)
StampedWrites == {"start", "pinning", "pin_result", "batches_init",
                  "batch_begin", "batch_end"}
WorkerPc == {"idle", "read", "check", "abort", "env", "load", "precheck",
             "batch_check", "launch", "register", "heed", "wait",
             "batch_verify", "settle", "unpin_judge", "release", "unpin",
             "released", "finish", "exit"} \cup StampedWrites
Worker == [pc : WorkerPc, stamped : BOOLEAN, status : Status,
           protection : Protection, batch : Nat, ok : BOOLEAN]
IdleWorker == [pc |-> "idle", stamped |-> FALSE, status |-> "absent",
               protection |-> "none", batch |-> 0, ok |-> FALSE]

CallerOp == {"idle", "create", "enqueue", "cancel", "clear", "results"}
Caller == [op : CallerOp, snap : [Jobs -> Record], todo : SUBSET Jobs,
           writing : SUBSET Jobs, signal : SUBSET Jobs]
IdleCaller == [op |-> "idle", snap |-> [j \in Jobs |-> Absent],
               todo |-> {}, writing |-> {}, signal |-> {}]

TypeOK ==
    /\ record \in [Jobs -> Record]
    /\ issued \in Seq(Jobs)
    /\ pendingJobs \in Seq(Jobs)
    /\ activeJobs \in Nat
    /\ maxConcurrentJobs \in Nat \ {0}
    /\ cancelEvents \in [Jobs -> {"none", "clear", "set"}]
    /\ worker \in [Jobs -> Worker]
    /\ process \in [Jobs -> {"none", "running", "terminating", "exited"}]
    /\ activeProcesses \subseteq Jobs
    /\ pins \subseteq Models
    /\ caller \in [Callers -> Caller]
    /\ mode \in {"recovering", "requeueing", "up"}
    /\ recovery \subseteq Jobs

Elements(s) == {s[i] : i \in DOMAIN s}
At(j, pc) == worker[j].pc = pc
Live == {j \in Jobs : ~At(j, "idle")}
Heard(j) == cancelEvents[j] = "set"

\* A fresh data directory: __init__ finds no job file.
Init ==
    /\ record = [j \in Jobs |-> Absent]
    /\ issued = <<>>
    /\ pendingJobs = <<>>
    /\ activeJobs = 0
    /\ maxConcurrentJobs = DefaultLimit
    /\ cancelEvents = [j \in Jobs |-> "none"]
    /\ worker = [j \in Jobs |-> IdleWorker]
    /\ process = [j \in Jobs |-> "none"]
    /\ activeProcesses = {}
    /\ pins = {}
    /\ caller = [c \in Callers |-> IdleCaller]
    /\ mode = "up"
    /\ recovery = {}

-----------------------------------------------------------------------------
(***************************************************************************)
(* The scheduler thread.                                                   *)
(***************************************************************************)

\* Mutant: one slot more than the limit.
Dispatch_OneTooMany ==
    /\ mode # "recovering"
    /\ pendingJobs # <<>>
    /\ activeJobs <= maxConcurrentJobs
    /\ ~Heard(Head(pendingJobs))
    /\ pendingJobs' = Tail(pendingJobs)
    /\ activeJobs' = activeJobs + 1
    /\ worker' = [worker EXCEPT ![Head(pendingJobs)].pc = "read"]
    /\ UNCHANGED <<record, issued, maxConcurrentJobs, cancelEvents,
                   activeProcesses, serverVars, caller, bootVars>>

\* Mutant: the slot is taken before the job is found cancelled.
Dispatch_CountsDropped ==
    /\ mode # "recovering"
    /\ pendingJobs # <<>>
    /\ activeJobs < maxConcurrentJobs
    /\ LET j == Head(pendingJobs) IN
       /\ pendingJobs' = Tail(pendingJobs)
       /\ activeJobs' = activeJobs + 1
       /\ IF Heard(j)
          THEN /\ cancelEvents' = [cancelEvents EXCEPT ![j] = "none"]
               /\ UNCHANGED worker
          ELSE /\ worker' = [worker EXCEPT ![j].pc = "read"]
               /\ UNCHANGED cancelEvents
    /\ UNCHANGED <<record, issued, maxConcurrentJobs, activeProcesses,
                   serverVars, caller, bootVars>>

\* One turn of _scheduler_loop.  A job cancelled while it was queued is
\* dropped together with its event; any other takes a slot and a thread.
Dispatch ==
    /\ mode # "recovering"
    /\ pendingJobs # <<>>
    /\ activeJobs < maxConcurrentJobs
    /\ LET j == Head(pendingJobs) IN
       /\ pendingJobs' = Tail(pendingJobs)
       /\ \/ /\ Heard(j)
             /\ cancelEvents' = [cancelEvents EXCEPT ![j] = "none"]
             /\ UNCHANGED <<activeJobs, worker>>
          \/ /\ ~Heard(j)
             /\ cancelEvents' = [cancelEvents EXCEPT ![j] = "clear"]
             /\ activeJobs' = activeJobs + 1
             /\ worker' = [worker EXCEPT ![j].pc = "read"]
    /\ UNCHANGED <<record, issued, maxConcurrentJobs, activeProcesses,
                   serverVars, caller, bootVars>>

-----------------------------------------------------------------------------
(***************************************************************************)
(* The worker thread of job j: _run_scheduled_job and all it calls.        *)
(***************************************************************************)

Goto(j, pc) == worker' = [worker EXCEPT ![j].pc = pc, ![j].stamped = FALSE]

\* Leave the try block of _run_job with a status.
Leave(j, pc, status) ==
    worker' = [worker EXCEPT ![j].pc = pc, ![j].stamped = FALSE,
                             ![j].status = status]

\* The judge is unpinned only if the environment of the handoff was added
\* (jobs.py:1165, 1225-1228).
AfterHandoff(j) ==
    IF j \in Swe /\ worker[j].protection = "pinned" THEN "unpin_judge"
                                                    ELSE "release"

Store(j) ==
    record' = [record EXCEPT ![j] = [status |-> worker[j].status,
                                     protection |-> worker[j].protection]]

\* The first half of _write_job: a job that is cancelled is no longer
\* written as running.
Stamp(j) ==
    /\ worker[j].pc \in StampedWrites
    /\ ~worker[j].stamped
    /\ worker' = [worker EXCEPT
                    ![j].stamped = TRUE,
                    ![j].status = IF @ = "running" /\ Heard(j)
                                  THEN "cancelling" ELSE @]
    /\ UNCHANGED <<record, issued, queueVars, cancelEvents, activeProcesses,
                   serverVars, caller, bootVars>>

\* The second half of _write_job, then on to pc.
WriteAndGoto(j, from, pc) ==
    /\ At(j, from)
    /\ worker[j].stamped
    /\ Store(j)
    /\ Goto(j, pc)

ReadRecord(j) ==
    /\ At(j, "read")
    /\ IF record[j].status \in {"absent", "cancelled"}
       THEN Goto(j, "exit")
       ELSE worker' = [worker EXCEPT ![j].pc = "check",
                                     ![j].status = record[j].status,
                                     ![j].protection = record[j].protection]
    /\ UNCHANGED record

CheckCancelled(j) ==
    /\ At(j, "check")
    /\ IF Heard(j) THEN Leave(j, "abort", "cancelled") ELSE Goto(j, "env")
    /\ UNCHANGED record

\* Cancelled before it started: write that and return.
Abort(j) ==
    /\ At(j, "abort")
    /\ Store(j)
    /\ Goto(j, "exit")

\* Building the SWE Mini environment writes a models file and may fail,
\* outside the try block: the thread ends with nothing written.
LaunchEnv(j) ==
    /\ At(j, "env")
    /\ \/ Leave(j, "start", "running")
       \/ j \in Swe /\ Goto(j, "exit")
    /\ UNCHANGED record

WriteStarted(j) ==
    \/ /\ j \in Bench
       /\ WriteAndGoto(j, "start", "precheck")
    \/ /\ j \notin Bench
       /\ At(j, "start")
       /\ worker[j].stamped
       /\ Store(j)
       /\ worker' = [worker EXCEPT ![j].pc = "pinning",
                                   ![j].stamped = FALSE,
                                   ![j].protection = "pinning"]

WritePinning(j) == WriteAndGoto(j, "pinning", "load")

\* Mutant: any answer passes for a pin.
LoadModel_AnyReply(j) ==
    /\ At(j, "load")
    /\ \E reply \in Replies :
        pins' = IF reply \in {"ok", "lost"} THEN pins \cup {ModelOf[j]}
                                            ELSE pins
    /\ worker' = [worker EXCEPT ![j].pc = "pin_result",
                                ![j].protection = "pinned"]
    /\ UNCHANGED <<record, process, activeProcesses>>

\* Mutant: the exception is recorded as a state of its own.
LoadModel_NewState(j) ==
    /\ At(j, "load")
    /\ \E reply \in Replies :
        worker' = [worker EXCEPT ![j].pc = "pin_result",
                                 ![j].protection = reply]
    /\ UNCHANGED <<record, process, pins, activeProcesses>>

\* load_and_pin_model.  Its outcome is written before the job goes on.
LoadModel(j) ==
    /\ At(j, "load")
    /\ \E reply \in Replies :
        /\ pins' = IF reply \in {"ok", "lost"} THEN pins \cup {ModelOf[j]}
                                               ELSE pins
        /\ worker' = [worker EXCEPT
                        ![j].pc = "pin_result",
                        ![j].protection =
                            CASE reply = "ok"          -> "pinned"
                              [] reply = "unsupported" -> "unsupported"
                              [] OTHER                 -> "failed"]
    /\ UNCHANGED <<record, process, activeProcesses>>

\* A failed load raises: the job fails, with nothing to release.
WritePinResult(j) ==
    \/ /\ worker[j].protection # "failed"
       /\ WriteAndGoto(j, "pin_result", "precheck")
    \/ /\ worker[j].protection = "failed"
       /\ At(j, "pin_result")
       /\ worker[j].stamped
       /\ Store(j)
       /\ Leave(j, "release", "failed")

\* _raise_if_cancelled in _run_job and, for an lm-eval job, again on entry to
\* _run_lm_eval_job: nothing happens between the two.
Precheck(j) ==
    /\ At(j, "precheck")
    /\ IF Heard(j)
       THEN Leave(j, "release", "cancelled")
       ELSE Goto(j, IF j \in Swe \cup Bench THEN "launch"
                    ELSE IF Batches[j] = 0 THEN "batch_begin"
                                           ELSE "batches_init")
    /\ UNCHANGED record

WriteBatchesInit(j) == WriteAndGoto(j, "batches_init", "batch_check")

CheckBatch(j) ==
    /\ At(j, "batch_check")
    /\ IF Heard(j) THEN Leave(j, "release", "cancelled")
                   ELSE Goto(j, "batch_begin")
    /\ UNCHANGED record

WriteBatchBegin(j) == WriteAndGoto(j, "batch_begin", "launch")

\* Popen starts the process in a session of its own, or raises.
Launch(j) ==
    /\ At(j, "launch")
    /\ \/ process' = [process EXCEPT ![j] = "running"] /\ Goto(j, "register")
       \/ UNCHANGED process /\ Leave(j, AfterHandoff(j), "failed")
    /\ UNCHANGED <<record, pins, activeProcesses>>

Register(j) ==
    /\ At(j, "register")
    /\ activeProcesses' = activeProcesses \cup {j}
    /\ Goto(j, "heed")
    /\ UNCHANGED <<record, process, pins>>

\* _terminate_process: SIGTERM, and a thread that sends SIGKILL after
\* CANCEL_GRACE_SECONDS.  A process that has ended is left alone.
Terminate(j) ==
    process' = [process EXCEPT ![j] = IF @ = "running" THEN "terminating"
                                                       ELSE @]

\* Mutant: no second look at the event.
HeedCancel_Deaf(j) ==
    /\ At(j, "heed")
    /\ Goto(j, "wait")
    /\ UNCHANGED <<record, pins, process, activeProcesses>>

\* A cancel that came before the registration found no process to signal:
\* the worker looks at the event once more.
HeedCancel(j) ==
    /\ At(j, "heed")
    /\ IF Heard(j) THEN Terminate(j) ELSE UNCHANGED process
    /\ Goto(j, "wait")
    /\ UNCHANGED <<record, pins, activeProcesses>>

\* process.wait() returns; the exit code is zero or not.
Reap(j) ==
    /\ At(j, "wait")
    /\ process[j] = "exited"
    /\ process' = [process EXCEPT ![j] = "none"]
    /\ activeProcesses' = activeProcesses \ {j}
    /\ \E ok \in BOOLEAN :
        worker' = [worker EXCEPT
                     ![j].ok = ok,
                     ![j].pc = IF j \in Swe \cup Bench THEN "settle"
                               ELSE IF Batches[j] = 0 THEN "batch_end"
                                                      ELSE "batch_verify"]
    /\ UNCHANGED <<record, pins>>

VerifyBatch(j) ==
    /\ At(j, "batch_verify")
    /\ IF Heard(j) THEN Leave(j, "release", "cancelled")
                   ELSE Goto(j, "batch_end")
    /\ UNCHANGED record

\* The progress written after a batch; the next batch follows a good one.
WriteBatchEnd(j) ==
    /\ At(j, "batch_end")
    /\ worker[j].stamped
    /\ Store(j)
    /\ LET done == worker[j].batch + 1 IN
       IF worker[j].ok /\ done < Batches[j]
       THEN worker' = [worker EXCEPT ![j].pc = "batch_check",
                                     ![j].stamped = FALSE,
                                     ![j].batch = done]
       ELSE Goto(j, "settle")

\* The check after the run, the collection of results and telemetry, and the
\* check after that: only the last look at the event decides.  Collecting may
\* raise, and a Lemonade Bench run without a good request fails.
Settle(j) ==
    /\ At(j, "settle")
    /\ IF Heard(j)
       THEN Leave(j, AfterHandoff(j), "cancelled")
       ELSE \/ worker[j].ok /\ Leave(j, AfterHandoff(j), "succeeded")
            \/ Leave(j, AfterHandoff(j), "failed")
    /\ UNCHANGED record

\* The pins after the judge of a SWE Mini job was unpinned, which may fail
\* unnoticed.
JudgeUnpinned(j) ==
    {IF j \in Swe THEN pins \ ({JudgeOf[j]} \ {ModelOf[j]}) ELSE pins}
        \cup (IF Replies = {"ok"} THEN {} ELSE {pins})

\* The three parts of _release_job_model: unpin the judge of a handoff, its
\* failure ignored; write "releasing"; unpin the model and write the outcome.
UnpinJudge(j) ==
    /\ At(j, "unpin_judge")
    /\ pins' \in JudgeUnpinned(j)
    /\ Goto(j, "release")
    /\ UNCHANGED <<record, process, activeProcesses>>

WriteReleasing(j) ==
    /\ At(j, "release")
    /\ IF worker[j].protection = "pinned"
       THEN /\ worker' = [worker EXCEPT ![j].pc = "unpin",
                                        ![j].protection = "releasing"]
            /\ record' = [record EXCEPT
                            ![j] = [status |-> worker[j].status,
                                    protection |-> "releasing"]]
       ELSE /\ Goto(j, "finish")
            /\ UNCHANGED record

UnpinModel(j) ==
    /\ At(j, "unpin")
    /\ \E reply \in Replies :
        /\ pins' = IF reply \in {"ok", "lost"} THEN pins \ {ModelOf[j]}
                                               ELSE pins
        /\ worker' = [worker EXCEPT
                        ![j].pc = "released",
                        ![j].protection = IF reply = "ok" THEN "released"
                                          ELSE "release_failed"]
    /\ UNCHANGED <<record, process, activeProcesses>>

WriteReleased(j) ==
    /\ At(j, "released")
    /\ Store(j)
    /\ Goto(j, "finish")

\* The last write of _run_job.  The summary and the invalidation of the
\* results that follow touch no job file.
WriteFinished(j) ==
    /\ At(j, "finish")
    /\ Store(j)
    /\ Goto(j, "exit")

\* Mutant: a cancelled job keeps its slot.
Exit_KeepsSlot(j) ==
    /\ At(j, "exit")
    /\ activeJobs' = IF Heard(j) THEN activeJobs ELSE activeJobs - 1
    /\ cancelEvents' = [cancelEvents EXCEPT ![j] = "none"]
    /\ worker' = [worker EXCEPT ![j] = IdleWorker]
    /\ UNCHANGED <<record, issued, pendingJobs, maxConcurrentJobs,
                   activeProcesses, serverVars, caller, bootVars>>

\* The finally block of _run_scheduled_job.
Exit(j) ==
    /\ At(j, "exit")
    /\ activeJobs' = IF activeJobs = 0 THEN 0 ELSE activeJobs - 1
    /\ cancelEvents' = [cancelEvents EXCEPT ![j] = "none"]
    /\ worker' = [worker EXCEPT ![j] = IdleWorker]
    /\ UNCHANGED <<record, issued, pendingJobs, maxConcurrentJobs,
                   activeProcesses, serverVars, caller, bootVars>>

\* Steps that write the job file or only look at memory.
RecordStep(j) ==
    /\ \/ ReadRecord(j)
       \/ CheckCancelled(j)
       \/ Abort(j)
       \/ LaunchEnv(j)
       \/ WriteStarted(j)
       \/ WritePinning(j)
       \/ WritePinResult(j)
       \/ Precheck(j)
       \/ WriteBatchesInit(j)
       \/ CheckBatch(j)
       \/ WriteBatchBegin(j)
       \/ VerifyBatch(j)
       \/ WriteBatchEnd(j)
       \/ Settle(j)
       \/ WriteReleasing(j)
       \/ WriteReleased(j)
       \/ WriteFinished(j)
    /\ UNCHANGED <<issued, queueVars, cancelEvents, activeProcesses,
                   serverVars, caller, bootVars>>

\* Steps that act on the process or on Lemonade.
OutsideStep(j) ==
    /\ \/ LoadModel(j)
       \/ Launch(j)
       \/ Register(j)
       \/ HeedCancel(j)
       \/ Reap(j)
       \/ UnpinJudge(j)
       \/ UnpinModel(j)
    /\ UNCHANGED <<issued, queueVars, cancelEvents, caller, bootVars>>

WorkerStep(j) == Stamp(j) \/ RecordStep(j) \/ OutsideStep(j) \/ Exit(j)

-----------------------------------------------------------------------------
(***************************************************************************)
(* The benchmark process.                                                  *)
(***************************************************************************)

\* It ends by itself, or because it was told to.  The process of a stopped
\* application has no parent left to wait for it.
ProcessEnds(j) ==
    /\ process[j] \in {"running", "terminating"}
    /\ process' = [process EXCEPT ![j] = IF At(j, "idle") THEN "none"
                                                          ELSE "exited"]
    /\ UNCHANGED <<record, issued, queueVars, cancelEvents, worker,
                   activeProcesses, pins, caller, bootVars>>

\* The runner of a protected SWE Mini job moves the pin from the candidate to
\* the judge and back, by calls that pin or unpin one model each; the order
\* of the calls is left open here.
SwitchPin(j) ==
    /\ j \in Swe
    /\ worker[j].protection = "pinned"
    /\ process[j] \in {"running", "terminating"}
    /\ ModelOf[j] # JudgeOf[j]
    /\ \E model \in {ModelOf[j], JudgeOf[j]} :
        pins' \in {pins \cup {model}, pins \ {model}}
    /\ UNCHANGED <<record, issued, queueVars, cancelEvents, worker,
                   activeProcesses, process, caller, bootVars>>

-----------------------------------------------------------------------------
(***************************************************************************)
(* HTTP request threads.                                                   *)
(***************************************************************************)

Free(c) == mode = "up" /\ caller[c].op = "idle"

\* Request thread c goes on as r, and ends when r has nothing left to do.
Becomes(c, r) ==
    caller' = [caller EXCEPT
                 ![c] = IF r.todo \cup r.writing \cup r.signal = {}
                        THEN IdleCaller ELSE r]

\* What _stored_jobs returned, restricted to the jobs the request is about.
Snapshot(S) == [j \in Jobs |-> IF j \in S THEN record[j] ELSE Absent]

\* create_jobs, one model at a time, and rerun_jobs, which adds a check of the
\* old job and then calls create_jobs: set the limit, write the record,
\* enqueue.  A Lemonade Bench request sets the limit to one; another request
\* may carry a limit of its own.  limit is 0 when it does not.
Submit(c, j, limit) ==
    /\ Free(c)
    /\ j \notin Elements(issued)
    /\ maxConcurrentJobs' = IF j \in Bench THEN 1
                            ELSE IF limit = 0 THEN maxConcurrentJobs
                                              ELSE limit
    /\ issued' = Append(issued, j)
    /\ caller' = [caller EXCEPT ![c] = [IdleCaller EXCEPT !.op = "create",
                                                          !.todo = {j}]]
    /\ UNCHANGED <<record, pendingJobs, activeJobs, cancelEvents, worker,
                   activeProcesses, serverVars, bootVars>>

\* _create_job and its two sisters; a bad request raises before the write.
CreateRecord(c) ==
    /\ caller[c].op = "create"
    /\ \/ /\ record' = [j \in Jobs |-> IF j \in caller[c].todo THEN Queued
                                                               ELSE record[j]]
          /\ caller' = [caller EXCEPT ![c].op = "enqueue"]
       \/ /\ caller' = [caller EXCEPT ![c] = IdleCaller]
          /\ UNCHANGED record
    /\ UNCHANGED <<issued, queueVars, cancelEvents, worker, activeProcesses,
                   serverVars, bootVars>>

\* Mutant: enqueueing makes a new event.
EnqueueJob_NewEvent(j) ==
    /\ pendingJobs' = IF j \in Elements(pendingJobs) THEN pendingJobs
                                                     ELSE Append(pendingJobs, j)
    /\ cancelEvents' = [cancelEvents EXCEPT ![j] = "clear"]

\* _enqueue_job: a job that is pending already is not appended again, and an
\* event that exists keeps its value.
EnqueueJob(j) ==
    /\ pendingJobs' = IF j \in Elements(pendingJobs) THEN pendingJobs
                                                     ELSE Append(pendingJobs, j)
    /\ cancelEvents' = [cancelEvents EXCEPT ![j] = IF @ = "none" THEN "clear"
                                                                 ELSE @]

Enqueue(c) ==
    /\ caller[c].op = "enqueue"
    /\ \E j \in caller[c].todo : EnqueueJob(j)
    /\ caller' = [caller EXCEPT ![c] = IdleCaller]
    /\ UNCHANGED <<record, issued, activeJobs, maxConcurrentJobs, worker,
                   activeProcesses, serverVars, bootVars>>

\* cancel_jobs: read the records once, then signal and write job by job,
\* then terminate the processes of those that were not queued when read.
CancelRead(c, S) ==
    /\ Free(c)
    /\ LET live == {j \in S : record[j].status \in Active} IN
       Becomes(c, [op |-> "cancel", snap |-> Snapshot(live), todo |-> live,
                   writing |-> {}, signal |-> {}])
    /\ UNCHANGED <<record, issued, queueVars, cancelEvents, worker,
                   activeProcesses, serverVars, bootVars>>

CancelSignal(c, j) ==
    /\ caller[c].op = "cancel"
    /\ caller[c].writing = {}
    /\ j \in caller[c].todo
    /\ cancelEvents' = [cancelEvents EXCEPT ![j] = "set"]
    /\ caller' = [caller EXCEPT ![c].todo = @ \ {j}, ![c].writing = {j}]
    /\ UNCHANGED <<record, issued, queueVars, worker, activeProcesses,
                   serverVars, bootVars>>

\* Mutant: the status read is written back.
CancelWrite_KeepsStatus(c, j) ==
    /\ caller[c].op = "cancel"
    /\ j \in caller[c].writing
    /\ record' = [record EXCEPT ![j] = caller[c].snap[j]]
    /\ Becomes(c, [caller[c] EXCEPT !.snap[j] = Absent, !.writing = {},
                                    !.signal = @ \cup {j}])
    /\ UNCHANGED <<issued, queueVars, cancelEvents, worker, activeProcesses,
                   serverVars, bootVars>>

CancelWrite(c, j) ==
    /\ caller[c].op = "cancel"
    /\ j \in caller[c].writing
    /\ LET read == caller[c].snap[j]
           queued == read.status = "queued"
       IN  /\ record' = [record EXCEPT
                           ![j] = [read EXCEPT
                                     !.status = IF queued THEN "cancelled"
                                                ELSE "cancelling"]]
           /\ Becomes(c, [caller[c] EXCEPT
                            !.snap[j] = Absent,
                            !.writing = {},
                            !.signal = IF queued THEN @ ELSE @ \cup {j}])
    /\ UNCHANGED <<issued, queueVars, cancelEvents, worker, activeProcesses,
                   serverVars, bootVars>>

\* Mutant: only the event, no signal.
CancelTerminate_EventOnly(c, j) ==
    /\ caller[c].op = "cancel"
    /\ caller[c].todo \cup caller[c].writing = {}
    /\ j \in caller[c].signal
    /\ Becomes(c, [caller[c] EXCEPT !.signal = @ \ {j}])
    /\ UNCHANGED <<record, issued, queueVars, cancelEvents, worker,
                   activeProcesses, serverVars, bootVars>>

CancelTerminate(c, j) ==
    /\ caller[c].op = "cancel"
    /\ caller[c].todo \cup caller[c].writing = {}
    /\ j \in caller[c].signal
    /\ IF j \in activeProcesses THEN Terminate(j) ELSE UNCHANGED process
    /\ Becomes(c, [caller[c] EXCEPT !.signal = @ \ {j}])
    /\ UNCHANGED <<record, issued, queueVars, cancelEvents, worker,
                   activeProcesses, pins, bootVars>>

\* clear_jobs and clear_failed_jobs: refuse when a job read is active, else
\* remove the files of all the jobs read under the file lock.
ClearRead(c, S) ==
    /\ Free(c)
    /\ \A j \in S : record[j].status \notin Active
    /\ LET present == {j \in S : record[j] # Absent} IN
       Becomes(c, [IdleCaller EXCEPT !.op = "clear", !.todo = present])
    /\ UNCHANGED <<record, issued, queueVars, cancelEvents, worker,
                   activeProcesses, serverVars, bootVars>>

ClearRemove(c) ==
    /\ caller[c].op = "clear"
    /\ record' = [j \in Jobs |-> IF j \in caller[c].todo THEN Absent
                                                         ELSE record[j]]
    /\ caller' = [caller EXCEPT ![c] = IdleCaller]
    /\ UNCHANGED <<issued, queueVars, cancelEvents, worker, activeProcesses,
                   serverVars, bootVars>>

\* _build_results_snapshot reads every record; for a SWE Mini job that has no
\* result files yet, _swe_mini_result_files copies what the runner has
\* written so far, and if there was something writes the record it read back
\* with the files added.
ResultsRead(c) ==
    /\ Free(c)
    /\ LET unfinished == {j \in Swe : record[j].status \in
                                          {"running", "cancelling"}} IN
       Becomes(c, [op |-> "results", snap |-> Snapshot(unfinished),
                   todo |-> unfinished, writing |-> {}, signal |-> {}])
    /\ UNCHANGED <<record, issued, queueVars, cancelEvents, worker,
                   activeProcesses, serverVars, bootVars>>

ResultsStamp(c, j) ==
    /\ caller[c].op = "results"
    /\ caller[c].writing = {}
    /\ j \in caller[c].todo
    /\ \/ caller' = [caller EXCEPT
                       ![c].todo = @ \ {j},
                       ![c].writing = {j},
                       ![c].snap[j].status = IF @ = "running" /\ Heard(j)
                                             THEN "cancelling" ELSE @]
       \/ Becomes(c, [caller[c] EXCEPT !.todo = @ \ {j},
                                       !.snap[j] = Absent])
    /\ UNCHANGED <<record, issued, queueVars, cancelEvents, worker,
                   activeProcesses, serverVars, bootVars>>

ResultsStore(c, j) ==
    /\ caller[c].op = "results"
    /\ j \in caller[c].writing
    /\ record' = [record EXCEPT ![j] = caller[c].snap[j]]
    /\ Becomes(c, [caller[c] EXCEPT !.writing = {}, !.snap[j] = Absent])
    /\ UNCHANGED <<issued, queueVars, cancelEvents, worker, activeProcesses,
                   serverVars, bootVars>>

\* The rest of a request once it has begun.
CallerStep(c) ==
    \/ CreateRecord(c)
    \/ Enqueue(c)
    \/ ClearRemove(c)
    \/ \E j \in Jobs : \/ CancelSignal(c, j)
                       \/ CancelWrite(c, j)
                       \/ CancelTerminate(c, j)
                       \/ ResultsStamp(c, j)
                       \/ ResultsStore(c, j)

Request(c) ==
    \/ \E j \in Jobs, limit \in Limits \cup {0} : Submit(c, j, limit)
    \/ \E S \in SUBSET Jobs \ {{}} : CancelRead(c, S) \/ ClearRead(c, S)
    \/ ResultsRead(c)

-----------------------------------------------------------------------------
(***************************************************************************)
(* The application stops, with whatever it was doing, and starts again.    *)
(***************************************************************************)

\* Memory is lost.  The processes live in sessions of their own: they die
\* with a container and survive a bare host's process.
Restart ==
    /\ Restarts
    /\ pendingJobs' = <<>>
    /\ activeJobs' = 0
    /\ maxConcurrentJobs' = DefaultLimit
    /\ cancelEvents' = [j \in Jobs |-> "none"]
    /\ worker' = [j \in Jobs |-> IdleWorker]
    /\ caller' = [c \in Callers |-> IdleCaller]
    /\ activeProcesses' = {}
    /\ process' \in {[j \in Jobs |-> "none"],
                     [j \in Jobs |-> IF process[j] = "exited" THEN "none"
                                     ELSE process[j]]}
    /\ mode' = "recovering"
    /\ recovery' = {j \in Jobs : record[j] # Absent}
    /\ UNCHANGED <<record, issued, pins>>

\* One job of _reconcile_jobs: a queued job stays (a SWE Mini job whose tasks
\* cannot be set up again fails), a running one fails and its pin is released
\* (_release_interrupted_model_protection), a finished one is left alone.
Reconcile(j) ==
    /\ mode = "recovering"
    /\ j \in recovery
    /\ recovery' = recovery \ {j}
    /\ \/ /\ record[j].status = "queued"
          /\ \/ UNCHANGED record
             \/ j \in Swe /\ record' = [record EXCEPT ![j].status = "failed"]
          /\ UNCHANGED pins
       \/ /\ record[j].status \in {"running", "cancelling"}
          /\ \/ /\ record[j].protection \in {"pinning", "pinned",
                                             "releasing", "release_failed"}
                /\ \E reply \in Replies :
                    /\ \E kept \in JudgeUnpinned(j) :
                        pins' = IF reply \in {"ok", "lost"}
                                THEN kept \ {ModelOf[j]} ELSE kept
                    /\ record' = [record EXCEPT
                         ![j] = [status |-> "failed",
                                 protection |-> IF reply = "ok"
                                                THEN "released_after_restart"
                                                ELSE "release_failed"]]
             \/ /\ record[j].protection \notin {"pinning", "pinned",
                                                "releasing", "release_failed"}
                /\ record' = [record EXCEPT ![j].status = "failed"]
                /\ UNCHANGED pins
       \/ /\ record[j].status \in Terminal
          /\ UNCHANGED <<record, pins>>
    /\ UNCHANGED <<issued, queueVars, cancelEvents, worker, activeProcesses,
                   process, caller, mode>>

\* Mutant: the queued jobs are found but not handed to the queue.
StartScheduler_Forgets ==
    /\ mode = "recovering"
    /\ recovery = {}
    /\ mode' = "requeueing"
    /\ UNCHANGED <<record, issued, queueVars, cancelEvents, worker,
                   activeProcesses, serverVars, caller, recovery>>

\* The scheduler thread starts; the queued jobs are enqueued one by one,
\* oldest first, before the server accepts requests.
StartScheduler ==
    /\ mode = "recovering"
    /\ recovery = {}
    /\ mode' = "requeueing"
    /\ recovery' = {j \in Jobs : record[j].status = "queued"}
    /\ UNCHANGED <<record, issued, queueVars, cancelEvents, worker,
                   activeProcesses, serverVars, caller>>

Requeue ==
    /\ mode = "requeueing"
    /\ \E i \in DOMAIN issued :
        /\ issued[i] \in recovery
        /\ \A k \in 1..(i - 1) : issued[k] \notin recovery
        /\ EnqueueJob(issued[i])
        /\ recovery' = recovery \ {issued[i]}
    /\ UNCHANGED <<record, issued, activeJobs, maxConcurrentJobs, worker,
                   activeProcesses, serverVars, caller, mode>>

Serve ==
    /\ mode = "requeueing"
    /\ recovery = {}
    /\ mode' = "up"
    /\ UNCHANGED <<record, issued, queueVars, cancelEvents, worker,
                   activeProcesses, serverVars, caller, recovery>>

Boot == (\E j \in Jobs : Reconcile(j)) \/ StartScheduler \/ Requeue \/ Serve

Next ==
    \/ Dispatch
    \/ \E j \in Jobs : WorkerStep(j) \/ ProcessEnds(j) \/ SwitchPin(j)
    \/ \E c \in Callers : Request(c) \/ CallerStep(c)
    \/ Restart
    \/ Boot

Spec == Init /\ [][Next]_vars

(***************************************************************************)
(* Threads that can run do run; every call to Lemonade has a timeout; a    *)
(* process that was told to terminate does, SIGKILL sees to that.  Nothing *)
(* makes a benchmark end, a client send a request or the application stop. *)
(***************************************************************************)
Fairness ==
    /\ WF_vars(Dispatch)
    /\ WF_vars(Boot)
    /\ \A j \in Jobs : WF_vars(WorkerStep(j))
    /\ \A j \in Jobs : WF_vars(process[j] = "terminating" /\ ProcessEnds(j))
    /\ \A c \in Callers : WF_vars(CallerStep(c))

FairSpec == Spec /\ Fairness

\* Benchmarks that end by themselves, on top of that.
EndingSpec == FairSpec /\ \A j \in Jobs : WF_vars(ProcessEnds(j))

-----------------------------------------------------------------------------
(***************************************************************************)
(* What the job manager keeps true.                                        *)
(***************************************************************************)

\* The jobs whose file no results request writes.
NotSwe == Jobs \ Swe

\* The slot count is the number of worker threads, whatever they went
\* through (jobs.py:919, 935): the clamp at zero never hides a lost slot.
SlotAccounting == activeJobs = Cardinality(Live)

\* A file that says queued belongs to a job somebody will get to: it waits in
\* the queue, or a request or restart is about to enqueue it, or its worker
\* has just started, or a cancel is about to overwrite it.
QueuedIsTracked ==
    mode # "recovering" =>
        \A j \in NotSwe : record[j].status = "queued" =>
            \/ j \in Elements(pendingJobs) \cup recovery
            \/ worker[j].pc \in {"read", "check", "abort", "env", "start"}
            \/ \E c \in Callers : \/ /\ caller[c].op = "enqueue"
                                    /\ j \in caller[c].todo
                                 \/ /\ caller[c].op = "cancel"
                                    /\ j \in caller[c].writing

\* A file that says running belongs to a live worker, whatever stale copies
\* of it cancel requests hold: they never write "running".
RunningIsOwned ==
    mode # "recovering" =>
        \A j \in NotSwe : record[j].status = "running" => j \in Live

\* A process whose job file says cancelling is not left running: it has been
\* signalled, or its worker has yet to look at the event after registering
\* it, or a cancel request is about to signal it (jobs.py:970-974, 411-415).
CancellingIsHeard ==
    \A j \in Live \ Swe :
        record[j].status = "cancelling" /\ process[j] = "running" =>
            \/ worker[j].pc \in {"register", "heed"}
            \/ \E c \in Callers : j \in caller[c].signal

\* A job is given a slot only while its file still says queued: a cancel
\* sets the event before it writes the file, and enqueueing keeps an event
\* that was set before the job was pending (jobs.py:398-407, 904, 941).
SlotsGoToQueuedJobs ==
    [][\A j \in Jobs : j \in Live' \ Live => record[j].status = "queued"]_vars

\* The model of an lm-eval job stays pinned from the first batch to the last
\* (README.md:234-235).
PinHeldAcrossBatches ==
    \A j \in NotSwe :
        worker[j].protection = "pinned" => ModelOf[j] \in pins

\* A job that is being cancelled and has a worker loses that worker: the
\* process is signalled, its exit is seen, the model is released.
CancelCompletes ==
    \A j \in NotSwe :
        record[j].status = "cancelling" /\ j \in Live ~> j \notin Live

\* If benchmarks end, every pending job leaves the queue.
QueueDrains ==
    \A j \in Jobs :
        j \in Elements(pendingJobs) ~> j \notin Elements(pendingJobs)

\* The job manager implements the queue: first come, first served, within the
\* limit, and nothing that was cancelled while it waited.
Queue == INSTANCE JobQueue WITH
            waiting   <- pendingJobs,
            running   <- Live,
            cancelled <- {j \in Jobs : Heard(j)},
            limit     <- maxConcurrentJobs

ImplementsQueue == Queue!Spec

-----------------------------------------------------------------------------
(***************************************************************************)
(* What the documentation says and a stale write breaks.                   *)
(***************************************************************************)

\* README.md:133-134: the running process of a cancelled job receives SIGTERM,
\* also when its job was read as queued and started before it was written.
CancelledIsSignalled ==
    \A j \in NotSwe :
        /\ record[j].status = "cancelled"
        /\ process[j] = "running"
        /\ At(j, "wait")
        => \E c \in Callers : j \in caller[c].signal

\* README.md:278: job cleanup removes the metadata of a job, for good.
ClearedStaysCleared ==
    [][\A j \in Elements(issued) :
        /\ record[j] = Absent
        /\ ~\E c \in Callers : caller[c].op = "create" /\ j \in caller[c].todo
        => record'[j] = Absent]_vars
=============================================================================
