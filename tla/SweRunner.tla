------------------------------- MODULE SweRunner -------------------------------
(***************************************************************************)
(* One SWE Mini job: the script run-swe-mini.sh, which works through the   *)
(* tasks in containers (SweTask), the worker of jobs.py that launched it   *)
(* and collects its results, the request for the leaderboard that collects *)
(* the same results while the job is running (jobs.py:489-579, 1925-1958), *)
(* a cancellation, and a restart of the application.                       *)
(*                                                                         *)
(* The script writes to its own directory, which collecting copies to the  *)
(* job's run directory; there the summary is made anew from the results.   *)
(* Reading or writing one file, and copying a directory, is one step; the  *)
(* three steps of write_swe_mini_summary (collect, write the temporary     *)
(* file, replace) are not, for two threads share the temporary file.       *)
(***************************************************************************)
EXTENDS SweTask

CONSTANTS
    NTasks,    \* tasks of the job
    PassCount  \* attempts at each

ASSUME RunnerAssumption == NTasks \in Nat \ {0} /\ PassCount \in Nat \ {0}

VARIABLES
    script,     \* [pc, task, attempt, exit] of run-swe-mini.sh
    source,     \* result files in the script's directory
    sourceSum,  \* summary.json there
    runs,       \* result files in the job's run directory
    runsSum,    \* summary.json there
    tmp,        \* summary.json.tmp there
    worker,     \* the worker: its copy of the job, and what it has collected
    reader,     \* a request for the leaderboard: the same
    record,     \* the job's record
    filed,      \* the key of the job's summary in result_summaries
    cancel,     \* how far a cancellation has come
    lister,     \* the thread that lists the containers of a cancelled job
    raced       \* worker and reader have collected at the same time: history,
                \* not in the code

fileVars == <<source, sourceSum, runs, runsSum, tmp>>
jobVars == <<worker, reader, record, filed, cancel, lister>>
vars == <<taskVars, script, fileVars, jobVars, raced>>

Tasks == 1..NTasks
\* results-T.json is <<T, 0>>, results-T-attemptA.json is <<T, A>>.
File == Tasks \X (0..PassCount)
NoFile == "none"
Files == [File -> Verdict \cup {NoFile}]
Final(t) == <<t, 0>>
NoFiles == [f \in File |-> NoFile]

\* A summary: the results it was made from, how many passed, how many there
\* should be.
NoSummary == [results |-> {}, passed |-> 0, scheduled |-> 0]
Summary == [results : SUBSET File, passed : 0..NTasks, scheduled : 0..NTasks]

Job == [status : {"running", "cancelling", "succeeded", "failed", "cancelled", "interrupted"},
        copied : BOOLEAN,   \* output_path is the run directory
        found : BOOLEAN]    \* result_files names the summary
\* _result_summary_key: what the summary of a job is compared by.
Key(job) == <<job.status, job.found>>
Collecting == {"collect", "write", "replace"}

TypeOK ==
    /\ TaskTypeOK
    /\ script \in [pc : {"next", "box", "drain", "final", "dead"}, task : 0..NTasks,
                   attempt : 0..PassCount, exit : {0, 1}]
    /\ source \in Files /\ runs \in Files
    /\ {sourceSum, runsSum, tmp} \subseteq Summary
    /\ worker \in [pc : {"wait", "found", "escaped", "done"} \cup Collecting,
                   job : Job, mem : Summary, handling : BOOLEAN,
                   kept : SUBSET {Candidate, Judge}]
    /\ reader \in [pc : {"idle", "found"} \cup Collecting, job : Job, mem : Summary]
    /\ record \in Job
    /\ filed \in {Key(job) : job \in Job} \cup {<<>>}
    /\ cancel \in {"none", "signalled", "missed", "killed"}
    /\ lister \in {"none", "listing", "removed", "failed"}
    /\ raced \in BOOLEAN

NewJob == [status |-> "running", copied |-> FALSE, found |-> FALSE]
IdleReader == [pc |-> "idle", job |-> NewJob, mem |-> NoSummary]

Init ==
    /\ TaskInit
    /\ script = [pc |-> "next", task |-> 0, attempt |-> 0, exit |-> 0]
    /\ source = NoFiles /\ sourceSum = NoSummary
    /\ runs = NoFiles /\ runsSum = NoSummary /\ tmp = NoSummary
    /\ record = NewJob /\ filed = <<>>
    /\ worker = [pc |-> "wait", job |-> NewJob, mem |-> NoSummary, handling |-> FALSE,
                  kept |-> {}]
    /\ reader = IdleReader
    /\ cancel = "none" /\ lister = "none"
    /\ raced = FALSE

\* Mutant: the files of the attempts are taken for results.
Results_Attempts(files) == {f \in File : files[f] # NoFile}
\* generate_aggregate_summary and write_swe_mini_summary.
Results(files) == {f \in File : f[2] = 0 /\ files[f] # NoFile}
Summarise(files) ==
    [results   |-> Results(files),
     passed    |-> Cardinality({f \in Results(files) : files[f] = "pass"}),
     scheduled |-> IF Results(files) = {} THEN 0 ELSE NTasks]

-----------------------------------------------------------------------------
(* run-swe-mini.sh.                                                        *)

\* The signal has not reached the script.
Obeys == cancel = "none"
ScriptOnly == UNCHANGED <<jobVars, runs, runsSum, tmp>>

\* The script ends, with 0 or (1) another status, having summarised its results
\* if there are any.
EndScript(status) ==
    /\ script' = [script EXCEPT !.pc = "dead", !.attempt = 0, !.exit = status]
    /\ sourceSum' = IF Results(source') = {} THEN sourceSum ELSE Summarise(source')

\* A container is started, or gone.
Put(b) == box' = b /\ verdict' = "zero" /\ code' = "result"
SetBox(b) == Put(b) /\ UNCHANGED <<mode, pins, busy, unsure>>

StartBox(t, a) ==
    /\ script' = [script EXCEPT !.pc = "box", !.task = t, !.attempt = a]
    /\ SetBox("agent")
    /\ UNCHANGED <<source, sourceSum>>

\* The next task that has no result yet.
Todo == {t \in Tasks : t > script.task /\ source[Final(t)] = NoFile}
NextTask ==
    /\ Obeys /\ script.pc = "next"
    /\ \E t \in Todo : (\A u \in Todo : t <= u) /\ StartBox(t, 1)
    /\ ScriptOnly

Complete ==
    /\ Obeys /\ script.pc = "next" /\ Todo = {}
    /\ UNCHANGED <<taskVars, source>>
    /\ EndScript(0)
    /\ ScriptOnly

\* pi-bench writes the result of the task and exits.
WriteResult ==
    /\ box = "report"
    /\ source' = [source EXCEPT ![Final(script.task)] = verdict]
    /\ Exit("result")
    /\ UNCHANGED <<verdict, pins, busy, unsure, sourceSum, script>>
    /\ ScriptOnly

\* Mutant: a pass does not end the attempts.
Decided_Never(v) == script.attempt = PassCount
\* Mutant: one attempt too many.
Decided_OneMore(v) == v = "pass" \/ script.attempt > PassCount
Decided(v) == v = "pass" \/ script.attempt = PassCount

\* The result moves to the file of its attempt; a pass ends the attempts.
KeepAttempt(v) ==
    /\ source' = [source EXCEPT ![Final(script.task)] = NoFile,
                                ![<<script.task, script.attempt>>] = v]
    /\ IF Decided(v) THEN SetBox("none") /\ script' = [script EXCEPT !.pc = "final"]
                     ELSE SetBox("agent") /\ script' = [script EXCEPT !.pc = "box", !.attempt = @ + 1]
    /\ UNCHANGED sourceSum

\* The container has exited: with a result, or with a failure of the handoff
\* in its log, which is scored zero; or it timed out, which is scored zero once
\* the candidate is idle; anything else ends the run.
BoxExits ==
    /\ Obeys /\ script.pc = "box" /\ box = "exited"
    /\ CASE code = "result"  -> KeepAttempt(source[Final(script.task)])
         [] code = "handoff" -> KeepAttempt("zero")
         [] code = "timeout" ->
              /\ source' = [source EXCEPT ![Final(script.task)] = "zero"]
              /\ script' = [script EXCEPT !.pc = "drain"]
              /\ SetBox("none")
              /\ UNCHANGED sourceSum
         [] code = "fatal" ->
              /\ UNCHANGED source
              /\ SetBox("none")
              /\ EndScript(1)
    /\ ScriptOnly

\* wait_for_candidate_idle.  Without the lifecycle's environment it does not
\* wait at all.
\* Mutant: it never waits.
Drained_Always == TRUE
Drained == mode = "plain" \/ Idle(Candidate)
CandidateIdle ==
    /\ Obeys /\ script.pc = "drain" /\ Drained
    /\ KeepAttempt("zero")
    /\ ScriptOnly

\* Mutant: no deadline.
DrainTimeout_Never == FALSE /\ UNCHANGED vars
DrainTimeout ==
    /\ Obeys /\ script.pc = "drain" /\ mode # "plain"
    /\ UNCHANGED <<taskVars, source>>
    /\ EndScript(1)
    /\ ScriptOnly

\* The result of the task: that of its first attempt that passed, or its last.
Attempts(t) == {a \in 1..PassCount : source[<<t, a>>] # NoFile}
Best(t) ==
    LET passed == {a \in Attempts(t) : source[<<t, a>>] = "pass"}
    IN  CHOOSE a \in Attempts(t) :
            IF passed # {} THEN a \in passed /\ \A b \in passed : a <= b
                           ELSE \A b \in Attempts(t) : b <= a
WriteFinal ==
    /\ Obeys /\ script.pc = "final"
    /\ source' = [source EXCEPT ![Final(script.task)] = source[<<script.task, Best(script.task)>>]]
    /\ script' = [script EXCEPT !.pc = "next"]
    /\ UNCHANGED <<taskVars, sourceSum>>
    /\ ScriptOnly

\* SIGTERM has reached the process group: cancel_run, once what bash waits for
\* has ended.
\* Mutant: the container is not removed.
Trap_LeavesBox ==
    /\ cancel = "signalled" /\ script.pc # "dead"
    /\ UNCHANGED <<taskVars, source>>
    /\ EndScript(1)
    /\ ScriptOnly
Trap ==
    /\ cancel = "signalled" /\ script.pc # "dead"
    /\ SetBox("none")
    /\ UNCHANGED source
    /\ EndScript(1)
    /\ ScriptOnly

ContainerStep ==
    /\ BoxStep
    /\ UNCHANGED <<script, fileVars, jobVars>>
HostStep ==
    /\ RequestEnds
    /\ UNCHANGED <<script, fileVars, jobVars>>

-----------------------------------------------------------------------------
(* Collecting the results: _persist_swe_mini_results and                    *)
(* write_swe_mini_summary, for the worker and for a request.                *)

\* Copies what the script's directory holds, unless the job that is passed in
\* names the run directory already.
Copied(job) == ~job.copied /\ source # NoFiles
CopyTree(job) ==
    IF Copied(job)
    THEN /\ runs' = [f \in File |-> IF source[f] # NoFile THEN source[f] ELSE runs[f]]
         /\ runsSum' = IF sourceSum # NoSummary THEN sourceSum ELSE runsSum
    ELSE UNCHANGED <<runs, runsSum>>

\* find_swe_mini_result_files: the summary, or any result.
Found == runsSum # NoSummary \/ runs # NoFiles

Collect(a) ==
    \/ /\ a.pc = "collect"
       /\ CopyTree(a.job)
       /\ LET mem == Summarise(runs')
          IN  a' = [a EXCEPT !.job.copied = @ \/ Copied(a.job), !.mem = mem,
                             !.pc = IF mem = NoSummary THEN "found" ELSE "write"]
       /\ UNCHANGED tmp
    \/ /\ a.pc = "write"
       /\ tmp' = a.mem
       /\ a' = [a EXCEPT !.pc = "replace", !.mem = NoSummary]
       /\ UNCHANGED <<runs, runsSum>>
    \/ /\ a.pc = "replace" /\ tmp # NoSummary
       /\ runsSum' = tmp /\ tmp' = NoSummary
       /\ a' = [a EXCEPT !.pc = "found"]
       /\ UNCHANGED runs

\* The other thread has moved the temporary file away.
Robbed(a) == a.pc = "replace" /\ tmp = NoSummary

ScriptUnchanged == UNCHANGED <<script, source, sourceSum>>
RestUnchanged == UNCHANGED <<record, filed, cancel, lister>>

\* The script has ended: the worker copies its files, as output_path in its
\* own copy of the job says.
WorkerWakes ==
    /\ worker.pc = "wait" /\ script.pc = "dead"
    /\ worker' = [worker EXCEPT
                    !.pc = "collect",
                    !.job.status = CASE cancel # "none"   -> "cancelled"
                                     [] script.exit = 0   -> "succeeded"
                                     [] OTHER             -> "failed",
                    !.handling = cancel # "none"]
    /\ UNCHANGED <<taskVars, script, fileVars, reader, record, filed, cancel, lister>>

\* An exception while collecting makes the job a failed one, and the results
\* are collected once more in the handler; a second one leaves the handler.
WorkerCollects ==
    /\ \/ Collect(worker)
       \/ /\ Robbed(worker)
          /\ worker' = IF worker.handling THEN [worker EXCEPT !.pc = "escaped"]
                       ELSE [worker EXCEPT !.pc = "collect", !.handling = TRUE,
                                           !.job.status = "failed"]
          /\ UNCHANGED <<runs, runsSum, tmp>>
    /\ ScriptUnchanged /\ RestUnchanged /\ UNCHANGED <<taskVars, reader>>

\* The last look at the cancel event: a cancelled job is collected again.
WorkerLooks ==
    /\ worker.pc = "found" /\ cancel # "none" /\ ~worker.handling
    /\ worker' = [worker EXCEPT !.pc = "collect", !.handling = TRUE, !.job.found = Found,
                                !.job.status = "cancelled"]
    /\ UNCHANGED <<taskVars, script, fileVars, reader, record, filed, cancel, lister>>

\* _release_job_model, in which each unpinning may fail, and the last write of
\* the record and of the summary filed with it.
WorkerFinishes ==
    /\ \/ worker.pc = "escaped"
       \/ worker.pc = "found" /\ (cancel = "none" \/ worker.handling)
    /\ record' = [worker.job EXCEPT !.found = IF worker.pc = "found" THEN Found ELSE @]
    /\ \E kept \in SUBSET pins :
         /\ pins' = kept
         /\ worker' = [worker EXCEPT !.pc = "done", !.kept = kept, !.job = record']
    /\ filed' = Key(record')
    /\ UNCHANGED <<mode, box, verdict, code, busy, unsure>>
    /\ UNCHANGED <<script, fileVars, reader, cancel, lister>>

\* A request for the leaderboard reads the record.  Unless a summary is filed
\* for it, or it names result files, the request collects them itself and
\* writes the record back as it has read it.
ReadRecord ==
    /\ reader.pc = "idle"
    /\ filed # Key(record) /\ ~record.found
    /\ reader' = [reader EXCEPT !.pc = "collect", !.job = record]
    /\ UNCHANGED <<taskVars, script, fileVars, worker, record, filed, cancel, lister>>

ReaderCollects ==
    /\ \/ Collect(reader)
       \/ /\ Robbed(reader)
          /\ reader' = IdleReader
          /\ UNCHANGED <<runs, runsSum, tmp>>
    /\ ScriptUnchanged /\ RestUnchanged /\ UNCHANGED <<taskVars, worker>>

\* A directory whose files move while it is copied fails the request.
ReaderFails ==
    /\ reader.pc = "collect" /\ script.pc # "dead"
    /\ reader' = IdleReader
    /\ UNCHANGED <<taskVars, script, fileVars, worker, record, filed, cancel, lister>>

StoreRecord ==
    /\ reader.pc = "found"
    /\ record' = IF Found THEN [reader.job EXCEPT !.found = TRUE] ELSE record
    /\ filed' = <<reader.job.status, Found>>
    /\ reader' = IdleReader
    /\ UNCHANGED <<taskVars, script, fileVars, worker, cancel, lister>>

-----------------------------------------------------------------------------
(* A cancellation, and a restart.                                          *)

\* cancel_jobs: the event, the record, SIGTERM to the process group if there
\* is one, and a thread that lists the containers of the job, once.
CancelJob ==
    /\ cancel = "none" /\ record.status = "running"
    /\ record' = [record EXCEPT !.status = "cancelling"]
    /\ cancel' = IF script.pc = "dead" THEN "missed" ELSE "signalled"
    /\ lister' = "listing"
    /\ UNCHANGED <<taskVars, script, fileVars, worker, reader, filed>>

\* SIGKILL after the grace period: no trap runs.
Kill ==
    /\ cancel = "signalled" /\ script.pc # "dead"
    /\ cancel' = "killed"
    /\ script' = [script EXCEPT !.pc = "dead", !.exit = 1]
    /\ UNCHANGED <<taskVars, fileVars, worker, reader, record, filed, lister>>

\* _stop_swe_containers; errors and timeouts are ignored.
ListContainers ==
    /\ lister = "listing"
    /\ \/ lister' = "removed" /\ SetBox("none")
       \/ lister' = "failed" /\ UNCHANGED taskVars
    /\ UNCHANGED <<script, fileVars, worker, reader, record, filed, cancel>>

\* The application, the script and the container stop.  _reconcile_jobs
\* collects what there is before requests are served, and releases the models.
Restart ==
    /\ record.status \in {"running", "cancelling"}
    /\ script' = [script EXCEPT !.pc = "dead", !.attempt = 0]
    /\ Put("none")
    /\ pins' \in SUBSET pins
    /\ LET files == IF Copied(record)
                    THEN [f \in File |-> IF source[f] # NoFile THEN source[f] ELSE runs[f]]
                    ELSE runs
           old == IF Copied(record) /\ sourceSum # NoSummary THEN sourceSum ELSE runsSum
       IN  /\ runs' = files
           /\ runsSum' = IF Results(files) = {} THEN old ELSE Summarise(files)
    /\ tmp' = NoSummary
    /\ record' = [status |-> "interrupted", copied |-> record.copied \/ Copied(record),
                  found |-> runsSum' # NoSummary \/ runs' # NoFiles]
    /\ worker' = [pc |-> "done", job |-> record', mem |-> NoSummary, handling |-> FALSE,
                  kept |-> pins']
    /\ reader' = IdleReader
    /\ cancel' = "none" /\ lister' = "none"
    /\ UNCHANGED <<mode, busy, unsure, source, sourceSum, filed>>

Worker == WorkerWakes \/ WorkerCollects \/ WorkerLooks \/ WorkerFinishes
Reader == ReadRecord \/ ReaderCollects \/ ReaderFails \/ StoreRecord
Script == NextTask \/ Complete \/ BoxExits \/ CandidateIdle \/ DrainTimeout \/ WriteFinal
Container == ContainerStep \/ WriteResult
Cancellation == Kill \/ ListContainers

\* Both collect at once.
Racing == raced' = (raced \/ (worker'.pc \in Collecting /\ reader'.pc \in Collecting))

Done == worker.pc = "done" /\ reader.pc = "idle" /\ UNCHANGED vars

Next ==
    \/ /\ \/ Script \/ Container \/ HostStep \/ Trap
          \/ Worker \/ Reader
          \/ CancelJob \/ Cancellation \/ Restart
       /\ Racing
    \/ Done

\* Something the job is made of goes on; requests, the host and the operator
\* may do nothing.
Progress == (Script \/ Container \/ Worker \/ Cancellation) /\ Racing

Spec == Init /\ [][Next]_vars /\ WF_vars(Progress)

-----------------------------------------------------------------------------
(* Properties.                                                             *)

\* The agent works with a candidate that is pinned, unless the last handoff
\* was seen to fail: whatever the host answered to the calls before, the pin
\* has come back from the judge (README.md:236-239, run-swe-mini.sh:496-578).
AgentIsProtected ==
    box = "agent" /\ script.pc = "box" /\ mode # "plain" /\ ~unsure => Candidate \in pins

\* No agent starts while the candidate still works on a request of an agent
\* that timed out (README.md:251-253, run-swe-mini.sh:171-217).
NoStaleOverlap ==
    box = "agent" /\ mode # "plain" => "agent" \notin busy

\* A task has passed exactly when one of its attempts has, and no attempt
\* follows one that passed (run-swe-mini.sh:948-996).
PassIsEarned ==
    /\ \A t \in Tasks : source[Final(t)] = "pass" /\ ~(t = script.task /\ script.pc \in {"box", "dead"})
          => \E a \in 1..PassCount : source[<<t, a>>] = "pass"
    /\ box = "agent" /\ script.pc = "box"
          => \A a \in 1..PassCount : source[<<script.task, a>>] # "pass"

\* When the worker has collected the results, its summary has every result
\* the script has left, with the number that passed (README.md:253-255), unless
\* a request collected at the same time or the script was killed.
SummaryIsWhole ==
    /\ worker.pc = "done"
    /\ worker.job.status # "interrupted" /\ ~raced /\ cancel # "killed"
    => /\ \A t \in Tasks : source[Final(t)] # NoFile => Final(t) \in runsSum.results
       /\ runsSum.passed = Cardinality({t \in Tasks : runs[Final(t)] = "pass"})

\* What a job has started does not outlive its worker: no container runs, and
\* no model is pinned but those whose release failed.  A script that was killed
\* leaves this to the thread that lists the containers (jobs.py:1022-1046).
NothingOutlivesTheJob ==
    worker.pc = "done" =>
        /\ cancel # "killed" => box = "none" /\ pins \subseteq worker.kept
        /\ lister = "removed" => box = "none"

\* Every job comes to its end, whatever the host does with the requests that
\* were given up: each wait has a deadline (run-swe-mini.sh:183, 214).
JobEnds == <>(worker.pc = "done")

\* After a restart the results of an interrupted job are all those its script
\* had written (README.md:253-255: "Aggregate summaries are rebuilt from every
\* completed per-task artifact, including after partial runs").
RestartKeepsResults ==
    record.status = "interrupted" =>
        \A t \in Tasks : source[Final(t)] # NoFile => Final(t) \in runsSum.results
===============================================================================
