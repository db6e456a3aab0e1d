------------------------------ MODULE LmEvalJob ------------------------------
(***************************************************************************)
(* An lm-eval job from its first task batch to its place on the            *)
(* leaderboard.  The worker runs one process per batch of tasks            *)
(* (jobs.py:1302-1413); each loads its datasets, with the retries of       *)
(* lm_eval_runner.py around it, makes the requests of its samples          *)
(* (ModelCall) and writes the metrics of its tasks; the results of the     *)
(* batches are merged into one leaderboard entry (results.py).             *)
(*                                                                         *)
(* lm-eval itself is not part of the repository: what it does between the  *)
(* adapter and the wrapper is modelled as far as their code relies on it.  *)
(* Each task has one sample.  The worker's bookkeeping around a batch,     *)
(* cancellation included, is in JobLifecycle; here a job may be cancelled  *)
(* at any time.                                                            *)
(***************************************************************************)
EXTENDS ModelCall

CONSTANTS
    Tasks,          \* the tasks of the job, in order; also its calls
    BatchSize,      \* task_batch_size, 0 for a single process
    ProfileTasks,   \* the tasks of the built-in profiles
    CategoryOf,     \* the category of each task
    Balanced,       \* the categories of the overall score
    Retries,        \* LMEVAL_WEBUI_HF_RETRIES
    BaseDelay,      \* LMEVAL_WEBUI_HF_RETRY_DELAY
    DelayCap,       \* LMEVAL_WEBUI_HF_RETRY_MAX_DELAY
    Dirs,           \* dataset directories of the Hugging Face cache
    Needed          \* those the datasets of the job live in

ASSUME JobAssumption ==
    /\ Tasks \in Seq(Calls) /\ Tasks # <<>>
    /\ Calls = ToSet(Tasks) /\ IsInjective(Tasks)
    /\ BatchSize \in Nat /\ Retries \in Nat
    /\ BaseDelay \in Nat /\ DelayCap \in Nat
    /\ Needed \subseteq Dirs

VARIABLES
    standard,   \* do the job's options equal those of a built-in profile?
    status,     \* of the job
    batch,      \* the batch that runs or was last to run
    process,    \* where the process of the batch stands
    attempt,    \* failed attempts of this process that were tried again
    delay,      \* the delay before the next one
    dirs,       \* the datasets cache
    results,    \* the metrics of each task in the result files
    completed,  \* batch_progress: batches completed
    scored      \* history: the answer each task's metrics were computed from

jobVars == <<standard, status, batch, attempt, delay, dirs, results, completed,
             scored>>
vars == <<callVars, jobVars, process>>

Status == {"running", "succeeded", "failed", "cancelled"}
Process == {"none", "loading", "sleeping", "evaluating", "exited", "crashed"}

\* What a task's metrics hold: its canonical metric, only others that the
\* fallbacks accept, or none that is a finite number.
Metrics == {"canonical", "fallback", "unusable"}
NoResult == "missing"

TypeOK ==
    /\ concurrency \in 1..MaxConcurrency
    /\ permits \in 0..concurrency
    /\ call \in [Calls -> CallState]
    /\ tries \in [Calls -> 0..CallAttempts]
    /\ standard \in BOOLEAN
    /\ status \in Status
    /\ process \in Process
    /\ attempt \in 0..Retries
    /\ delay \in 0..DelayCap
    /\ dirs \in [Dirs -> {"absent", "intact", "corrupt"}]
    /\ results \in [Calls -> Metrics \cup {NoResult}]
    /\ scored \in [Calls -> {"none", "text", "empty"}]

-----------------------------------------------------------------------------
(* The tasks of a job and its profile.                                     *)

\* A job without task_batch_size runs all its tasks in one process.
TaskBatches ==
    LET size == IF BatchSize = 0 THEN Len(Tasks) ELSE BatchSize
        total == (Len(Tasks) + size - 1) \div size
    IN  [i \in 1..total |->
            {Tasks[k] : k \in ((i - 1) * size + 1)..Min({i * size, Len(Tasks)})}]

\* The profile is decided from the tasks and the options, never from a label.
ClassifyProfile == IF Calls = ProfileTasks /\ standard THEN "profile" ELSE "custom"
ExpectedTasks(profile) == IF profile = "custom" THEN {} ELSE ProfileTasks

-----------------------------------------------------------------------------
(* The leaderboard entry of the merged results.                            *)

\* Metrics of a task that its score is the mean of: the canonical ones, else
\* those of the first fallback that is there, else every number.
ScoredMetrics(metrics) == IF metrics \in {"canonical", "fallback"} THEN {metrics} ELSE {}

MergedResults == {t \in Calls : results[t] # NoResult}
\* Mutant: a task with nothing to score counts as scored.
TaskScores_Merged == MergedResults
TaskScores == {t \in MergedResults : ScoredMetrics(results[t]) # {}}
CategoryScores == {CategoryOf[t] : t \in TaskScores}

LeaderboardEntry ==
    LET profile == ClassifyProfile
        expected == ExpectedTasks(profile)
        complete == expected # {} /\ expected \subseteq TaskScores
        incomplete == expected # {} /\ ~complete
        overall == ~incomplete /\ CategoryScores \cap Balanced # {}
        partial == \/ status # "succeeded"
                   \/ Cardinality(MergedResults) < Len(Tasks)
                   \/ incomplete
    IN  [partial       |-> partial,
         overall_score |-> overall,
         rank_eligible |-> profile # "custom" /\ ~partial /\ complete /\ overall]

-----------------------------------------------------------------------------
Init ==
    /\ CallInit
    /\ standard \in BOOLEAN
    /\ status = "running"
    /\ batch = 0
    /\ process = "none"
    /\ attempt = 0
    /\ delay = 0
    /\ dirs \in [Dirs -> {"absent", "intact", "corrupt"}]
    /\ \A d \in Dirs \ Needed : dirs[d] # "absent"
    /\ results = [t \in Calls |-> NoResult]
    /\ completed = 0
    /\ scored = [t \in Calls |-> "none"]

Running == status = "running"

\* The worker launches the process of the next batch.
LaunchBatch ==
    /\ Running /\ process = "none"
    /\ batch < Len(TaskBatches)
    /\ batch' = batch + 1
    /\ process' = "loading"
    /\ attempt' = 0
    /\ delay' = 0
    /\ UNCHANGED <<callVars, standard, status, dirs, results, completed, scored>>

\* The datasets can be read; missing ones are downloaded.
LoadDatasets ==
    /\ Running /\ process = "loading"
    /\ \A d \in Needed : dirs[d] # "corrupt"
    /\ dirs' = [d \in Dirs |-> IF d \in Needed THEN "intact" ELSE dirs[d]]
    /\ Hand(TaskBatches[batch])
    /\ process' = "evaluating"
    /\ UNCHANGED <<standard, status, batch, attempt, delay, results, completed, scored>>

\* Mutant: every directory that is there is taken for corrupt.
CorruptDirs_Present == {d \in Dirs : dirs[d] # "absent"}
CorruptDirs == {d \in Dirs : dirs[d] = "corrupt"}

\* Mutant: no cap.
RetryDelay_Uncapped(n) == BaseDelay * 2 ^ (n - 1)
RetryDelay(n) == Min({DelayCap, BaseDelay * 2 ^ (n - 1)})

\* Mutant: attempts are not counted.
TryAgain_Uncounted ==
    /\ delay' = RetryDelay(attempt + 1)
    /\ process' = "sleeping"
    /\ UNCHANGED attempt

\* Another attempt after a delay, or the exception leaves the wrapper and the
\* process exits with an error.
TryAgain ==
    /\ attempt' = attempt + 1
    /\ delay' = RetryDelay(attempt + 1)
    /\ process' = "sleeping"
Raise ==
    /\ process' = "crashed"
    /\ UNCHANGED <<attempt, delay>>

\* A file could not be decoded.  Directories whose dataset_info.json is not
\* JSON are removed, ignoring errors, so that some may stay; each counts as
\* repaired.  Without one the exception is raised.
DecodeError ==
    LET repaired == IF attempt < Retries THEN CorruptDirs ELSE {}
    IN  /\ IF repaired = {} THEN Raise ELSE TryAgain
        /\ \E removed \in SUBSET repaired :
             dirs' = [d \in Dirs |-> IF d \in removed THEN "absent" ELSE dirs[d]]

\* An HTTP status of Hugging Face that is known to pass, or a dataset missing
\* from the cache, somewhere in the chain of exceptions.
TransientError ==
    /\ IF attempt < Retries THEN TryAgain ELSE Raise
    /\ UNCHANGED dirs

OtherError == Raise /\ UNCHANGED dirs

LoadFails ==
    /\ Running /\ process = "loading"
    /\ \/ DecodeError
       \/ TransientError
       \/ OtherError
    /\ UNCHANGED <<callVars, standard, status, batch, results, completed, scored>>

Sleep ==
    /\ Running /\ process = "sleeping"
    /\ process' = "loading"
    /\ UNCHANGED <<callVars, jobVars>>

Evaluating == Running /\ process = "evaluating"

\* The requests of the batch are made.
Evaluate ==
    /\ Evaluating
    /\ \E c \in TaskBatches[batch] : CallStep(c)
    /\ UNCHANGED <<jobVars, process>>

\* A request failed for good: its exception is none the wrapper retries.
EvaluateFails ==
    /\ Evaluating
    /\ Under("failed") # {}
    /\ Async => Under("waiting") \cup Under("streaming") = {}
    /\ Raise
    /\ Hand({})
    /\ UNCHANGED <<standard, status, batch, dirs, results, completed, scored>>

\* With every answer there, lm-eval computes the metrics and writes one result
\* file.  Which metrics a task has depends on its version of the task.
WriteResults ==
    /\ Evaluating
    /\ TaskBatches[batch] = Under("answered")
    /\ \E metrics \in [TaskBatches[batch] -> Metrics] :
         results' = [t \in Calls |-> IF t \in TaskBatches[batch] THEN metrics[t] ELSE results[t]]
    /\ scored' = [t \in Calls |-> IF t \notin TaskBatches[batch] THEN scored[t]
                                  ELSE IF answer[t] = <<>> THEN "empty" ELSE "text"]
    /\ Hand({})
    /\ process' = "exited"
    /\ UNCHANGED <<standard, status, batch, attempt, delay, dirs, completed>>

\* Computing the metrics can raise a decoding error of its own, which the
\* wrapper takes for a dataset's: the whole run is repeated.
MetricsFail ==
    /\ Evaluating
    /\ TaskBatches[batch] = Under("answered")
    /\ DecodeError \/ OtherError
    /\ Hand({})
    /\ UNCHANGED <<standard, status, batch, results, completed, scored>>

\* A batch that fails ends the job; after the last one it has succeeded.
FinishBatch ==
    /\ Running
    /\ \/ /\ process = "exited"
          /\ completed' = batch
          /\ status' = IF batch = Len(TaskBatches) THEN "succeeded" ELSE status
       \/ /\ process = "crashed"
          /\ status' = "failed"
          /\ UNCHANGED completed
    /\ process' = "none"
    /\ UNCHANGED <<callVars, standard, batch, attempt, delay, dirs, results, scored>>

\* The process group is killed, or the next batch is not launched; datasets
\* being downloaded are left as they are.
CancelJob ==
    /\ Running
    /\ status' = "cancelled"
    /\ process' = "none"
    /\ \/ UNCHANGED dirs
       \/ /\ process = "loading"
          /\ \E d \in Needed : dirs[d] = "absent" /\ dirs' = [dirs EXCEPT ![d] = "corrupt"]
    /\ Hand({})
    /\ UNCHANGED <<standard, batch, attempt, delay, results, completed, scored>>

Done == ~Running /\ UNCHANGED vars

Next ==
    \/ LaunchBatch \/ LoadDatasets \/ LoadFails \/ Sleep
    \/ Evaluate \/ EvaluateFails \/ WriteResults \/ MetricsFail
    \/ FinishBatch \/ CancelJob \/ Done

\* Delays end, downloads end, and a provider answers or falls silent, which
\* sock_read turns into an error (lemonade_model.py:75-91).
Spec ==
    /\ Init /\ [][Next]_vars
    /\ WF_vars(LaunchBatch \/ LoadDatasets \/ LoadFails \/ Sleep \/ Evaluate
               \/ EvaluateFails \/ WriteResults \/ MetricsFail \/ FinishBatch)

-----------------------------------------------------------------------------
(* Properties.                                                             *)

\* A ranked entry is of a job of a recognised profile that ran to its end: all
\* its batches completed, and every required task was written from answers to
\* all its requests and has a metric to score (README.md:183-186,
\* results.py:449-475).
RankedMeansWhole ==
    LeaderboardEntry.rank_eligible =>
        /\ standard /\ Calls = ProfileTasks
        /\ completed = Len(TaskBatches)
        /\ \A t \in ProfileTasks : scored[t] # "none"
        /\ \A t \in ProfileTasks : results[t] \in {"canonical", "fallback"}

\* Repairing the cache removes corrupt directories only (README.md:123-124,
\* lm_eval_runner.py:130-178).
RepairKeepsData ==
    [][\A d \in Dirs : dirs[d] = "intact" => dirs'[d] = "intact"]_vars

\* A job that is left alone ends, whatever fails (lm_eval_runner.py:206-242).
JobEnds == <>(~Running)

\* What the preflight says of a job (smoke-all-models.py:126-140): it passes
\* when every response had final content and none reached its limit.
Passed ==
    /\ status = "succeeded"
    /\ telemetry.responses > 0
    /\ telemetry.final = telemetry.responses
    /\ telemetry.limited = 0

\* "The preflight fails any model that does not return final answer content
\* for every request" (README.md:222-225).
PassedMeansAnswered ==
    Passed => \A t \in Calls : scored[t] = "text"
=============================================================================
