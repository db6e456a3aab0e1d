# lm-eval-webui in TLA+

TLA+ models of lm-eval-webui's job manager, results service, HTTP server,
browser page, lm-eval runner and SWE Mini runner, the TLC runs that check them
on small instances, and the TLAPS proofs of what holds for every size. Paths without a
directory are files of `src/lm_eval_webui/`; `app.js` is `src/static/app.js`,
`run-swe-mini.sh` is in `src/scripts/`, and README.md:n in the modules means the
repository's own README.

    tlc -workers 2 -config JobLifecycle_cancel.cfg MCJobLifecycle.tla
    tlc -workers 2 -config SweRunner.cfg SweRunner.tla
    tlapm SweRunnerProofs.tla

## 1. The system

lm-eval-webui is one Python process that queues benchmark jobs for models
served by Lemonade, launches each job as a subprocess, and shows the results in
a browser. Nothing but the file system is persistent.

| Component | State | Operations |
|---|---|---|
| Job manager (`jobs.py`) | one JSON file per job; in memory `_pending_jobs`, `_active_jobs`, `max_concurrent_jobs`, `_cancel_events`, `_active_processes` | create, rerun, cancel, clear; scheduler loop; one worker thread per running job; reconciliation at start |
| Model protection (`jobs.py`, `lemonade.py`) | the `model_protection` field of a job; the pins at the Lemonade server | load and pin, unpin, release after a restart; the SWE Mini runner moves the pin to a judge model and back |
| Results (`jobs.py`, `results.py`) | one summary file per job; `_results_generation`, `_results_building`, `_results_cache` | build the snapshot once for concurrent requests, invalidate it when a job finishes or is cleared |
| HTTP server (`server.py`) | response cache, task catalogue, 16 request slots | GET and POST handlers, each on a pool thread; a request without a slot is refused |
| Browser (`app.js`) | the jobs, leaderboard and rows it last saw; requests in flight | polls the jobs, reloads results when a job reaches a terminal state, coalesces requests of one kind, fetches rows by page |
| SWE Mini runner (`run-swe-mini.sh`, `docker-ownership.sh`, `swe_mini.py`) | result files per task and attempt, the aggregate summary, one container, the pin | works through tasks and attempts, hands the pin to a judge and back, waits for abandoned requests, cleans up on a signal; the application collects the results |
| lm-eval runner (`lm_eval_runner.py`, `runner.py`) | the datasets cache on disk | retries transient dataset errors, repairs a corrupt cache |
| lm-eval model adapter (`lemonade_model.py`) | lm-eval's semaphore, the telemetry file | concurrent streamed requests; the answer that is scored |
| Merged results and smoke test (`results.py`, `smoke-all-models.py`) | none | leaderboard entry of a job's batches, its rank; what a preflight concludes |
| Lemonade Bench (`lemonade_bench.py`, `lemonade_bench_proxy.py`) | result files of one run | reads the outcome; the proxy forwards requests |

How they interact. Request threads, the scheduler thread, the workers and one
kill timer per terminated process share the memory of the job manager under
`_queue_condition`, `_process_lock` and the lock of the file helpers, but **no
lock spans the reading of a job file and the writing of it**: a thread reads a
file into a dict, works with the dict for as long as it likes, and replaces the
file. The worker keeps its dict for the whole job. What a cancel must achieve
therefore rests on the event of the job, which every worker looks at between
its steps, and on `_write_job`, which writes *cancelling* for a job it is told
to write as *running* when the event is set (jobs.py:1989-1998). Results flow the other
way: the workers and the clear requests bump a generation counter, and the
request that builds the snapshot compares it before publishing.

What is hard here:

* stale copies of job files, held by cancel requests, workers and, for SWE
  Mini jobs, by requests for results;
* a cancel at every point between the creation of a record and the exit of a
  process, with the process registered only after it was started;
* stops of the application at every point, and recovery from the files alone;
* calls to Lemonade that fail, or succeed and lose their reply;
* the slot count, given back on each of many ways out of a worker;
* a build of results that runs without a lock while jobs finish and are
  cleared, that fails, or that is overtaken;
* permits and slots that are acquired in one place and given back in another,
  past errors, retries and cancellations;
* an agent whose request timed out and that the host still works on, and a pin
  that is handed over by calls whose answers are lost;
* results collected by two threads and a dying script at once.

Correctness, per component. *Queue*: jobs start in order of submission, within
the limit, each once; what was cancelled while it waited does not start; the
slot count is right; every queued job leaves the queue. *Workers*: a record
that says running has a worker; a process whose record says cancelling has been
or will be signalled; a cancelled job ends. *Restart*: no queued record is
lost, no running record stays running. *Protection*: a pin has a job
responsible for it, and the model stays pinned as long as that job needs it. *Results*: a request is
answered with what was announced before it came, one request builds at a time,
every request is answered. *HTTP server*: slots are given back, the catalogue
is loaded once by one caller, every accepted connection is closed. *Browser*:
a board that replaces another loses nothing that had been announced. *lm-eval jobs*: the answer scored is the model's
final content, permits balance, each response leaves one event, the repair of
the cache takes only what is corrupt, a ranked entry is of a whole run, the job
ends. *SWE Mini runner*: an agent works with a pinned candidate and without a
stale request beside it, a task passes only by an attempt that passed, the
summary has every result, nothing outlives the job, the job ends.

`PROJECT.json` lists the components with their status and the hazards with
their lines.

## 2. The modules

    JobQueue         what the scheduler promises
    JobLifecycle     the job manager, with the Lemonade server and the processes
      MCJobLifecycle       values for its constants
      SchedulingProofs     types, slots, and the refinement of JobQueue
        DispatchProofs       slots go to queued jobs
          OwnershipProofs      files, workers and cancels agree; pins last
    ResultsCache     the results service and the response cache
      ResultsProofs        types, freshness, the single builder
      BrowserRefresh       one page of the browser in front of it
        MCBrowserRefresh     symmetry of the request threads
        BrowserProofs        the page is a client of the service; its boards
    HttpServer       the pool of request workers and the task catalogue
      HttpServerProofs     counts of the pool, the single loader
    ModelCall        the requests of an lm-eval run and the answers it scores
      LmEvalJob            a job's batches, datasets, metrics and rank
        MCLmEvalJob          its tasks, and what models say
        LmEvalProofs         types, permits, events, answers, repair, rank
    SweTask          one attempt at a SWE Mini task in its container
      SweRunner            the script around it, and the collection of results
        SweRunnerProofs      pins, overlaps, passes, the end of a job, its summary

The three groups `JobLifecycle`, `ResultsCache`, and the last two, look at the
same jobs at different scales. `JobLifecycle` has every lock and file write of
a worker and leaves open what its process does; `LmEvalJob` and `SweRunner` have
the process and take the worker's bookkeeping in larger steps; `ResultsCache`
knows only how far a job has come.

### JobLifecycle

A step is a stretch of code between two points at which another thread can act:
a section under a lock, one replacement of a job file, one call to Lemonade,
one launch of a process.

| Variable | In the code |
|---|---|
| `record` | the job files, reduced to `status` and `model_protection.status` |
| `issued` | the job ids in the order of `created_at` |
| `pendingJobs`, `activeJobs`, `maxConcurrentJobs`, `cancelEvents`, `activeProcesses` | the attributes of `JobManager` of these names |
| `worker[j]` | the thread of `_run_scheduled_job`: where it is, and the dict it holds. `stamped` tells whether `_write_job` has already compared the dict with the event but not yet replaced the file |
| `process` | the benchmark processes of the operating system |
| `pins` | the Lemonade server's pinned models |
| `caller[c]` | a request thread: its operation, the records it read (`snap`), and what is left to write (`todo`, `writing`) and to signal |
| `mode`, `recovery` | where `JobManager.__init__` is, and the jobs it has yet to handle |

Actions: `Dispatch` is a turn of `_scheduler_loop`. The worker's actions follow
`_run_job` in program order: `ReadRecord`, `CheckCancelled`, `LaunchEnv`,
`WriteStarted`, protection (`WritePinning`, `LoadModel`, `WritePinResult`), the
task batches of an lm-eval job or the one process of the others (`Launch`,
`Register`, `HeedCancel`, `Reap`), `Settle`, release (`UnpinJudge`,
`WriteReleasing`, `UnpinModel`, `WriteReleased`), `WriteFinished`, `Exit`.
Requests are `Submit`/`CreateRecord`/`Enqueue`, the four steps of a cancel, the
two of a clear, the three of a request for results that writes a SWE Mini
record back. `Restart` stops the application in any state; `Boot` is
`_reconcile_jobs`, the start of the scheduler, and the enqueueing of what was
queued.

Abstractions, and why they lose nothing the properties look at:

* The deployed configuration only: `run_async`, the default launcher and
  `protect_models`. The synchronous path is for tests.
* What a record holds besides status and protection is left out: command,
  progress, telemetry, file names. Whether collecting results raises is a
  free choice in `Settle`.
* `_raise_if_cancelled` twice in a row, with nothing in between, is one look at
  the event; so are the looks before and after the collection of results, of
  which only the last decides.
* `_cancel_event(job_id).set()` is one step; the two short locked sections in it
  only create the event if there is none.
* A rerun is a check of the old record followed by a creation. Creating jobs
  for several models is several creations.
* `_run_swe_mini_job` and `_run_lemonade_bench_job` go through
  `_launch_command` once; containers, the task-target directories of a SWE Mini
  job and the use an orphaned process makes of Lemonade are left out.
* The SWE Mini runner appears as a process that pins and unpins the candidate
  and the judge in any order (`SwitchPin`), which allows all that `SweTask`
  does with the pin.

### JobQueue

Waiting jobs, running jobs, cancelled jobs and the limit. `JobLifecycle`
implements it with `waiting <- pendingJobs`, `running <- Live` (the jobs with a
worker thread), `cancelled <-` the jobs whose event is set. `SetLimit` is free,
because any request may set it; a restart is `Reset`.

### ResultsCache

| Variable | In the code |
|---|---|
| `record` | the job files, reduced to five stages: none, active, ended (terminal, worker still releasing), finished (last write), cleared |
| `worker`, `clearing` | where `_run_job`'s last writes, and a clear request, are |
| `summary` | the summary files, by the stage of the record their key was made from (jobs.py:581-594) |
| `generation`, `building`, `cache` | `_results_generation`, `_results_building`, `_results_cache` |
| `responses` | `JsonResponseCache`: its generation and its entries |
| `reader[r]` | a request thread: where it is in `results_snapshot`, the generation and snapshot it holds, the jobs it has yet to summarise |
| `announced` | history: what the files held at each invalidation |
| `reborn` | history: the jobs whose file was written again after a clear |

`Enter` and `Wake` are the section under the condition at the top of
`results_snapshot`, before and after a wait. `ReadJobs`, `Summarize` and
`Publish` are the build, which holds no lock; `BuildFails` is its exception;
`Respond` is `JsonResponseCache.get_or_create`. Which entry the response cache
drops when it is full is left open (the code drops the one used longest ago).
`MayClear` holds the one artificial bound of the module: a job whose file came
back after a clear (`reborn`) is not cleared again. SWE Mini jobs are left out here: the record a
build writes back for them is in `JobLifecycle`.

### BrowserRefresh

Extends `ResultsCache` with one page of `app.js`, whose requests for the
leaderboard are requests of `ResultsCache`, step by step.

| Variable | In the code |
|---|---|
| `jobs` | `state.jobs`, as stages of the job files |
| `poll` | the call of `loadJobs` under way, with its `previousStatuses` |
| `asked`, `fetching` | the entry "leaderboard" of `inFlightRequests`: about to be sent, or served by a request thread |
| `board` | `state.leaderboard`, and whether an error message replaced it |
| `watched` | history: the jobs the page has known as active |
| `news` | history: what had last been announced when the board was shown |

`LoadLeaderboard` is a call of `loadLeaderboard`, which joins the request under
way; `PollAnswered` is the rest of `loadJobs` once the list is there, and calls
it when it sees a job end; `CancelAnswered` and `ClearAnswered` are the answers
to the buttons. `FetchFails` is an error answer, or the timeout of the page
(app.js:389), after which the request thread goes on alone (`ServerStep`).

The page has the answer to a request for the list of jobs at the moment the
server reads the files. In the code it comes later, and two lists (of a poll
and of a button) may come in the wrong order; what the page shows of jobs
between is not looked at by the properties, and a call to reload that comes
later is also reached by `ClearAnswered` at that time. Left out: the refresh
buttons, the reloads after a start or rerun of jobs, the pages of a result
table, and a page that is opened while jobs exist.

### HttpServer

| Variable | In the code (server.py) |
|---|---|
| `conn[c]`, `wants[c]` | how far a connection has come in `process_request` and `_process_request`, and what it asks for |
| `slots`, `active` | `_request_slots`, `_active_requests` |
| `queue`, `threads`, `idle` | the `ThreadPoolExecutor`: work submitted, threads started, threads without work |
| `tasks`, `loading` | the attributes of `TaskCatalogCache` of these names |
| `reader[c]` | where a caller stands in `TaskCatalogCache.get`; `Prewarm` is the thread that warms the catalogue |
| `failures` | how many loads have raised, bounded by `LoadFailures` |

`RefuseBusy`, `AcquireSlot`, `CountRequest` and `Submit` are the steps of the
accepting thread; `TakeWork`, `FinishRequest`, `UncountRequest` and
`ReleaseSlot` those of a worker; `ThreadIdle` is the executor's thread getting
ready again, after the slot is already free. `LookUp`, `LoadTasks` and
`LoadRaises` are `get` with its condition. The executor is the standard
library's (external). The two halves are composed because a request that waits
for a load keeps its slot. Left out: routing and validation, static files,
shutdown.

### ModelCall and LmEvalJob

| Variable | In the code |
|---|---|
| `concurrency`, `permits`, `call`, `tries` | `num_concurrent`, lm-eval's semaphore, and each request: waiting, streaming, answered, failed or cancelled, after how many failures |
| `answer`, `meant` | what `parse_generations` returns; history: what the model meant as its answer |
| `telemetry`, `received` | the counts of the events of the telemetry file; history: the responses read |
| `status`, `batch`, `completed`, `process` | the job and the process of its present batch (jobs.py:1302-1413) |
| `attempt`, `delay`, `dirs` | the retry loop of `lm_eval_runner.py` and the datasets cache |
| `results`, `scored` | the metrics in the merged result files; history: whether they were made from answers |
| `standard` | whether the job's options are those of a built-in profile |

Text is a sequence of fragments: thinking tags, stop strings, line breaks,
words. A response is a *plan* of what the model would say, cut by the limit and
stop strings of the request's payload (`Generated`) or by a connection that
closes early (`Delivered`); `StreamResponse` folds it, `ParseGenerations`
computes the answer through `SplitThinking` and `TruncateAtStop`. The reference
definition is `Meant`, which knows what each fragment was meant as. A model
first thinks, in a field of its own or between the tags of a pair, and then
answers (`ThinksThenAnswers`); the adapter has no way to tell an answer with a
closing tag in it from thinking, and nothing is claimed for one.

`LaunchBatch`, `LoadDatasets`, `LoadFails`, `Sleep`, `Evaluate`,
`EvaluateFails`, `WriteResults`, `MetricsFail`, `FinishBatch` follow one
process after the other; `CancelJob` kills it at any point. lm-eval itself is
external: it hands over the requests of the batch, retries each, cancels the
others when one has failed for good, and writes metrics, of which each task has
the canonical, only a fallback, or none that is finite. `LeaderboardEntry` is
computed from the merged results as `results.py` does. Each task has one sample.

### SweTask and SweRunner

| Variable | In the code |
|---|---|
| `mode` | what `swe_mini_model_lifecycle_env` and the job's judge give: no pins, one model, or the handoff |
| `box`, `verdict`, `code` | what the container does, what the attempt has come to, how the container exited |
| `pins`, `busy` | the pins at the host; requests that were given up and that it still works on |
| `script` | `run-swe-mini.sh`: where it is, its task, its attempt, its exit status |
| `source`, `sourceSum` | the script's result files and its summary |
| `runs`, `runsSum`, `tmp` | the same in the job's run directory, and `summary.json.tmp` |
| `worker`, `reader` | the worker that collects the results, and a request for the leaderboard that does so too, each with its copy of the job |
| `record`, `filed` | the job's record, and the key of its summary |
| `cancel`, `lister` | how far a cancellation is; the thread that lists the job's containers |
| `unsure`, `raced` | history: a handoff was seen to fail; worker and request collected at once |

`SweTask` is the code that the script patches into pi-bench: `Drain`, `Unpin`,
`Load`, `JudgeAnswers`, `AwaitJudge` and `Restore` are the handoff, each with
the ways its calls can fail. `SweRunner` adds the script's loop (`NextTask`,
`BoxExits`, `CandidateIdle`, `DrainTimeout`, `WriteFinal`, `Complete`), its
`Trap`, the collection in its three steps (`Collect`), the last look at the
cancel event (`WorkerLooks`), the release and last write (`WorkerFinishes`),
the request that writes the record back (`StoreRecord`), the cancellation
(`CancelJob`, `Kill`, `ListContainers`) and `Restart`. Copying a directory is
one step, or fails the request when the script is writing (`ReaderFails`).
pi-bench, the agent, the judge and Lemonade are external.

## 3. The runs

Every run explores the whole state space of its instance.

| Run | Instance | Checks |
|---|---|---|
| `cancel` | one lm-eval job in two batches, two requests at a time, Lemonade answers ok, unsupported or with an error | `TypeOK`, `RunningIsOwned`, `CancellingIsHeard`, `PinHeldAcrossBatches`, `SlotsGoToQueuedJobs`, `CancelCompletes` |
| `restart` | a Lemonade Bench and a SWE Mini job with its judge, one request at a time, stops at any point | `QueuedIsTracked`, `SlotAccounting`, `QueueDrains`, `ImplementsQueue` |
| `results` | one job, two readers, two keys, room for one response, clears, failing builds, restarts | `TypeOK`, `AnswerIsFresh`, `OneBuilder`, `RequestsEnd` |
| `board_order` | one job, a page with its buttons, two request threads, failing and timed-out requests, restarts | `PageTypeOK`, `BoardKeepsUp` |
| `server` | three connections for two workers, two suites, the prewarming thread, one load that raises | `TypeOK`, `SlotPerRequest`, `ActiveIsExact`, `NoRequestWaitsForAnother`, `OneLoader`, `LoadedOnce`, `AcceptedEnds` |
| `lm_eval` | three tasks in two batches, one or two requests at a time, two tries of each, one retry of the datasets, two dataset directories | `TypeOK`, `RankedMeansWhole`, `AnswerIsFinalContent`, `PermitsBalanced`, `OneEventPerResponse`, `RepairKeepsData`, `JobEnds` |
| `swe` | two tasks with two attempts, a host that keeps one model, another model as the judge; a request, a cancellation and restarts at any step | `TypeOK`, `AgentIsProtected`, `NoStaleOverlap`, `PassIsEarned`, `SummaryIsWhole`, `NothingOutlivesTheJob`, `JobEnds` |

Why the bounds are enough for what the runs are about. `cancel`: the hazards of
a cancel are between one worker and the requests about its job; two requests
give a cancel beside a cancel, and a clear beside a cancel; two batches give a
cancel before, in, between and after processes. `restart`: two jobs are the
least with which one waits for the other's slot; a Lemonade Bench and a SWE Mini
job take between them the limit of one, a failing environment, the judge and the
free choice of `SwitchPin`; the counts of slots and the queue are proved for
larger limits. `results`: a second reader is what waits, what
builds beside, and what empties the response cache under the first; one job goes
through all stages, is cleared, and may come back; room for one of two responses
makes the cache drop. `board_order`: the second thread is another page's
request, or the one this page gave up on and that is still at work; without
clears (`Clears`), which make the instance too large, the invalidations are
those of the job's end and of a restart. `server`: a third connection is the one
that is refused, or that comes between the release of a slot and the moment its
thread is idle; two of the three callers of one suite wait while the third loads
it, and the load may raise. `lm_eval`: the first batch has two requests, so that
one fails while the other streams; what a model says (`MCLmEvalJob!OneBlock`)
has at most one block of thinking, in a field or in either kind of tags, with a
stop string or a line break in it, before each arrangement of word, line break
and stop string; the limit of tokens lies inside the longer ones and every
length at which a connection may close is taken; the second task has a stop
string the first has not. `swe`: two tasks are one that passes behind one that
comes; two attempts are one that fails before one that decides; a host that
keeps one model is the one on which a pin that is not given back makes the next
load fail. What does not depend on a small instance is proved (section 4).

Fairness. `FairSpec` assumes that threads that can run do run: the scheduler,
the workers, the start-up, and a request once it has begun. For a worker that
includes the calls to Lemonade, which have timeouts. A process that was
told to terminate ends, because `_kill_after_grace` sends SIGKILL
(jobs.py:1005-1019). Nothing is assumed about a benchmark ending by itself,
about clients sending requests, or about stops; `CancelCompletes` holds without
any of it. `EndingSpec` adds that benchmarks end, which `QueueDrains` needs: a
benchmark that never ends keeps its slot, and the code has no timeout for it.
`RecoveringSpec` of `ResultsCache` adds that builds fail only finitely often;
a request that fails is answered too, so `RequestsEnd` needs it only to rule
out two requests that fail and come back for ever while a third waits. The
request is also overtaken only finitely often, for an instance has finitely
many jobs and clears between two stops.

`LmEvalJob` assumes that its process goes on: delays and downloads end, and a
provider answers or falls silent, which `sock_read` turns into an error
(lemonade_model.py:75-91). `HttpServer` assumes that its threads run, that a
load ends (90 seconds, server.py:674) and that a handler does (sockets have a
time limit); nothing makes clients connect. `SweRunner` assumes that something
the job is made of goes on (`Progress`), not which part: the script's waits have
deadlines (run-swe-mini.sh:183, 214), the worker waits for the script, and after
a cancellation the kill timer fires. Requests, the host and the operator may do
nothing, so `JobEnds` holds on a host that never ends an abandoned request.

A stop of the application empties the queue, so it satisfies `QueueDrains` for
the jobs that were pending; what the run shows is that between two stops, and
after a last one, every pending job leaves the queue through the scheduler. That
the stop loses none of them is `QueuedIsTracked`.

What some properties leave out, and why:

* `RunningIsOwned`, `QueuedIsTracked`, `CancellingIsHeard` and
  `CancelCompletes` are about jobs other than SWE Mini: a request for results
  writes a SWE Mini record back as it read it (jobs.py:1937), so its status can be old.
* `CancelCompletes` is about jobs that have a worker. A record can also say
  cancelling with no worker left, when the cancel read it just before the worker
  wrote the end; only a restart or a second cancel changes that. It is in the
  list of hazards.
* `AnswerIsFresh` exempts `reborn` jobs, whose file came back after a clear.
* `PinHeldAcrossBatches` is checked with one job. With two jobs of one model the
  first to end unpins it under the second, although the repository's
  README.md:234-236 promises the pin across every batch. Likewise, that a
  Lemonade Bench job runs alone (README.md:51-52) is false when a later
  submission raises the limit. Neither has a run any more.
* `AgentIsProtected` exempts the time after a handoff that the script saw fail:
  the candidate is unpinned outside the try block (run-swe-mini.sh:550), and the
  script goes on with the next attempt all the same.
* `BoardKeepsUp` compares a board with what had been announced when the board
  before it was shown, not with that board. A board can lose what was not yet
  announced: a generation can have two snapshots, the second made by a request
  that waited for a build with an older generation (jobs.py:331-341), and a
  response made from the first can be filed in the response cache after the
  second was answered (server.py:404-424). It takes three request threads and
  two jobs, more than `board_order` has; no document promises otherwise.
* `SummaryIsWhole` exempts a killed script, and jobs whose collections by the
  worker and by a request overlapped: they share `summary.json.tmp`, and the
  older summary may replace the newer one.
* `OneEventPerResponse` counts responses that were read to their end; a
  response that a closed connection cut short is one of them.

### Where the documents and the code disagree

Five runs each show one sentence of the repository refuted. They are listed
with their lines in `PROJECT.json` under `findings`.

| Run | Sentence | What happens |
|---|---|---|
| `cleared_reappears` | README.md:278, clean-up removes the metadata | a job can be cleared while its worker releases the model; the worker's next write creates the record again |
| `cancelled_unsignalled` | README.md:133-134, the processes of cancelled jobs receive SIGTERM | a job read as queued and started before the cancel writes it is recorded as cancelled and never signalled |
| `stale_board` | README.md:141, leaderboard data is refreshed when jobs reach a terminal state | the page that sees a job end joins a leaderboard request in flight, whose answer is from before the end; nothing asks again |
| `preflight` | README.md:222-225, the preflight fails any model that does not return final answer content for every request | the event of a response is written before its stop strings are known: an answer that starts with one is scored as empty and counted as final content |
| `results_left` | README.md:253-255, summaries are rebuilt from every completed per-task artifact | a leaderboard request during the job writes its output path back; after a restart the results written since are not copied |

## 4. The proofs

All are for arbitrary constants under the named assumptions of the modules
(`JobsAssumption`, `ModelsAssumption`, `LimitsAssumption`,
`RepliesAssumption`; `ResultsAssumption`, `PressesAssumption`;
`ServerAssumption`; `CallAssumption`, `PlansAssumption`, `JobAssumption`;
`RunnerAssumption` and `SweTask`'s `ModelsAssumption`), and cover restarts,
failing calls and every interleaving. Every invariant and every action property
that a passing run checks is the subject of a theorem.

**Types** (`SchedulingProofs!TypeCorrect`, `ResultsProofs!ResultsTypeCorrect`).
By themselves inductive. In `ResultsCache` this includes the bound of the
response cache, which needs that an entry is dropped for each one added when
the cache is full, stated with cardinalities (`OneMore`).

**Slots** (`SchedulingProofs!SlotsAreCounted`). `SlotAccounting` is not
inductive: `Exit` subtracts one unless the count is zero, and `Dispatch` gives a
worker to the head of the queue, so one has to know that the head has no worker
already. `OnePlace` says that a job is at most at one of these places: with the
request that creates it, among the jobs to requeue after a restart, in the queue
(once), or with a worker. `QuietBoot` says that nobody is at work while the
application comes up. `SchedulingInv` is the two with `TypeOK` and
`SlotAccounting`.

**The queue** (`SchedulingProofs!QueueIsImplemented`). With `SchedulingInv`
each step of the job manager is a step of `JobQueue` or leaves its variables
alone: `EnqueueJob` is `Submit` because a job in no other place is not pending,
`Dispatch` is `Start` or `Drop`, `Exit` is `Finish`, `Restart` is `Reset`, and
a cancel is `Cancel`, whatever the job is doing. A `Requeue` after a restart is
a `Submit` again.

**Slots go to queued jobs** (`DispatchProofs!SlotsGoToTheQueued`). The property
is about a record, and records are written by requests that hold stale copies,
while the scheduler looks only at the event. `ExpectedIsQueued` says that the
two cannot disagree: a job that is being enqueued, pending, or to be requeued
has its event set, or a record that says queued and no request about to
overwrite or remove it. A cancel that has read the job and not yet set the event
is harmless, since it sets the event before it writes, and `EnqueueJob` keeps an
event that is set; a clear or a request for results takes no queued job.
`OnlyIssuedJobs` and `FreshJobs` say that nobody holds a copy of a job that has
no record yet. `DispatchInv` is these with `SchedulingInv`.

**Job files and their owners** (`OwnershipProofs!OwnershipInvariant`, then
`RunningFilesAreOwned`, `QueuedFilesAreTracked` and `CancelReachesProcess`). The
file of a job is written by its worker, by the request that creates it and by
requests that cancel or clear it, each from its own copy and without looking at
the others. `OwnershipInv` follows the cancel event through this: it is set
before any file says cancelling (`EventFits`) and stays set while the job has a
worker; a worker only ever writes the statuses of its stage, none of them
"queued" (`CopyFits`); a process runs only under a worker that registers it,
looks at the event again, or waits (`ProcessFits`); a file that says running has
a worker or a restart that will replace it (`FileFits`), one that says queued
has somebody who will get to it (`QueuedFits`); and a request holds one file at
a time (`RequestFits`). Between the write of "cancelling" and the signal, either
the request still has to signal or the worker has yet to look. Jobs of the SWE
Mini suite are left out, as in the properties: a request for results may write
back an old copy of theirs, which is one of the listed hazards.

**Pins** (`OwnershipProofs!PinsLast`). Pins are not counted, so the theorem
assumes `OwnModels`: no other job has the model of this one, as its model or its
judge. `PinFits` then needs only that a worker that reads its file has not
pinned yet, and that a job that says "pinned" holds its pin until it unpins.

**Freshness** (`ResultsProofs!AnswersAreFresh`). `FreshInv`: announcements are
ordered (a later one is of newer files); the files are at least as new as the last
announcement; the snapshot, each cached response, and whatever a request holds
are as new as the announcement of the generation they carry; and the generation
a request carries lies between the one at which it came and the current one.
The build keeps it because it reads the files after it took its generation;
`Publish` keeps it because it compares the generations; `Respond` because an
entry of the cache belongs to the generation of the cache; and the order of
announcements turns "as new as the generation it carries" into "as new as the
generation at which it came". `FilesInOrder`, the part about the workers'
writes, is what makes files only get newer, except for `reborn` jobs.

**The single builder** (`ResultsProofs!SingleBuilder`). Inductive together with
the types.

**The request pool** (`HttpServerProofs!ServerInvariant` and its consequences).
Each count the code keeps is the number of connections in certain states
(`PoolInv`), and a step moves one connection and changes each count by what the
code adds or takes. `NoRequestWaitsForAnother` is the hard one: the executor
starts a thread only if none is idle and the limit is not reached, and a slot is
given back before its thread is idle. `ExecutorCounts` ties the queue to the
connections that were submitted and the idle threads to those that are not busy;
with them a free slot implies a thread that is past its request, idle or not.

**The catalogue** (`OneCallerLoads`, `SuitesAreLoadedOnce`). `CatalogInv`: a
suite is in `_loading` exactly while one caller loads it, it has no list then,
and whoever waits waits for such a suite.

**The page** (`BrowserProofs`). `PageIsAClient`: every step of the page and of
its requests is a step of `ResultsCache` or leaves its variables alone, so that
what is proved of the service holds behind the page. `BoardsKeepUp`: the
freshness of answers is about announcements made before a request, the property
about two boards. `PageInv` joins them through `news`: what had been announced
when the present board was shown is no newer than the last announcement
(`NewsIsAnnounced`), and no newer than what was announced when the request under
way was begun (`FetchIsLater`), because that request was begun after the board
was shown. This is where it matters that only one request is under way, and
`PageTypeCorrect` states it. Announcements are never taken back
(`AnnouncedGrows`), except for `reborn` jobs.

**lm-eval jobs** (`LmEvalProofs`). `PermitsAreBalanced`: a step moves at most
one request, into or out of *streaming*, and the permit goes with it; a run that
is handed over starts from a full semaphore. `RepairLeavesIntact`: every write
to `dirs` is one of four, none of which touches an intact directory.
`RanksAreWhole`: a rank is computed at the end, so `RankInv` says for each batch
what is known of its tasks: metrics come from answers, and a job has succeeded
only when its last batch has exited. `JobTypeCorrect` has the limits in it: the
permits stay between none and all, which needs the balance and that a request
made alone takes none; the tries of a request stay within its attempts, which
needs that one is only made while an attempt is left (`AttemptLeft`); and a delay
stays under its cap. That a power of two is a number follows from the size of
the set of subsets of an interval (`PowersAreNumbers`). `EventsAreSingle`: the
fold over the events of a response is a fold over one (`FoldOfOne`), because
what was recorded while the stream was read is not recorded again.

**Answers** (`LmEvalProofs!AnswersAreOwn`, `AnswersAreFinal`). The first says
that what is scored for a sample is the answer of a response to its own request,
parsed with its own stop strings: no retry, no concurrent request and no earlier
run gets into it. The second adds what the parsing does, for every plan that
thinks and then answers, whatever its length, its stop strings, the limit, and
the delta at which the connection closes. What arrives is a prefix of the plan
(`PrefixIsDelivered`), of which the first `a` deltas are thinking (`CutPlan`):
in a field of its own, which stays out of the content (`FieldIsNotScored`), or
between tags, of which the closing one may be missing (`SplitAfterTags`). Then
both `FinalAnswer` and `Meant` come down to the texts after `a` (`Scored`), since
removing leading line breaks twice is removing them once (`LStripIsText`). The
texts are collected by a recursive function. The library's induction theorems
take an operator and cannot be used with these provers, so `SpanIsKept` compares
the function with its closed form and takes the least number at which they would
differ; that there is one (`LeastNumber`) follows from the well-foundedness of
the numbers, which the library states without an operator.

**SWE Mini jobs** (`SweRunnerProofs!SweInvariant`). `SweInv` says of every
combination of script, container, host and worker that is reachable what the
others may be. `ScriptAndBox`: the container runs only for a task of a script
that waits for it or has died. `AttemptsInOrder`: the files of the current task
are those of the attempts before this one, none of them a pass, so that `Best`
chooses the last (`BestIsAnAttempt`). `PassHasAttempt`: so does every earlier
pass. `PinIsBack` follows the pin through the handoff; the steps in the middle
of it are left out, because there the candidate is without its pin.
`GivenUpMeansOver`: an agent's request that was given up is accompanied by a
container that timed out or a script that drains, so no agent starts before it
has ended. `EndInOrder`: a script that ends takes its container along, and the
worker waits for it. `BoxStepMoves` reduces the eight steps of the container to
what the invariant needs of them.

**The summary of a SWE Mini job** (`SweRunnerProofs!SummariesAreWhole`). Two
threads, the worker and a request for results, copy the script's files to the
run directory and make the summary there, while the script may still be at
work. `SummaryInv` is about jobs whose collections did not overlap and whose
script was not killed (`Calm`). Each thread copies once, and the order does not
matter: a request that copies before the worker leaves a record that says
"found", and the worker copies all the same; one that copies after it finds what
the worker left (`ReaderCopiesOnce`). The script's directory no longer changes
once the script is dead, so after the worker has copied the run directory has
every file of it (`WorkerHasCopied`); what a thread holds on its way to the file
is the summary of the run directory (`Holds`); and so is the file when the worker
is done (`IsSummed`). The number that passed is a cardinality of file names on
one side and of tasks on the other (`PassesAreCounted`).

Only model-checked: the liveness properties (`CancelCompletes`, `QueueDrains`,
`RequestsEnd`, `AcceptedEnds`, both `JobEnds`), which rest on fairness and
`ENABLED`, out of reach of the provers. The five findings are counterexamples
and stay with TLC.

## 5. Not modelled

* Lemonade Bench's adapter and proxy: the job runs in `JobLifecycle`; the
  adapter builds a command and reads one file, the proxy forwards one request at
  a time, and neither keeps state between steps that could interleave.
* The command line, the deployment files, the building of the SWE Mini image and
  the ownership of its files: configuration and I/O, no state of the program.
* The pages of a result table, forms, logs and rendering in `app.js`: a page is
  a request of its own, whose offsets depend on an order of rows that
  `ResultsCache` leaves out.
* The values of scores, token usage, timings and several choices in one
  response: numbers that no control depends on.
* The discovery and submission of the smoke test; its conclusion (`Passed`) is
  in `LmEvalJob`.
* Validation of requests, static files, and the shutdown of the server.
