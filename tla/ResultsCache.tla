---------------------------- MODULE ResultsCache ----------------------------
(***************************************************************************)
(* How results reach the reader of /api/leaderboard and /api/results: the  *)
(* job files and the summary files that the worker threads write and the   *)
(* clear requests remove, the snapshot that one request thread builds for  *)
(* all of them (jobs.py:321-351), the generation counter that invalidates  *)
(* it (jobs.py:483-487), and the cache of serialised responses in front of *)
(* it (server.py:395-424).                                                 *)
(*                                                                         *)
(* What a job file holds for its results is one of five stages, in the     *)
(* order a job goes through them; two files of one stage have the same     *)
(* summary key (jobs.py:581-594).  SWE Mini jobs, whose partial results a  *)
(* build writes back into the job file, are left to JobLifecycle.          *)
(***************************************************************************)
EXTENDS Naturals, FiniteSets

CONSTANTS
    Jobs,        \* job identifiers
    Readers,     \* HTTP request threads that read results
    Keys,        \* cache keys: the leaderboard and each page of rows
    MaxEntries,  \* JsonResponseCache.max_entries
    Restarts,    \* may the application stop and start again?
    Clears       \* are jobs cleared?

ASSUME ResultsAssumption ==
    /\ MaxEntries \in Nat \ {0}
    /\ Restarts \in BOOLEAN
    /\ Clears \in BOOLEAN

VARIABLES
    record,      \* the stage of each job file
    worker,      \* the worker thread of each job
    clearing,    \* the clear request about each job
    summary,     \* the stage each summary file was built from
    generation,  \* _results_generation
    building,    \* _results_building
    cache,       \* _results_cache
    responses,   \* JsonResponseCache: its generation and entries
    reader,      \* the request threads
    announced,   \* history: the job files at each invalidation
    reborn       \* history: jobs whose file was written after a clear

diskVars  == <<record, worker, clearing, summary, reborn>>
cacheVars == <<generation, building, cache, announced>>
vars == <<diskVars, cacheVars, responses, reader>>

\* "ended": the status is terminal and the result files are known, but the
\* worker is still releasing the model.  "none" and "cleared": no file.
Stage == {"none", "active", "ended", "finished", "cleared"}
Rank  == [none |-> 0, active |-> 1, ended |-> 2, finished |-> 3, cleared |-> 4]
Files == [Jobs -> Stage]
NoFile == {"none", "cleared"}

WorkerPc == {"none", "running", "releasing", "released", "summary",
             "announce", "done"}

Snapshot == [version : Nat, shows : Files]
NoSnapshot == [version |-> 0, shows |-> [j \in Jobs |-> "none"]]

Entry == [key : Keys, shows : Files]

ReaderPc == {"idle", "enter", "waiting", "woken", "read", "build", "respond",
             "answered"}
Builders == {"read", "build"}
Reader == [pc : ReaderPc, since : Nat, generation : Nat, shows : Files,
           todo : SUBSET Jobs]
IdleReader == [pc |-> "idle", since |-> 0, generation |-> 0,
               shows |-> NoSnapshot.shows, todo |-> {}]

TypeOK ==
    /\ record \in Files
    /\ worker \in [Jobs -> WorkerPc]
    /\ clearing \in [Jobs -> {"no", "remove", "announce"}]
    /\ summary \in Files
    /\ generation \in Nat \ {0}
    /\ building \in BOOLEAN
    /\ cache \in Snapshot
    /\ responses \in [generation : Nat, entries : SUBSET Entry]
    /\ IsFiniteSet(responses.entries)
    /\ Cardinality(responses.entries) <= MaxEntries
    /\ reader \in [Readers -> Reader]
    /\ announced \in [1..generation -> Files]
    /\ reborn \subseteq Jobs

Init ==
    /\ record = [j \in Jobs |-> "none"]
    /\ worker = [j \in Jobs |-> "none"]
    /\ clearing = [j \in Jobs |-> "no"]
    /\ summary = [j \in Jobs |-> "none"]
    /\ generation = 1
    /\ building = FALSE
    /\ cache = NoSnapshot
    /\ responses = [generation |-> 0, entries |-> {}]
    /\ reader = [r \in Readers |-> IdleReader]
    /\ announced = [g \in {1} |-> record]
    /\ reborn = {}

-----------------------------------------------------------------------------
(***************************************************************************)
(* The condition variable and its counter.                                 *)
(***************************************************************************)

\* notify_all: every request that waits will look again.
Notified == [r \in Readers |-> IF reader[r].pc = "waiting"
                               THEN [reader[r] EXCEPT !.pc = "woken"]
                               ELSE reader[r]]

\* _invalidate_results.
Invalidate ==
    /\ generation' = generation + 1
    /\ cache' = NoSnapshot
    /\ announced' = [g \in 1..(generation + 1) |->
                        IF g \in 1..generation THEN announced[g] ELSE record]
    /\ reader' = Notified
    /\ UNCHANGED <<building, responses>>

-----------------------------------------------------------------------------
(***************************************************************************)
(* Jobs: creation, the end of _run_job, clearing.                          *)
(***************************************************************************)

\* _write_job replaces the file, also when it was removed in the meantime.
WriteRecord(j, stage) ==
    /\ record' = [record EXCEPT ![j] = stage]
    /\ reborn' = IF record[j] \in NoFile /\ worker[j] # "none"
                 THEN reborn \cup {j} ELSE reborn

CreateJob(j) ==
    /\ worker[j] = "none"
    /\ WriteRecord(j, "active")
    /\ worker' = [worker EXCEPT ![j] = "running"]
    /\ UNCHANGED <<clearing, summary, cacheVars, responses, reader>>

\* Cancelled before it started: the file says so and nobody is told, for it
\* has no results.
DropJob(j) ==
    /\ worker[j] = "running"
    /\ WriteRecord(j, "ended")
    /\ worker' = [worker EXCEPT ![j] = "done"]
    /\ UNCHANGED <<clearing, summary, cacheVars, responses, reader>>

\* The writes of _release_job_model, which carry the final status and the
\* result files; a job that pinned no model skips them.
WriteReleasing(j) ==
    /\ worker[j] = "running"
    /\ WriteRecord(j, "ended")
    /\ worker' = [worker EXCEPT ![j] = "releasing"]
    /\ UNCHANGED <<clearing, summary, cacheVars, responses, reader>>

WriteReleased(j) ==
    /\ worker[j] = "releasing"
    /\ WriteRecord(j, "ended")
    /\ worker' = [worker EXCEPT ![j] = "released"]
    /\ UNCHANGED <<clearing, summary, cacheVars, responses, reader>>

WriteFinished(j) ==
    /\ worker[j] \in {"running", "released"}
    /\ WriteRecord(j, "finished")
    /\ worker' = [worker EXCEPT ![j] = "summary"]
    /\ UNCHANGED <<clearing, summary, cacheVars, responses, reader>>

\* _write_job_result_summary, whose failure is ignored.
WriteSummary(j) ==
    /\ worker[j] = "summary"
    /\ summary' \in {[summary EXCEPT ![j] = "finished"], summary}
    /\ worker' = [worker EXCEPT ![j] = "announce"]
    /\ UNCHANGED <<record, clearing, reborn, cacheVars, responses, reader>>

AnnounceFinished(j) ==
    /\ worker[j] = "announce"
    /\ Invalidate
    /\ worker' = [worker EXCEPT ![j] = "done"]
    /\ UNCHANGED <<record, clearing, summary, reborn>>

\* Bound: a job whose file came back after a clear is not cleared again.
MayClear(j) == Clears /\ j \notin reborn

\* clear_jobs: the check, the removal of the job's files under the lock, and
\* the invalidation.
ClearCheck(j) ==
    /\ clearing[j] = "no"
    /\ MayClear(j)
    /\ record[j] \in {"ended", "finished"}
    /\ clearing' = [clearing EXCEPT ![j] = "remove"]
    /\ UNCHANGED <<record, worker, summary, reborn, cacheVars, responses,
                   reader>>

ClearRemove(j) ==
    /\ clearing[j] = "remove"
    /\ record' = [record EXCEPT ![j] = "cleared"]
    /\ summary' = [summary EXCEPT ![j] = "none"]
    /\ clearing' = [clearing EXCEPT ![j] = "announce"]
    /\ UNCHANGED <<worker, reborn, cacheVars, responses, reader>>

ClearAnnounce(j) ==
    /\ clearing[j] = "announce"
    /\ Invalidate
    /\ clearing' = [clearing EXCEPT ![j] = "no"]
    /\ UNCHANGED <<record, worker, summary, reborn>>

JobStep(j) ==
    \/ CreateJob(j)
    \/ DropJob(j)
    \/ WriteReleasing(j)
    \/ WriteReleased(j)
    \/ WriteFinished(j)
    \/ WriteSummary(j)
    \/ AnnounceFinished(j)
    \/ ClearCheck(j)
    \/ ClearRemove(j)
    \/ ClearAnnounce(j)

-----------------------------------------------------------------------------
(***************************************************************************)
(* A request thread in results_snapshot and _cached_json.                  *)
(***************************************************************************)

Request(r) ==
    /\ reader[r].pc = "idle"
    /\ reader' = [reader EXCEPT ![r].pc = "enter", ![r].since = generation]
    /\ UNCHANGED <<diskVars, cacheVars, responses>>

Answer(r, snapshot) ==
    /\ reader' = [reader EXCEPT ![r].pc = "respond",
                                ![r].generation = snapshot.version,
                                ![r].shows = snapshot.shows]
    /\ UNCHANGED building

\* Become the builder, or wait for the one there is.
BuildOrWait(r) ==
    /\ building' = TRUE
    /\ reader' = [reader EXCEPT ![r].pc = IF building THEN "waiting" ELSE "read",
                                ![r].generation = generation]

\* Into the critical section at the top of the loop.
Enter(r) ==
    /\ reader[r].pc = "enter"
    /\ IF cache.version = generation THEN Answer(r, cache) ELSE BuildOrWait(r)
    /\ UNCHANGED <<diskVars, generation, cache, announced, responses>>

\* Back from wait() with the condition's lock.  The snapshot is compared with
\* the generation from before the wait: one published for a newer generation
\* is not used, it is built again.
Wake(r) ==
    /\ reader[r].pc = "woken"
    /\ IF cache.version = reader[r].generation THEN Answer(r, cache)
                                               ELSE BuildOrWait(r)
    /\ UNCHANGED <<diskVars, generation, cache, announced, responses>>

\* _stored_jobs reads all files under the lock.
ReadJobs(r) ==
    /\ reader[r].pc = "read"
    /\ reader' = [reader EXCEPT ![r].pc = "build",
                                ![r].shows = record,
                                ![r].todo = {j \in Jobs : record[j] \notin NoFile}]
    /\ UNCHANGED <<diskVars, cacheVars, responses>>

\* _job_result_summary: the summary file if its key is the job's, else a new
\* one from the job as it was read.
Summarize(r, j) ==
    /\ reader[r].pc = "build"
    /\ j \in reader[r].todo
    /\ \/ /\ summary[j] = reader[r].shows[j]
          /\ UNCHANGED summary
       \/ /\ summary[j] # reader[r].shows[j]
          /\ summary' = [summary EXCEPT ![j] = reader[r].shows[j]]
    /\ reader' = [reader EXCEPT ![r].todo = @ \ {j},
                                ![r].shows[j] = summary'[j]]
    /\ UNCHANGED <<record, worker, clearing, reborn, cacheVars, responses>>

\* Mutant: the flag stays set.
BuildFails_StaysBuilding(r) ==
    /\ reader[r].pc \in Builders
    /\ reader' = [Notified EXCEPT ![r] = IdleReader]
    /\ UNCHANGED <<diskVars, cacheVars, responses>>

\* Mutant: the waiting requests are not told.
BuildFails_Silently(r) ==
    /\ reader[r].pc \in Builders
    /\ building' = FALSE
    /\ reader' = [reader EXCEPT ![r] = IdleReader]
    /\ UNCHANGED <<diskVars, generation, cache, announced, responses>>

\* Reading or writing a file raises: this request answers with an error.
BuildFails(r) ==
    /\ reader[r].pc \in Builders
    /\ building' = FALSE
    /\ reader' = [Notified EXCEPT ![r] = IdleReader]
    /\ UNCHANGED <<diskVars, generation, cache, announced, responses>>

\* Mutant: the generation is not looked at again.
Publish_Unchecked(r) ==
    /\ reader[r].pc = "build"
    /\ reader[r].todo = {}
    /\ building' = FALSE
    /\ cache' = [version |-> generation, shows |-> reader[r].shows]
    /\ reader' = [Notified EXCEPT ![r].pc = "respond"]
    /\ UNCHANGED <<diskVars, generation, announced, responses>>

\* A snapshot of a generation that has passed is thrown away.
Publish(r) ==
    /\ reader[r].pc = "build"
    /\ reader[r].todo = {}
    /\ building' = FALSE
    /\ \/ /\ reader[r].generation = generation
          /\ cache' = [version |-> generation, shows |-> reader[r].shows]
          /\ reader' = [Notified EXCEPT ![r].pc = "respond"]
       \/ /\ reader[r].generation # generation
          /\ reader' = [Notified EXCEPT
                          ![r] = [IdleReader EXCEPT !.pc = "enter",
                                                    !.since = reader[r].since]]
          /\ UNCHANGED cache
    /\ UNCHANGED <<diskVars, generation, announced, responses>>

\* Mutant: the cache grows.
Respond_NeverDrops(r, key) ==
    /\ reader[r].pc = "respond"
    /\ responses' = [generation |-> reader[r].generation,
                     entries |->
                        (IF responses.generation = reader[r].generation
                         THEN responses.entries ELSE {})
                        \cup {[key |-> key, shows |-> reader[r].shows]}]
    /\ reader' = [reader EXCEPT ![r].pc = "answered", ![r].generation = 0]
    /\ UNCHANGED <<diskVars, cacheVars>>

\* JsonResponseCache.get_or_create: the response cached under the key, else a
\* new one, for which the cache drops another when it is full (the one used
\* longest ago; which one is left open here).
Respond(r, key) ==
    /\ reader[r].pc = "respond"
    /\ LET kept == IF responses.generation = reader[r].generation
                   THEN responses.entries ELSE {}
           cached == {e \in kept : e.key = key}
           new == [key |-> key, shows |-> reader[r].shows]
       IN  \/ /\ cached # {}
              /\ \E e \in cached :
                   reader' = [reader EXCEPT ![r].pc = "answered",
                                            ![r].generation = 0,
                                            ![r].shows = e.shows]
              /\ UNCHANGED responses
           \/ /\ cached = {}
              /\ reader' = [reader EXCEPT ![r].pc = "answered",
                                          ![r].generation = 0]
              /\ \E dropped \in SUBSET kept :
                   /\ Cardinality(dropped) =
                          IF Cardinality(kept) < MaxEntries THEN 0 ELSE 1
                   /\ responses' = [generation |-> reader[r].generation,
                                    entries |-> (kept \ dropped) \cup {new}]
    /\ UNCHANGED <<diskVars, cacheVars>>

\* The response is written.
Finish(r) ==
    /\ reader[r].pc = "answered"
    /\ reader' = [reader EXCEPT ![r] = IdleReader]
    /\ UNCHANGED <<diskVars, cacheVars, responses>>

ReaderStep(r) ==
    \/ Enter(r)
    \/ Wake(r)
    \/ ReadJobs(r)
    \/ \E j \in Jobs : Summarize(r, j)
    \/ Publish(r)
    \/ \E key \in Keys : Respond(r, key)
    \/ Finish(r)

-----------------------------------------------------------------------------
(***************************************************************************)
(* The application stops and starts again: memory is lost, the files stay. *)
(* _reconcile_jobs fails the jobs that ran and then invalidates, before    *)
(* the server accepts a request; a job that was queued is run again.       *)
(***************************************************************************)
Restart ==
    /\ Restarts
    /\ \E queued \in SUBSET {j \in Jobs : worker[j] = "running"} :
        LET failed == {j \in Jobs : record[j] = "active"} \ queued IN
        /\ record' = [j \in Jobs |-> IF j \in failed THEN "finished"
                                                     ELSE record[j]]
        /\ worker' = [j \in Jobs |-> IF worker[j] = "none" \/ j \in queued
                                     THEN worker[j] ELSE "done"]
        /\ generation' = IF failed = {} THEN 1 ELSE 2
    /\ clearing' = [j \in Jobs |-> "no"]
    /\ building' = FALSE
    /\ cache' = NoSnapshot
    /\ responses' = [generation |-> 0, entries |-> {}]
    /\ reader' = [r \in Readers |-> IdleReader]
    /\ announced' = [g \in 1..generation' |-> record']
    /\ UNCHANGED <<summary, reborn>>

Next ==
    \/ \E j \in Jobs : JobStep(j)
    \/ \E r \in Readers : Request(r) \/ ReaderStep(r) \/ BuildFails(r)
    \/ Restart

Spec == Init /\ [][Next]_vars

(***************************************************************************)
(* A request thread that can run does run.                                 *)
(***************************************************************************)
FairSpec == Spec /\ \A r \in Readers : WF_vars(ReaderStep(r))

\* Files cannot be read or written for some time only.
RecoveringSpec == FairSpec /\ <>[][~\E r \in Readers : BuildFails(r)]_vars

-----------------------------------------------------------------------------
(***************************************************************************)
(* What readers of results rely on.                                        *)
(***************************************************************************)

NoOlder(shows, files, exempt) ==
    \A j \in Jobs \ exempt : Rank[shows[j]] >= Rank[files[j]]

\* What shows holds is no older than what was announced as a generation.  A
\* job whose file came back after a clear (ClearedStaysCleared in
\* JobLifecycle) has no order.
AsNewAs(shows, g) == NoOlder(shows, announced[g], reborn)

\* A request that begins after a job was announced as finished, or cleared,
\* is answered with that or something newer: through the snapshot another
\* request built, a wait for it, a snapshot that is built again, and the
\* response another request left in the cache (jobs.py:321-351,
\* server.py:404-424).
AnswerIsFresh ==
    \A r \in Readers : reader[r].pc = "answered" =>
        AsNewAs(reader[r].shows, reader[r].since)

\* _results_building is set while exactly one request builds, whatever way
\* the builds before ended (jobs.py:334, 341, 346).
OneBuilder ==
    /\ building <=> \E r \in Readers : reader[r].pc \in Builders
    /\ \A r, q \in Readers :
        reader[r].pc \in Builders /\ reader[q].pc \in Builders => r = q

\* Every request for results is answered: no wakeup is lost when a build
\* fails or its snapshot is thrown away.
RequestsEnd == \A r \in Readers : reader[r].pc # "idle" ~> reader[r].pc = "idle"
=============================================================================
