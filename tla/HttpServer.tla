------------------------------ MODULE HttpServer ------------------------------
(***************************************************************************)
(* The HTTP server of server.py: the pool of request workers without an    *)
(* unbounded queue (server.py:471-549), and behind the requests for tasks  *)
(* the catalogue that loads each suite once for all of them                *)
(* (server.py:427-468, 651-683), also used by the thread that prewarms it. *)
(*                                                                         *)
(* The thread pool is the standard library's: it queues what is submitted  *)
(* and starts a thread unless one is idle.  What a request other than one  *)
(* for tasks does is in JobLifecycle and ResultsCache; here it ends, with  *)
(* or without an exception.                                                *)
(***************************************************************************)
EXTENDS Naturals, FiniteSets, Sequences

CONSTANTS
    Connections,  \* connections that clients open, each once
    MaxWorkers,   \* max_request_workers
    Suites,       \* suites of the catalogue
    Prewarm,      \* the thread that prewarms the catalogue
    Prewarmed,    \* the suite it asks for
    LoadFailures  \* bound: loads that raise
Other == "other"  \* what a connection asks for that is not a list of tasks

ASSUME ServerAssumption ==
    /\ IsFiniteSet(Connections)
    /\ MaxWorkers \in Nat \ {0}
    /\ Prewarm \notin Connections
    /\ Prewarmed \in Suites /\ Other \notin Suites
    /\ LoadFailures \in Nat

VARIABLES
    conn,      \* where each connection stands
    wants,     \* what it asks for
    slots,     \* _request_slots
    active,    \* _active_requests
    queue,     \* work submitted to the executor
    threads,   \* threads the executor has started
    idle,      \* those of them without work
    tasks,     \* TaskCatalogCache._tasks
    loading,   \* TaskCatalogCache._loading
    reader,    \* where each thread in TaskCatalogCache.get stands
    failures   \* loads that have raised

poolVars == <<slots, active, queue, threads, idle>>
catalogVars == <<tasks, loading, reader, failures>>
vars == <<conn, wants, poolVars, catalogVars>>

\* A connection is accepted by serve_forever's thread ("slot", "counted",
\* "submitted") and served by a worker ("serving" to "closed").
ConnState == {"new", "slot", "counted", "submitted", "serving", "closing",
              "uncounted", "closed", "refused"}

\* "common": COMMON_TASKS, the answer when lm-eval cannot list its tasks.
NotLoaded == "not loaded"
TaskList == {NotLoaded, "full", "common"}

Callers == Connections \cup {Prewarm}
ReaderState == {"out", "enter", "waiting", "loading", "answered", "raised"}
SuiteOf(c) == IF c = Prewarm THEN Prewarmed ELSE wants[c]

\* Connections that have a slot, and those the counter counts.
Holders  == {c \in Connections : conn[c] \in {"slot", "counted", "submitted", "serving",
                                              "closing", "uncounted"}}
Counted  == {c \in Connections : conn[c] \in {"counted", "submitted", "serving", "closing"}}

TypeOK ==
    /\ conn \in [Connections -> ConnState]
    /\ wants \in [Connections -> Suites \cup {Other}]
    /\ slots \in 0..MaxWorkers
    /\ active \in Nat
    /\ queue \in Seq(Connections)
    /\ threads \in 0..MaxWorkers
    /\ idle \in 0..threads
    /\ tasks \in [Suites -> TaskList]
    /\ loading \subseteq Suites
    /\ reader \in [Callers -> ReaderState]
    /\ failures \in 0..LoadFailures

Init ==
    /\ conn = [c \in Connections |-> "new"]
    /\ wants \in [Connections -> Suites \cup {Other}]
    /\ slots = MaxWorkers
    /\ active = 0
    /\ queue = <<>>
    /\ threads = 0
    /\ idle = 0
    /\ tasks = [s \in Suites |-> NotLoaded]
    /\ loading = {}
    /\ reader = [c \in Callers |-> IF c = Prewarm THEN "enter" ELSE "out"]
    /\ failures = 0

Move(c, from, to) == conn[c] = from /\ conn' = [conn EXCEPT ![c] = to]

-----------------------------------------------------------------------------
(* The thread of serve_forever accepts one connection after the other.     *)

Accepting == \A c \in Connections : conn[c] \notin {"slot", "counted"}

\* Mutant: the refusal gives a slot back like the other ways out.
RefuseBusy_Releases(c) ==
    /\ Accepting
    /\ slots = 0
    /\ Move(c, "new", "refused")
    /\ slots' = slots + 1
    /\ UNCHANGED <<wants, active, queue, threads, idle, catalogVars>>

\* Without a slot the connection is answered 503 and closed.
RefuseBusy(c) ==
    /\ Accepting
    /\ slots = 0
    /\ Move(c, "new", "refused")
    /\ UNCHANGED <<wants, poolVars, catalogVars>>

\* Mutant: a request is accepted whether there is a slot or not.
AcquireSlot_Always(c) ==
    /\ Accepting
    /\ Move(c, "new", "slot")
    /\ slots' = IF slots > 0 THEN slots - 1 ELSE 0
    /\ UNCHANGED <<wants, active, queue, threads, idle, catalogVars>>

AcquireSlot(c) ==
    /\ Accepting
    /\ slots > 0
    /\ Move(c, "new", "slot")
    /\ slots' = slots - 1
    /\ UNCHANGED <<wants, active, queue, threads, idle, catalogVars>>

CountRequest(c) ==
    /\ Move(c, "slot", "counted")
    /\ active' = active + 1
    /\ UNCHANGED <<wants, slots, queue, threads, idle, catalogVars>>

\* The executor queues the work, and starts a thread unless one is idle.
Submit(c) ==
    /\ Move(c, "counted", "submitted")
    /\ queue' = Append(queue, c)
    /\ IF idle > Len(queue) \/ threads = MaxWorkers
       THEN UNCHANGED <<threads, idle>>
       ELSE /\ threads' = threads + 1
            /\ idle' = idle + 1
    /\ UNCHANGED <<wants, slots, active, catalogVars>>

-----------------------------------------------------------------------------
(* A worker thread and its request.                                        *)

TakeWork ==
    /\ queue # <<>> /\ idle > 0
    /\ LET c == Head(queue) IN
         /\ Move(c, "submitted", "serving")
         /\ reader' = [reader EXCEPT ![c] = IF wants[c] = Other THEN "out" ELSE "enter"]
    /\ queue' = Tail(queue)
    /\ idle' = idle - 1
    /\ UNCHANGED <<wants, slots, active, threads, tasks, loading, failures>>

\* The handler returns or raises: a request for tasks when the catalogue has
\* answered or raised, any other at its own time.  The request is shut down.
FinishRequest(c) ==
    /\ wants[c] # Other => reader[c] \in {"answered", "raised"}
    /\ Move(c, "serving", "closing")
    /\ reader' = [reader EXCEPT ![c] = "out"]
    /\ UNCHANGED <<wants, poolVars, tasks, loading, failures>>

\* Mutant: the slot is given back here as well.
UncountRequest_Releases(c) ==
    /\ Move(c, "closing", "uncounted")
    /\ active' = IF active > 0 THEN active - 1 ELSE 0
    /\ slots' = slots + 1
    /\ UNCHANGED <<wants, queue, threads, idle, catalogVars>>

UncountRequest(c) ==
    /\ Move(c, "closing", "uncounted")
    /\ active' = IF active > 0 THEN active - 1 ELSE 0
    /\ UNCHANGED <<wants, slots, queue, threads, idle, catalogVars>>

\* Mutant: the request is no longer counted here as well.
ReleaseSlot_Uncounts(c) ==
    /\ Move(c, "uncounted", "closed")
    /\ slots' = slots + 1
    /\ active' = IF active > 0 THEN active - 1 ELSE 0
    /\ UNCHANGED <<wants, queue, threads, idle, catalogVars>>

\* The last act of _process_request.  The thread is idle a moment later; until
\* then a new request may find its slot free and its thread not.
ReleaseSlot(c) ==
    /\ Move(c, "uncounted", "closed")
    /\ slots' = slots + 1
    /\ UNCHANGED <<wants, active, queue, threads, idle, catalogVars>>

Busy == {c \in Connections : conn[c] \in {"serving", "closing", "uncounted"}}
ThreadIdle ==
    /\ idle + Cardinality(Busy) < threads
    /\ idle' = idle + 1
    /\ UNCHANGED <<conn, wants, slots, active, queue, threads, catalogVars>>

-----------------------------------------------------------------------------
(* TaskCatalogCache.get.                                                   *)

Goto(c, to) == reader' = [reader EXCEPT ![c] = to]

\* Mutant: a load under way is not waited for.
LookUp_IgnoresLoading(c) ==
    /\ reader[c] = "enter"
    /\ LET s == SuiteOf(c) IN
         \/ tasks[s] # NotLoaded /\ Goto(c, "answered") /\ UNCHANGED loading
         \/ tasks[s] = NotLoaded /\ Goto(c, "loading") /\ loading' = loading \cup {s}
    /\ UNCHANGED <<conn, wants, poolVars, tasks, failures>>

\* Under the condition: wait for a load of the suite, answer from the cache,
\* or become the one that loads it.
LookUp(c) ==
    /\ reader[c] = "enter"
    /\ LET s == SuiteOf(c) IN
         \/ s \in loading /\ Goto(c, "waiting") /\ UNCHANGED loading
         \/ s \notin loading /\ tasks[s] # NotLoaded
            /\ Goto(c, "answered") /\ UNCHANGED loading
         \/ s \notin loading /\ tasks[s] = NotLoaded
            /\ Goto(c, "loading") /\ loading' = loading \cup {s}
    /\ UNCHANGED <<conn, wants, poolVars, tasks, failures>>

\* discard and notify_all: every waiter looks again.
NotifyAll(c, to) ==
    /\ loading' = loading \ {SuiteOf(c)}
    /\ reader' = [d \in Callers |-> IF d = c THEN to
                                    ELSE IF reader[d] = "waiting" THEN "enter"
                                    ELSE reader[d]]

\* The loader returns.  A listing by lm-eval that fails is answered with the
\* common tasks and kept like any other.
LoadTasks(c) ==
    /\ reader[c] = "loading"
    /\ \E list \in TaskList \ {NotLoaded} :
         tasks' = [tasks EXCEPT ![SuiteOf(c)] = list]
    /\ NotifyAll(c, "answered")
    /\ UNCHANGED <<conn, wants, poolVars, failures>>

\* Mutant: the suite stays in _loading.
LoadRaises_StaysLoading(c) ==
    /\ reader[c] = "loading"
    /\ failures < LoadFailures
    /\ failures' = failures + 1
    /\ Goto(c, "raised")
    /\ UNCHANGED <<conn, wants, poolVars, tasks, loading>>

\* The loader raises: nothing is kept.
LoadRaises(c) ==
    /\ reader[c] = "loading"
    /\ failures < LoadFailures
    /\ failures' = failures + 1
    /\ NotifyAll(c, "raised")
    /\ UNCHANGED <<conn, wants, poolVars, tasks>>

-----------------------------------------------------------------------------
Accept(c) == RefuseBusy(c) \/ AcquireSlot(c) \/ CountRequest(c) \/ Submit(c)
Serve(c) == FinishRequest(c) \/ UncountRequest(c) \/ ReleaseSlot(c)
Read(c) == LookUp(c) \/ LoadTasks(c) \/ LoadRaises(c)

Next ==
    \/ \E c \in Connections : Accept(c) \/ Serve(c)
    \/ TakeWork \/ ThreadIdle
    \/ \E c \in Callers : Read(c)

\* Threads run, a load ends (the listing has a time limit of 90 seconds), and a
\* handler ends (sockets have one of 30 seconds).
Spec ==
    /\ Init /\ [][Next]_vars
    /\ \A c \in Connections :
         WF_vars(CountRequest(c) \/ Submit(c)) /\ WF_vars(Serve(c))
    /\ WF_vars(TakeWork) /\ WF_vars(ThreadIdle)
    /\ \A c \in Callers : WF_vars(Read(c))

-----------------------------------------------------------------------------
(* Properties.                                                             *)

\* Every slot is free or held by one request, from its acceptance until the
\* end of its worker, however the request ends, so that no request is refused
\* while fewer than max_workers are under way (server.py:501-526).
SlotPerRequest == slots + Cardinality(Holders) = MaxWorkers

\* The number of active requests that /api/health reports is exact and its
\* clamp at zero never bites (server.py:505-525, 1007-1011).
ActiveIsExact == active = Cardinality(Counted)

\* A submitted request never waits for another request's handler: there is a
\* thread for it that has been started and is past any other request
\* (server.py:472, 501-508).
NoRequestWaitsForAnother == Len(queue) + Cardinality(Busy) <= threads

\* A suite is loaded by one caller at a time, and nobody waits for a suite
\* that no one is loading (server.py:436-455).
OneLoader ==
    /\ \A s \in Suites :
         Cardinality({c \in Callers : reader[c] = "loading" /\ SuiteOf(c) = s})
           = IF s \in loading THEN 1 ELSE 0
    /\ \A c \in Callers : reader[c] = "waiting" => SuiteOf(c) \in loading

\* Load each task suite once: the list of a suite never changes, whatever it
\* was loaded from (server.py:428).
LoadedOnce ==
    [][\A s \in Suites : tasks[s] # NotLoaded => tasks'[s] = tasks[s]]_vars

\* A connection that was given a slot is served and closed: waiting for a load,
\* or for a load that raises, cannot use up the workers for good
\* (server.py:436-455, 515-526).
AcceptedEnds == \A c \in Connections : conn[c] = "slot" ~> conn[c] = "closed"
=============================================================================
