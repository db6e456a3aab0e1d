------------------------------ MODULE JobQueue ------------------------------
(***************************************************************************)
(* What the scheduler of the job manager promises its users: jobs start in *)
(* the order in which they were submitted, never more at a time than the   *)
(* limit allows when one starts, and a job cancelled while it waits never  *)
(* starts.  JobLifecycle implements this specification.                    *)
(***************************************************************************)
EXTENDS Naturals, Sequences, FiniteSets

CONSTANTS Jobs, DefaultLimit

VARIABLES
    waiting,    \* the jobs that wait, in order
    running,    \* the jobs that hold a slot
    cancelled,  \* the jobs somebody asked to stop, until they are gone
    limit       \* the number of slots

queueVars == <<waiting, running, cancelled, limit>>

Init ==
    /\ waiting = <<>>
    /\ running = {}
    /\ cancelled = {}
    /\ limit = DefaultLimit

Waits(j) == \E i \in DOMAIN waiting : waiting[i] = j

\* A job waits at most once, and not while it runs.
Submit(j) ==
    /\ ~Waits(j)
    /\ j \notin running
    /\ waiting' = Append(waiting, j)
    /\ UNCHANGED <<running, cancelled, limit>>

Cancel(j) ==
    /\ cancelled' = cancelled \cup {j}
    /\ UNCHANGED <<waiting, running, limit>>

Start ==
    /\ waiting # <<>>
    /\ Head(waiting) \notin cancelled \cup running
    /\ Cardinality(running) < limit
    /\ waiting' = Tail(waiting)
    /\ running' = running \cup {Head(waiting)}
    /\ UNCHANGED <<cancelled, limit>>

Drop ==
    /\ waiting # <<>>
    /\ Head(waiting) \in cancelled
    /\ waiting' = Tail(waiting)
    /\ cancelled' = cancelled \ {Head(waiting)}
    /\ UNCHANGED <<running, limit>>

Finish(j) ==
    /\ j \in running
    /\ running' = running \ {j}
    /\ cancelled' = cancelled \ {j}
    /\ UNCHANGED <<waiting, limit>>

SetLimit ==
    /\ limit' \in Nat \ {0}
    /\ UNCHANGED <<waiting, running, cancelled>>

\* The application stopped: the queue starts from nothing.
Reset ==
    /\ waiting' = <<>>
    /\ running' = {}
    /\ cancelled' = {}
    /\ limit' = DefaultLimit

Next ==
    \/ \E j \in Jobs : Submit(j) \/ Cancel(j) \/ Finish(j)
    \/ Start
    \/ Drop
    \/ SetLimit
    \/ Reset

Spec == Init /\ [][Next]_queueVars
=============================================================================
