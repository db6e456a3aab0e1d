--------------------------- MODULE DispatchProofs ---------------------------
(***************************************************************************)
(* A slot goes to a job whose file says queued.                            *)
(*                                                                         *)
(* The scheduler never reads the file: it looks at the cancel event.  The  *)
(* argument is that the two cannot disagree for a job that waits, because  *)
(* a cancel sets the event before it writes the file, enqueueing keeps an  *)
(* event that is set, and nobody else holds a copy of the file of a job    *)
(* that has not run (ExpectedIsQueued).                                    *)
(***************************************************************************)
EXTENDS SchedulingProofs

\* Request c has a copy of the file of job j, or is about to remove it.
Handles(c, j) ==
    \/ j \in caller[c].writing
    \/ caller[c].op \in {"cancel", "clear", "results"} /\ j \in caller[c].todo

\* A cancel that has not set the event of j yet is harmless.
Overwrites(c, j) ==
    \/ j \in caller[c].writing
    \/ caller[c].op \in {"clear", "results"} /\ j \in caller[c].todo

Expected(j) ==
    \/ j \in Elements(pendingJobs) \cup Awaited
    \/ \E c \in Callers : caller[c].op = "enqueue" /\ j \in caller[c].todo

OnlyIssuedJobs ==
    \A j \in Jobs \ Elements(issued) :
        record[j] = Absent /\ \A c \in Callers : ~Handles(c, j)

FreshJobs ==
    \A c \in Callers : caller[c].op = "create" =>
        \A j \in caller[c].todo :
            record[j] = Absent /\ \A d \in Callers : ~Handles(d, j)

ExpectedIsQueued ==
    \A j \in Jobs : Expected(j) =>
        \/ Heard(j)
        \/ record[j].status = "queued" /\ \A c \in Callers : ~Overwrites(c, j)

DispatchInv == /\ SchedulingInv
               /\ OnlyIssuedJobs
               /\ FreshJobs
               /\ ExpectedIsQueued

-----------------------------------------------------------------------------
(***************************************************************************)
(* What a request does to the copies it holds.                             *)
(***************************************************************************)

\* A request that reads takes no job without a file, and copies or removes
\* none that is queued; a request that creates takes a job nobody has.
LEMMA RequestCopies ==
    ASSUME TypeOK, NEW c \in Callers, Request(c)
    PROVE  /\ UNCHANGED record
           /\ \A j \in Jobs :
                /\ Handles(c, j)' => record[j] # Absent
                /\ Overwrites(c, j)' => record[j].status # "queued"
           /\ caller'[c].op # "enqueue"
           /\ caller'[c].op = "create" =>
                /\ caller'[c].todo \cap Elements(issued) = {}
                /\ caller'[c].todo \subseteq Elements(issued')
<1>0. /\ caller \in [Callers -> Caller]
      /\ issued \in Seq(Jobs)
  BY DEF TypeOK
<1>1. CASE \E j \in Jobs, limit \in Limits \cup {0} : Submit(c, j, limit)
  <2>1. PICK j \in Jobs, limit \in Limits \cup {0} : Submit(c, j, limit)
    BY <1>1
  <2>2. /\ caller'[c].op = "create" /\ caller'[c].todo = {j}
        /\ caller'[c].writing = {}
    BY <1>0, <2>1 DEF Submit, IdleCaller
  <2>3. Elements(issued') = Elements(issued) \cup {j}
    BY <1>0, <2>1, AppendElements DEF Submit
  <2>4. QED
    BY <2>1, <2>2, <2>3 DEF Submit, Handles, Overwrites
<1>2. ASSUME NEW r, Becomes(c, r)
      PROVE  caller'[c] \in {r, IdleCaller}
  BY <1>0, <1>2 DEF Becomes
<1>3. ASSUME NEW S \in SUBSET Jobs, CancelRead(c, S)
      PROVE  /\ UNCHANGED record
             /\ \A j \in Jobs :
                  /\ Handles(c, j)' => record[j] # Absent
                  /\ ~Overwrites(c, j)'
             /\ caller'[c].op \notin {"create", "enqueue"}
  <2> DEFINE live == {j \in S : record[j].status \in Active}
             r == [op |-> "cancel", snap |-> Snapshot(live), todo |-> live,
                   writing |-> {}, signal |-> {}]
  <2>1. caller'[c] \in {r, IdleCaller}
    BY <1>2, <1>3 DEF CancelRead
  <2>2. \A j \in live : record[j] # Absent
    BY DEF Absent, Active
  <2>3. QED
    BY <1>3, <2>1, <2>2 DEF CancelRead, Handles, Overwrites, IdleCaller
<1>4. ASSUME NEW S \in SUBSET Jobs, ClearRead(c, S)
      PROVE  /\ UNCHANGED record
             /\ \A j \in Jobs :
                  /\ Handles(c, j)' => record[j] # Absent
                  /\ Overwrites(c, j)' => record[j].status # "queued"
             /\ caller'[c].op \notin {"create", "enqueue"}
  <2> DEFINE present == {j \in S : record[j] # Absent}
             r == [IdleCaller EXCEPT !.op = "clear", !.todo = present]
  <2>1. caller'[c] \in {r, IdleCaller}
    BY <1>2, <1>4 DEF ClearRead
  <2>2. r.op = "clear" /\ r.todo = present /\ r.writing = {}
    BY DEF IdleCaller
  <2>3. \A j \in present : record[j].status # "queued"
    BY <1>4 DEF ClearRead, Active
  <2> HIDE DEF r
  <2>4. QED
    BY <1>4, <2>1, <2>2, <2>3 DEF ClearRead, Handles, Overwrites, IdleCaller
<1>5. CASE ResultsRead(c)
  <2> DEFINE unfinished == {j \in Swe : record[j].status \in
                                            {"running", "cancelling"}}
             r == [op |-> "results", snap |-> Snapshot(unfinished),
                   todo |-> unfinished, writing |-> {}, signal |-> {}]
  <2>1. caller'[c] \in {r, IdleCaller}
    BY <1>2, <1>5 DEF ResultsRead
  <2>2. \A j \in unfinished : record[j] # Absent /\ record[j].status # "queued"
    BY DEF Absent
  <2>3. QED
    BY <1>5, <2>1, <2>2 DEF ResultsRead, Handles, Overwrites, IdleCaller
<1>6. QED
  BY <1>1, <1>3, <1>4, <1>5 DEF Request

\* A request that has begun takes no further job; it writes and removes what
\* it has copied, and copies a job it cancels only once the event is set.
LEMMA CallerCopies ==
    ASSUME TypeOK, NEW c \in Callers, CallerStep(c),
           ~Enqueue(c), ~CreateRecord(c)
    PROVE  /\ \A j \in Jobs :
                /\ Handles(c, j)' => Handles(c, j)
                /\ Overwrites(c, j)' => Overwrites(c, j) \/ Heard(j)'
                /\ record'[j] # record[j] => Overwrites(c, j)
                /\ Heard(j) => Heard(j)'
           /\ caller'[c].op \notin {"create", "enqueue"}
<1>0. /\ caller \in [Callers -> Caller]
      /\ DOMAIN caller[c] = {"op", "snap", "todo", "writing", "signal"}
      /\ record \in [Jobs -> Record]
      /\ cancelEvents \in [Jobs -> {"none", "clear", "set"}]
  BY DEF TypeOK, Caller
<1> DEFINE Goal == /\ \A j \in Jobs :
                        /\ Handles(c, j)' => Handles(c, j)
                        /\ Overwrites(c, j)' => Overwrites(c, j) \/ Heard(j)'
                        /\ record'[j] # record[j] => Overwrites(c, j)
                        /\ Heard(j) => Heard(j)'
                   /\ caller'[c].op \notin {"create", "enqueue"}
<1>1. ASSUME NEW r, Becomes(c, r)
      PROVE  caller'[c] \in {r, IdleCaller}
  BY <1>0, <1>1 DEF Becomes
<1> USE <1>0 DEF Handles, Overwrites, IdleCaller
<1>2. CASE ClearRemove(c)
  BY <1>2 DEF ClearRemove, Heard
<1>3. ASSUME NEW j \in Jobs, CancelSignal(c, j) PROVE Goal
  BY <1>3 DEF CancelSignal, Heard
<1>4. ASSUME NEW j \in Jobs, CancelWrite(c, j) PROVE Goal
  <2> DEFINE queued == caller[c].snap[j].status = "queued"
             r == [caller[c] EXCEPT
                     !.snap[j] = Absent, !.writing = {},
                     !.signal = IF queued THEN @ ELSE @ \cup {j}]
  <2>1. Becomes(c, r)
    BY <1>4 DEF CancelWrite
  <2>2. r.op = caller[c].op /\ r.todo = caller[c].todo /\ r.writing = {}
    OBVIOUS
  <2> HIDE DEF r
  <2>3. caller'[c] \in {r, IdleCaller}
    BY <1>1, <2>1
  <2>4. QED
    BY <1>4, <2>2, <2>3 DEF CancelWrite, Heard
<1>5. ASSUME NEW j \in Jobs, CancelTerminate(c, j) PROVE Goal
  <2> DEFINE r == [caller[c] EXCEPT !.signal = @ \ {j}]
  <2>1. Becomes(c, r)
    BY <1>5 DEF CancelTerminate
  <2>2. /\ r.op = caller[c].op /\ r.todo = caller[c].todo
        /\ r.writing = caller[c].writing
    OBVIOUS
  <2> HIDE DEF r
  <2>3. caller'[c] \in {r, IdleCaller}
    BY <1>1, <2>1
  <2>4. QED
    BY <1>5, <2>2, <2>3 DEF CancelTerminate, Heard
<1>6. ASSUME NEW j \in Jobs, ResultsStamp(c, j) PROVE Goal
  <2> DEFINE r == [caller[c] EXCEPT !.todo = @ \ {j}, !.snap[j] = Absent]
  <2>1. /\ caller[c].op = "results" /\ j \in caller[c].todo
        /\ UNCHANGED <<record, cancelEvents>>
    BY <1>6 DEF ResultsStamp
  <2>2. CASE Becomes(c, r)
    <3>1. /\ r.op = caller[c].op /\ r.todo \subseteq caller[c].todo
          /\ r.writing = caller[c].writing
      OBVIOUS
    <3> HIDE DEF r
    <3>2. caller'[c] \in {r, IdleCaller}
      BY <1>1, <2>2
    <3>3. QED
      BY <2>1, <3>1, <3>2 DEF Heard
  <2>3. CASE caller' = [caller EXCEPT
                          ![c].todo = @ \ {j},
                          ![c].writing = {j},
                          ![c].snap[j].status =
                              IF @ = "running" /\ Heard(j) THEN "cancelling"
                                                           ELSE @]
    <3>1. /\ caller'[c].op = caller[c].op
          /\ caller'[c].todo = caller[c].todo \ {j}
          /\ caller'[c].writing = {j}
      BY <2>3
    <3>2. QED
      BY <2>1, <3>1 DEF Heard
  <2>4. QED
    BY <1>6, <2>2, <2>3 DEF ResultsStamp
<1>7. ASSUME NEW j \in Jobs, ResultsStore(c, j) PROVE Goal
  <2> DEFINE r == [caller[c] EXCEPT !.writing = {}, !.snap[j] = Absent]
  <2>1. Becomes(c, r)
    BY <1>7 DEF ResultsStore
  <2>2. r.op = caller[c].op /\ r.todo = caller[c].todo /\ r.writing = {}
    OBVIOUS
  <2> HIDE DEF r
  <2>3. caller'[c] \in {r, IdleCaller}
    BY <1>1, <2>1
  <2>4. QED
    BY <1>7, <2>2, <2>3 DEF ResultsStore, Heard
<1>8. QED
  BY <1>2, <1>3, <1>4, <1>5, <1>6, <1>7 DEF CallerStep

-----------------------------------------------------------------------------
(***************************************************************************)
(* The invariant is inductive.                                             *)
(***************************************************************************)

\* Steps that change neither queue, requests nor boot, and write only the
\* file of a job that has a worker.
LEMMA WorkerKeepsQueued ==
    ASSUME DispatchInv, NEW j \in Live,
           \A k \in Jobs \ {j} : record'[k] = record[k],
           \A k \in Jobs \ {j} : Heard(k)' = Heard(k),
           UNCHANGED <<issued, pendingJobs, caller, bootVars>>
    PROVE  OnlyIssuedJobs' /\ FreshJobs' /\ ExpectedIsQueued'
<1>1. j \in Elements(issued) /\ ~Expected(j)
  BY DEF DispatchInv, SchedulingInv, OnePlace, Placed, Expected, Creating
<1>2. \A c \in Callers : caller[c].op = "create" => j \notin caller[c].todo
  BY DEF DispatchInv, SchedulingInv, OnePlace, Placed, Creating
<1>3. \A k \in Jobs : /\ Expected(k)' <=> Expected(k)
                      /\ \A c \in Callers :
                            /\ Handles(c, k)' <=> Handles(c, k)
                            /\ Overwrites(c, k)' <=> Overwrites(c, k)
  BY DEF Expected, Awaited, Handles, Overwrites, bootVars
<1>4. OnlyIssuedJobs'
  BY <1>1, <1>3 DEF DispatchInv, OnlyIssuedJobs
<1>5. FreshJobs'
  <2> SUFFICES ASSUME NEW c \in Callers, caller[c].op = "create",
                      NEW k \in caller[c].todo
               PROVE  record'[k] = Absent /\ \A d \in Callers : ~Handles(d, k)'
    BY DEF FreshJobs
  <2>1. k \in Jobs \ {j}
    BY <1>2 DEF DispatchInv, SchedulingInv, TypeOK, Caller
  <2>2. QED
    BY <2>1, <1>3 DEF DispatchInv, FreshJobs
<1>6. ExpectedIsQueued'
  BY <1>1, <1>3 DEF DispatchInv, ExpectedIsQueued
<1>7. QED
  BY <1>4, <1>5, <1>6

\* The job the scheduler takes is no longer expected; the others are as they
\* were.
LEMMA DispatchKeepsQueued ==
    ASSUME DispatchInv, Dispatch
    PROVE  OnlyIssuedJobs' /\ FreshJobs' /\ ExpectedIsQueued'
<1> DEFINE j == Head(pendingJobs)
<1>1. /\ j \in Elements(pendingJobs) /\ j \in Jobs
      /\ Elements(pendingJobs') = Elements(pendingJobs) \ {j}
      /\ cancelEvents \in [Jobs -> {"none", "clear", "set"}]
  <2>1. pendingJobs \in Seq(Jobs) /\ pendingJobs # <<>> /\ Once(pendingJobs)
    BY DEF DispatchInv, SchedulingInv, TypeOK, OnePlace, Dispatch
  <2>2. QED
    BY <2>1, TailElements DEF Dispatch, DispatchInv, SchedulingInv, TypeOK
<1>2. UNCHANGED <<record, issued, caller, mode, recovery>>
  BY DEF Dispatch, bootVars
<1>3. \A k \in Jobs \ {j} : Heard(k)' = Heard(k)
  BY <1>1 DEF Dispatch, Heard
<1>4. \A k \in Jobs : Expected(k)' => Expected(k) /\ k # j
  BY <1>1, <1>2 DEF Expected, Awaited, DispatchInv, SchedulingInv, OnePlace,
                    Placed, Creating
<1>5. \A k : \A c \in Callers :
            /\ Handles(c, k)' <=> Handles(c, k)
            /\ Overwrites(c, k)' <=> Overwrites(c, k)
  BY <1>2 DEF Handles, Overwrites
<1>6. OnlyIssuedJobs' /\ FreshJobs'
  BY <1>2, <1>5 DEF DispatchInv, OnlyIssuedJobs, FreshJobs
<1>7. ExpectedIsQueued'
  BY <1>2, <1>3, <1>4, <1>5 DEF DispatchInv, ExpectedIsQueued
<1>8. QED
  BY <1>6, <1>7

LEMMA RequestKeepsQueued ==
    ASSUME DispatchInv, NEW c \in Callers, Request(c)
    PROVE  OnlyIssuedJobs' /\ FreshJobs' /\ ExpectedIsQueued'
<1>1. TypeOK
  BY DEF DispatchInv, SchedulingInv
<1>2. /\ UNCHANGED <<record, pendingJobs, cancelEvents, mode, recovery>>
      /\ Elements(issued) \subseteq Elements(issued')
      /\ \A d \in Callers \ {c} : caller'[d] = caller[d]
  BY <1>1, RequestFrame, RequestCopies DEF bootVars
<1>3. /\ \A j \in Jobs : /\ Handles(c, j)' => record[j] # Absent
                         /\ Overwrites(c, j)' => record[j].status # "queued"
      /\ caller'[c].op # "enqueue"
      /\ caller'[c].op = "create" =>
            caller'[c].todo \cap Elements(issued) = {}
  BY <1>1, RequestCopies
<1>4. \A d \in Callers \ {c} : \A j \in Jobs :
            /\ Handles(d, j)' <=> Handles(d, j)
            /\ Overwrites(d, j)' <=> Overwrites(d, j)
  BY <1>2 DEF Handles, Overwrites
<1>5. OnlyIssuedJobs'
  <2> SUFFICES ASSUME NEW j \in Jobs, j \notin Elements(issued')
               PROVE  record'[j] = Absent /\ \A d \in Callers : ~Handles(d, j)'
    BY DEF OnlyIssuedJobs
  <2>1. record[j] = Absent /\ \A d \in Callers : ~Handles(d, j)
    BY <1>2 DEF DispatchInv, OnlyIssuedJobs
  <2>2. QED
    BY <2>1, <1>2, <1>3, <1>4
<1>6. FreshJobs'
  <2> SUFFICES ASSUME NEW d \in Callers, caller'[d].op = "create",
                      NEW j \in caller'[d].todo
               PROVE  record'[j] = Absent /\ \A e \in Callers : ~Handles(e, j)'
    BY DEF FreshJobs
  <2>0. j \in Jobs
    BY <1>1, RequestTypes DEF Caller
  <2>1. record[j] = Absent /\ \A e \in Callers : ~Handles(e, j)
    <3>1. CASE d = c
      BY <3>1, <2>0, <1>3 DEF DispatchInv, OnlyIssuedJobs
    <3>2. CASE d # c
      BY <3>2, <1>2 DEF DispatchInv, FreshJobs
    <3>3. QED
      BY <3>1, <3>2
  <2>2. QED
    BY <2>0, <2>1, <1>2, <1>3, <1>4
<1>7. ExpectedIsQueued'
  <2>1. \A j \in Jobs : Expected(j)' => Expected(j)
    BY <1>2, <1>3 DEF Expected, Awaited
  <2>2. QED
    BY <2>1, <1>2, <1>3, <1>4 DEF DispatchInv, ExpectedIsQueued, Heard
<1>8. QED
  BY <1>5, <1>6, <1>7

LEMMA CallerKeepsQueued ==
    ASSUME DispatchInv, NEW c \in Callers, CallerStep(c)
    PROVE  OnlyIssuedJobs' /\ FreshJobs' /\ ExpectedIsQueued'
<1>1. /\ TypeOK
      /\ caller \in [Callers -> Caller]
      /\ caller[c].todo \subseteq Jobs
  BY DEF DispatchInv, SchedulingInv, TypeOK, Caller
<1>2. CASE ~Enqueue(c) /\ ~CreateRecord(c)
  <2>1. /\ UNCHANGED <<issued, pendingJobs, mode, recovery>>
        /\ \A d \in Callers \ {c} : caller'[d] = caller[d]
    BY <1>1, <1>2, CallerFrame DEF queueVars, bootVars
  <2>2. /\ \A j \in Jobs :
             /\ Handles(c, j)' => Handles(c, j)
             /\ Overwrites(c, j)' => Overwrites(c, j) \/ Heard(j)'
             /\ record'[j] # record[j] => Overwrites(c, j)
             /\ Heard(j) => Heard(j)'
        /\ caller'[c].op \notin {"create", "enqueue"}
    BY <1>1, <1>2, CallerCopies
  <2>3. \A d \in Callers \ {c} : \A j \in Jobs :
              /\ Handles(d, j)' <=> Handles(d, j)
              /\ Overwrites(d, j)' <=> Overwrites(d, j)
    BY <2>1 DEF Handles, Overwrites
  <2>4. \A j \in Jobs, d \in Callers : /\ Handles(d, j)' => Handles(d, j)
                                       /\ Overwrites(d, j) => Handles(d, j)
    BY <2>2, <2>3 DEF Handles, Overwrites
  <2>5. OnlyIssuedJobs'
    BY <2>1, <2>2, <2>4 DEF DispatchInv, OnlyIssuedJobs
  <2>6. FreshJobs'
    <3> SUFFICES ASSUME NEW d \in Callers, caller'[d].op = "create",
                        NEW j \in caller'[d].todo
                 PROVE  record'[j] = Absent /\ \A e \in Callers : ~Handles(e, j)'
      BY DEF FreshJobs
    <3>1. caller'[d] = caller[d]
      BY <2>1, <2>2
    <3>2. j \in Jobs
      BY <3>1, <1>1 DEF Caller
    <3>3. record[j] = Absent /\ \A e \in Callers : ~Handles(e, j)
      BY <3>1 DEF DispatchInv, FreshJobs
    <3>4. QED
      BY <3>2, <3>3, <2>2, <2>4
  <2>7. ExpectedIsQueued'
    <3>1. \A j \in Jobs : Expected(j)' => Expected(j)
      BY <2>1, <2>2 DEF Expected, Awaited
    <3>2. QED
      BY <3>1, <2>2, <2>3 DEF DispatchInv, ExpectedIsQueued
  <2>8. QED
    BY <2>5, <2>6, <2>7
<1>3. CASE Enqueue(c)
  <2>1. PICK j \in caller[c].todo : EnqueueJob(j)
    BY <1>3 DEF Enqueue
  <2>2. /\ UNCHANGED <<record, issued, mode, recovery>>
        /\ caller[c].op = "enqueue"
        /\ caller' = [caller EXCEPT ![c] = IdleCaller]
    BY <1>3 DEF Enqueue, bootVars
  <2>3. j \in Jobs /\ j \notin Elements(pendingJobs)
    BY <1>1, <2>1, <2>2 DEF DispatchInv, SchedulingInv, OnePlace, Creating, Placed
  <2>4. /\ Elements(pendingJobs') = Elements(pendingJobs) \cup {j}
        /\ \A k \in Jobs : Heard(k)' <=> Heard(k)
    <3>1. {k \in Jobs : Heard(k)}' = {k \in Jobs : Heard(k)}
      BY <1>1, <2>1, <2>3, EnqueueFrame
    <3>2. Elements(pendingJobs') = Elements(pendingJobs) \cup {j}
      BY <1>1, <2>1, <2>3, EnqueueFrame
    <3>3. QED
      BY <3>1, <3>2
  <2>5. \A k \in Jobs, d \in Callers :
            /\ Handles(d, k)' => Handles(d, k)
            /\ Overwrites(d, k)' => Overwrites(d, k)
    BY <1>1, <2>2 DEF Handles, Overwrites, IdleCaller
  <2>6. \A k \in Jobs : Expected(k)' => Expected(k)
    BY <1>1, <2>1, <2>2, <2>4 DEF Expected, Awaited, IdleCaller
  <2>7. FreshJobs'
    <3> SUFFICES ASSUME NEW d \in Callers, caller'[d].op = "create",
                        NEW k \in caller'[d].todo
                 PROVE  record'[k] = Absent /\ \A e \in Callers : ~Handles(e, k)'
      BY DEF FreshJobs
    <3>1. caller'[d] = caller[d]
      BY <1>1, <2>2 DEF IdleCaller
    <3>2. k \in Jobs
      BY <3>1, <1>1 DEF Caller
    <3>3. QED
      BY <3>1, <3>2, <2>2, <2>5 DEF DispatchInv, FreshJobs
  <2>8. QED
    BY <2>2, <2>4, <2>5, <2>6, <2>7
       DEF DispatchInv, OnlyIssuedJobs, ExpectedIsQueued
<1>4. CASE CreateRecord(c)
  <2> DEFINE Created ==
               /\ \A k \in Jobs : record'[k] = IF k \in caller[c].todo
                                               THEN Queued ELSE record[k]
               /\ caller'[c].op = "enqueue"
               /\ caller'[c].todo = caller[c].todo
               /\ caller'[c].writing = caller[c].writing
             Rejected ==
               /\ record' = record
               /\ caller'[c] = IdleCaller
  <2>1. /\ UNCHANGED <<issued, pendingJobs, cancelEvents, mode, recovery>>
        /\ caller[c].op = "create"
        /\ \A d \in Callers \ {c} : caller'[d] = caller[d]
    BY <1>1, <1>4 DEF CreateRecord, queueVars, bootVars
  <2>2. Created \/ Rejected
    <3>1. DOMAIN caller[c] = {"op", "snap", "todo", "writing", "signal"}
      BY <1>1 DEF Caller
    <3>2. QED
      BY <1>1, <1>4, <3>1 DEF CreateRecord
  <2>3. \A k \in Jobs, d \in Callers :
            /\ Handles(d, k)' => Handles(d, k)
            /\ Overwrites(d, k)' => Overwrites(d, k)
            /\ Overwrites(d, k) => Handles(d, k)
    BY <2>1, <2>2 DEF Handles, Overwrites, IdleCaller
  <2>4. \A k \in caller[c].todo : /\ k \in Elements(issued)
                                  /\ \A d \in Callers : ~Handles(d, k)
    BY <2>1 DEF DispatchInv, SchedulingInv, OnePlace, Creating, FreshJobs
  <2>5. OnlyIssuedJobs'
    BY <2>1, <2>2, <2>3, <2>4 DEF DispatchInv, OnlyIssuedJobs
  <2>6. FreshJobs'
    <3> SUFFICES ASSUME NEW d \in Callers, caller'[d].op = "create",
                        NEW k \in caller'[d].todo
                 PROVE  record'[k] = Absent /\ \A e \in Callers : ~Handles(e, k)'
      BY DEF FreshJobs
    <3>1. d # c /\ caller'[d] = caller[d]
      BY <2>1, <2>2 DEF IdleCaller
    <3>2. k \in Jobs /\ k \notin caller[c].todo
      BY <1>1, <2>1, <3>1
         DEF Caller, DispatchInv, SchedulingInv, OnePlace, Creating
    <3>3. QED
      BY <3>1, <3>2, <2>2, <2>3 DEF DispatchInv, FreshJobs
  <2>7. ExpectedIsQueued'
    <3> SUFFICES ASSUME NEW k \in Jobs, Expected(k)', ~Heard(k)'
                 PROVE  /\ record'[k].status = "queued"
                        /\ \A d \in Callers : ~Overwrites(d, k)'
      BY DEF ExpectedIsQueued
    <3>1. ~Heard(k)
      BY <2>1 DEF Heard
    <3>2. CASE Created /\ k \in caller[c].todo
      BY <3>2, <2>3, <2>4 DEF Queued
    <3>3. CASE Rejected \/ k \notin caller[c].todo
      <4>1. Expected(k) /\ record'[k] = record[k]
        BY <2>1, <2>2, <3>3 DEF Expected, Awaited, IdleCaller
      <4>2. QED
        BY <3>1, <4>1, <2>3 DEF DispatchInv, ExpectedIsQueued
    <3>4. QED
      BY <2>2, <3>2, <3>3
  <2>8. QED
    BY <2>5, <2>6, <2>7
<1>5. QED
  BY <1>2, <1>3, <1>4

LEMMA RebootKeepsQueued ==
    ASSUME DispatchInv, Restart \/ Boot
    PROVE  OnlyIssuedJobs' /\ FreshJobs' /\ ExpectedIsQueued'
<1>1. TypeOK
  BY DEF DispatchInv, SchedulingInv
<1>2. CASE Restart
  <2>1. /\ UNCHANGED <<record, issued>>
        /\ pendingJobs' = <<>> /\ mode' = "recovering"
        /\ caller' = [c \in Callers |-> IdleCaller]
    BY <1>2 DEF Restart
  <2>2. \A c \in Callers : caller'[c].op = "idle" /\ caller'[c].writing = {}
    BY <2>1 DEF IdleCaller
  <2>3. \A j \in Jobs : ~Expected(j)' /\ \A c \in Callers : ~Handles(c, j)'
    BY <2>1, <2>2 DEF Expected, Awaited, Elements, Handles
  <2>4. QED
    BY <2>1, <2>2, <2>3
       DEF DispatchInv, OnlyIssuedJobs, FreshJobs, ExpectedIsQueued
<1>3. ASSUME Boot
      PROVE  OnlyIssuedJobs' /\ FreshJobs' /\ ExpectedIsQueued'
  <2>1. /\ UNCHANGED <<issued, caller>>
        /\ mode # "up"
    BY <1>3 DEF Boot, Reconcile, StartScheduler, Requeue, Serve
  <2>2. \A c \in Callers : caller[c].op = "idle" /\ caller[c].writing = {}
    BY <2>1 DEF DispatchInv, SchedulingInv, QuietBoot, IdleCaller
  <2>3. \A j \in Jobs, c \in Callers : ~Handles(c, j)' /\ ~Overwrites(c, j)'
    BY <2>1, <2>2 DEF Handles, Overwrites
  <2>4. FreshJobs'
    BY <2>1, <2>2 DEF FreshJobs
  <2>5. OnlyIssuedJobs'
    <3>1. \A j \in Jobs : record[j] = Absent => record'[j] = Absent
      BY <1>1, <1>3 DEF Boot, Reconcile, StartScheduler, Requeue, Serve,
                        Absent, Terminal, TypeOK
    <3>2. QED
      BY <2>1, <2>3, <3>1 DEF DispatchInv, OnlyIssuedJobs
  <2>6. ExpectedIsQueued'
    <3>1. ASSUME NEW j \in Jobs, Reconcile(j) PROVE ExpectedIsQueued'
      <4>1. mode' = "recovering" /\ Elements(pendingJobs') = {}
        BY <3>1 DEF Reconcile, queueVars, DispatchInv, SchedulingInv,
                    QuietBoot, Placed
      <4>2. \A k \in Jobs : ~Expected(k)'
        BY <2>1, <2>2, <4>1 DEF Expected, Awaited
      <4>3. QED
        BY <4>2 DEF ExpectedIsQueued
    <3>2. CASE StartScheduler
      <4>1. /\ Elements(pendingJobs') = {}
            /\ recovery' = {j \in Jobs : record[j].status = "queued"}
            /\ UNCHANGED record
        BY <3>2 DEF StartScheduler, queueVars, DispatchInv, SchedulingInv,
                    QuietBoot, Placed
      <4>2. \A k \in Jobs : Expected(k)' => record'[k].status = "queued"
        BY <2>1, <2>2, <4>1 DEF Expected, Awaited
      <4>3. QED
        BY <4>2, <2>3 DEF ExpectedIsQueued
    <3>3. CASE Requeue
      <4>1. PICK i \in DOMAIN issued : /\ issued[i] \in recovery
                                       /\ EnqueueJob(issued[i])
                                       /\ recovery' = recovery \ {issued[i]}
        BY <3>3 DEF Requeue
      <4> DEFINE j == issued[i]
      <4>2. /\ UNCHANGED <<record, mode>>
            /\ mode = "requeueing"
        BY <3>3 DEF Requeue
      <4>3. j \in Jobs /\ j \in Awaited /\ j \notin Elements(pendingJobs)
        BY <1>1, <4>1, <4>2 DEF TypeOK, Awaited, DispatchInv, SchedulingInv,
                                OnePlace, Placed
      <4>4. /\ Elements(pendingJobs') = Elements(pendingJobs) \cup {j}
            /\ {k \in Jobs : Heard(k)}' = {k \in Jobs : Heard(k)}
        BY <1>1, <4>1, <4>3, EnqueueFrame
      <4> HIDE DEF j
      <4>5. Awaited' \subseteq Awaited
        BY <4>1, <4>2 DEF Awaited
      <4>6. \A k \in Jobs : /\ Expected(k)' => Expected(k)
                            /\ Heard(k) => Heard(k)'
        BY <2>1, <4>3, <4>4, <4>5 DEF Expected
      <4>7. QED
        BY <4>2, <4>6, <2>3 DEF DispatchInv, ExpectedIsQueued
    <3>4. CASE Serve
      <4>1. \A k \in Jobs : Expected(k)' => Expected(k)
        BY <2>1, <3>4 DEF Serve, queueVars, Expected, Awaited
      <4>2. QED
        BY <4>1, <2>3, <3>4 DEF Serve, DispatchInv, ExpectedIsQueued, Heard
    <3>5. QED
      BY <1>3, <3>1, <3>2, <3>3, <3>4 DEF Boot
  <2>7. QED
    BY <2>4, <2>5, <2>6
<1>4. QED
  BY <1>2, <1>3

LEMMA DispatchInvStep ==
    ASSUME DispatchInv, [Next]_vars
    PROVE  DispatchInv'
<1>1. SchedulingInv' /\ TypeOK
  BY SchedulingStep DEF DispatchInv, SchedulingInv
<1> DEFINE Goal == OnlyIssuedJobs' /\ FreshJobs' /\ ExpectedIsQueued'
<1>2. CASE Dispatch
  BY <1>1, <1>2, DispatchKeepsQueued DEF DispatchInv
<1>3. ASSUME NEW j \in Jobs, WorkerStep(j) PROVE Goal
  <2>1. CASE Exit(j)
    <3>1. j \in Live
      BY <2>1, ExitPlaces DEF DispatchInv
    <3>2. \A k \in Jobs \ {j} : Heard(k)' = Heard(k)
      BY <1>1, <2>1 DEF Exit, Heard, TypeOK
    <3>3. UNCHANGED <<record, issued, pendingJobs, caller, bootVars>>
      BY <2>1 DEF Exit
    <3>4. QED
      BY <3>1, <3>2, <3>3, WorkerKeepsQueued
  <2>2. CASE Stamp(j) \/ RecordStep(j) \/ OutsideStep(j)
    <3>1. /\ UNCHANGED <<issued, pendingJobs, cancelEvents, caller, bootVars>>
          /\ j \in Live
          /\ \A k \in Jobs \ {j} : record'[k] = record[k]
      BY <1>1, <2>2, WorkerFrame DEF queueVars
    <3>2. \A k \in Jobs \ {j} : Heard(k)' = Heard(k)
      BY <3>1 DEF Heard
    <3>3. QED
      BY <3>1, <3>2, WorkerKeepsQueued
  <2>3. QED
    BY <1>3, <2>1, <2>2 DEF WorkerStep
<1>4. ASSUME UNCHANGED <<record, issued, pendingJobs, cancelEvents, caller,
                         bootVars>>
      PROVE  Goal
  BY <1>4 DEF DispatchInv, OnlyIssuedJobs, FreshJobs, ExpectedIsQueued,
              Expected, Awaited, Handles, Overwrites, Heard, bootVars
<1>5. ASSUME NEW j \in Jobs, ProcessEnds(j) \/ SwitchPin(j) PROVE Goal
  BY <1>4, <1>5 DEF ProcessEnds, SwitchPin, queueVars
<1>6. ASSUME NEW c \in Callers, Request(c) \/ CallerStep(c) PROVE Goal
  BY <1>6, RequestKeepsQueued, CallerKeepsQueued
<1>7. CASE Restart \/ Boot
  BY <1>1, <1>7, RebootKeepsQueued DEF DispatchInv
<1>8. CASE UNCHANGED vars
  BY <1>1, <1>4, <1>8 DEF vars, queueVars, DispatchInv
<1>9. QED
  BY <1>1, <1>2, <1>3, <1>5, <1>6, <1>7, <1>8 DEF Next, DispatchInv

\* Only the scheduler starts a worker, and only for the head of the queue.
LEMMA OnlyDispatchStarts ==
    ASSUME DispatchInv, [Next]_vars, NEW j \in Jobs, j \in Live' \ Live
    PROVE  record[j].status = "queued"
<1>1. SchedulingInv /\ TypeOK
  BY DEF DispatchInv, SchedulingInv
<1>2. CASE Dispatch
  <2> DEFINE h == Head(pendingJobs)
  <2>1. pendingJobs \in Seq(Jobs) /\ pendingJobs # <<>> /\ Once(pendingJobs)
    BY <1>1, <1>2 DEF TypeOK, SchedulingInv, OnePlace, Dispatch
  <2>2. h \in Elements(pendingJobs)
    BY <2>1, TailElements
  <2>3. ~Heard(h) /\ j = h
    BY <1>1, <1>2, <2>1 DEF Dispatch, Live, At, TypeOK
  <2>4. Expected(j)
    BY <2>2, <2>3 DEF Expected
  <2>5. QED
    BY <2>3, <2>4 DEF DispatchInv, ExpectedIsQueued
<1>3. ASSUME NEW k \in Jobs, WorkerStep(k) PROVE Live' \subseteq Live
  BY <1>1, <1>3, WorkerFrame, ExitPlaces DEF WorkerStep
<1>4. ASSUME NEW k \in Jobs, ProcessEnds(k) \/ SwitchPin(k)
      PROVE  Live' \subseteq Live
  BY <1>4 DEF ProcessEnds, SwitchPin, Live, At
<1>5. ASSUME NEW c \in Callers, Request(c) \/ CallerStep(c)
      PROVE  Live' \subseteq Live
  <2>1. UNCHANGED worker
    BY <1>1, <1>5, RequestFrame, CallerStepTypes
  <2>2. QED
    BY <2>1 DEF Live, At
<1>6. CASE Restart
  BY <1>6 DEF Restart, Live, At, IdleWorker
<1>7. CASE Boot
  BY <1>7 DEF Boot, Reconcile, StartScheduler, Requeue, Serve, Live, At
<1>8. CASE UNCHANGED vars
  BY <1>8 DEF vars, Live, At
<1>9. QED
  BY <1>2, <1>3, <1>4, <1>5, <1>6, <1>7, <1>8 DEF Next

THEOREM DispatchInvariant == Spec => []DispatchInv
<1>1. Init => DispatchInv
  <2> SUFFICES ASSUME Init PROVE DispatchInv
    OBVIOUS
  <2>1. SchedulingInv
    BY InitScheduling
  <2>2. \A c \in Callers : caller[c].op = "idle" /\ caller[c].writing = {}
    BY DEF Init, IdleCaller
  <2>3. \A j \in Jobs : ~Expected(j) /\ \A c \in Callers : ~Handles(c, j)
    BY <2>2 DEF Init, Expected, Awaited, Elements, Handles
  <2>4. QED
    BY <2>1, <2>2, <2>3
       DEF Init, DispatchInv, OnlyIssuedJobs, FreshJobs, ExpectedIsQueued
<1>2. DispatchInv /\ [Next]_vars => DispatchInv'
  BY DispatchInvStep
<1>3. QED
  BY <1>1, <1>2, PTL DEF Spec

\* No benchmark starts for a job whose file says anything but queued:
\* cancelled before its turn, a job is dropped without a second look at disk.
THEOREM SlotsGoToTheQueued == Spec => SlotsGoToQueuedJobs
<1>1. DispatchInv /\ [Next]_vars =>
        [\A j \in Jobs : j \in Live' \ Live => record[j].status = "queued"]_vars
  BY OnlyDispatchStarts
<1>2. QED
  BY <1>1, DispatchInvariant, PTL DEF Spec, SlotsGoToQueuedJobs
=============================================================================
