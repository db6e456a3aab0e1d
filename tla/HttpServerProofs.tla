--------------------------- MODULE HttpServerProofs ---------------------------
(***************************************************************************)
(* Proofs about HttpServer, for any connections, workers and suites, and   *)
(* however many loads raise.                                               *)
(*                                                                         *)
(* The pool: every count of the server (free slots, active requests, work  *)
(* queued, threads) is the number of connections in certain states, and a  *)
(* step that moves one connection changes each count by what the code adds *)
(* or takes.  That a submitted request has a thread of its own needs both  *)
(* the number of slots, where the executor starts no further thread, and   *)
(* the number of threads that are idle, where it relies on one.            *)
(*                                                                         *)
(* The catalogue: a suite is in _loading exactly while one caller loads    *)
(* it, and then it has no list yet.                                        *)
(***************************************************************************)
EXTENDS HttpServer, FiniteSetTheorems, TLAPS

\* The connections in one of the states K.
Among(K) == {c \in Connections : conn[c] \in K}
Submitted == {c \in Connections : conn[c] = "submitted"}

\* The counts of the executor.
ExecutorCounts ==
    /\ Len(queue) = Cardinality(Submitted)
    /\ idle + Cardinality(Busy) <= threads

PoolInv ==
    /\ TypeOK
    /\ SlotPerRequest
    /\ ActiveIsExact
    /\ ExecutorCounts
    /\ NoRequestWaitsForAnother

\* Only a request for tasks that is being served is in the catalogue.
ReadersAsk ==
    \A c \in Connections : reader[c] # "out" => conn[c] = "serving" /\ wants[c] # Other

CatalogInv ==
    /\ ReadersAsk
    /\ \A c \in Callers : reader[c] \in {"loading", "waiting"} => SuiteOf(c) \in loading
    /\ \A s \in loading :
         /\ tasks[s] = NotLoaded
         /\ \E c \in Callers : reader[c] = "loading" /\ SuiteOf(c) = s
    /\ \A c, d \in Callers :
         reader[c] = "loading" /\ reader[d] = "loading" /\ SuiteOf(c) = SuiteOf(d) => c = d

ServerInv == PoolInv /\ CatalogInv

-----------------------------------------------------------------------------
(***************************************************************************)
(* Counting connections.                                                   *)
(***************************************************************************)

LEMMA AmongFinite ==
    ASSUME NEW K
    PROVE  IsFiniteSet(Among(K)) /\ Cardinality(Among(K)) \in Nat
<1>1. IsFiniteSet(Connections)
  BY ServerAssumption
<1>2. Among(K) \subseteq Connections
  BY DEF Among
<1> QED
  BY <1>1, <1>2, FS_Subset, FS_CardinalityType

\* One connection moves: a count goes up, goes down or stays.
LEMMA MoveCounts ==
    ASSUME conn \in [Connections -> ConnState],
           NEW c \in Connections, NEW from \in ConnState, NEW to \in ConnState,
           Move(c, from, to), NEW K
    PROVE  /\ from \notin K /\ to \in K
                => Cardinality(Among(K)') = Cardinality(Among(K)) + 1
           /\ from \in K /\ to \notin K
                => Cardinality(Among(K)') = Cardinality(Among(K)) - 1
           /\ (from \in K <=> to \in K)
                => Cardinality(Among(K)') = Cardinality(Among(K))
<1>1. /\ conn[c] = from /\ conn'[c] = to
      /\ \A d \in Connections \ {c} : conn'[d] = conn[d]
  BY DEF Move
<1>2. IsFiniteSet(Among(K))
  BY AmongFinite
<1>3. CASE from \notin K /\ to \in K
  <2>1. Among(K)' = Among(K) \cup {c} /\ c \notin Among(K)
    BY <1>1, <1>3 DEF Among
  <2> QED
    BY <2>1, <1>2, <1>3, FS_AddElement
<1>4. CASE from \in K /\ to \notin K
  <2>1. Among(K)' = Among(K) \ {c} /\ c \in Among(K)
    BY <1>1, <1>4 DEF Among
  <2> QED
    BY <2>1, <1>2, <1>4, FS_RemoveElement
<1>5. CASE from \in K <=> to \in K
  <2>1. Among(K)' = Among(K)
    BY <1>1, <1>5 DEF Among
  <2> QED
    BY <2>1, <1>5
<1> QED
  BY <1>3, <1>4, <1>5

\* The sets of the specification, by their states.
HolderStates == {"slot", "counted", "submitted", "serving", "closing", "uncounted"}
CountedStates == {"counted", "submitted", "serving", "closing"}
BusyStates == {"serving", "closing", "uncounted"}

LEMMA SetsByState ==
    /\ Holders = Among(HolderStates)
    /\ Counted = Among(CountedStates)
    /\ Busy = Among(BusyStates)
    /\ Submitted = Among({"submitted"})
BY DEF Holders, Counted, Busy, Submitted, Among, HolderStates, CountedStates, BusyStates

LEMMA CountsAreNumbers ==
    /\ Cardinality(Holders) \in Nat
    /\ Cardinality(Counted) \in Nat
    /\ Cardinality(Busy) \in Nat
    /\ Cardinality(Submitted) \in Nat
BY AmongFinite, SetsByState

\* A connection that is in one of the states K is counted there.
LEMMA OneAtLeast ==
    ASSUME NEW K, NEW c \in Connections, conn[c] \in K
    PROVE  Cardinality(Among(K)) > 0
<1>1. c \in Among(K)
  BY DEF Among
<1>2. IsFiniteSet(Among(K)) /\ Cardinality(Among(K)) \in Nat
  BY AmongFinite
<1>3. Cardinality(Among(K)) # 0
  BY <1>1, <1>2, FS_EmptySet
<1> QED
  BY <1>2, <1>3

\* Those with work are among those with a slot.
LEMMA WorkersHoldSlots ==
    /\ Cardinality(Submitted) + Cardinality(Busy) <= Cardinality(Holders)
    /\ (\E c \in Connections : conn[c] = "counted")
         => Cardinality(Submitted) + Cardinality(Busy) < Cardinality(Holders)
<1>1. /\ IsFiniteSet(Submitted) /\ IsFiniteSet(Busy) /\ IsFiniteSet(Holders)
  BY AmongFinite, SetsByState
<1>2. Submitted \cap Busy = {} /\ Cardinality({}) = 0
  BY FS_EmptySet DEF Submitted, Busy
<1>3. /\ IsFiniteSet(Submitted \cup Busy)
      /\ Cardinality(Submitted \cup Busy) = Cardinality(Submitted) + Cardinality(Busy)
  <2>1. /\ IsFiniteSet(Submitted \cup Busy)
        /\ Cardinality(Submitted \cup Busy)
             = Cardinality(Submitted) + Cardinality(Busy) - Cardinality(Submitted \cap Busy)
    BY <1>1, FS_Union
  <2>2. Cardinality(Submitted \cap Busy) = 0
    BY <1>2
  <2> QED
    BY <2>1, <2>2, CountsAreNumbers
<1>4. Submitted \cup Busy \subseteq Holders
  BY DEF Submitted, Busy, Holders
<1>5. Cardinality(Submitted \cup Busy) <= Cardinality(Holders)
  BY <1>1, <1>4, FS_Subset
<1>6. ASSUME NEW c \in Connections, conn[c] = "counted"
      PROVE  Cardinality(Submitted) + Cardinality(Busy) < Cardinality(Holders)
  <2>1. c \in Holders /\ c \notin Submitted \cup Busy
    BY <1>6 DEF Holders, Submitted, Busy
  <2>2. Cardinality(Submitted \cup Busy) # Cardinality(Holders)
    BY <2>1, <1>1, <1>4, FS_Subset
  <2> QED
    BY <2>2, <1>3, <1>5, CountsAreNumbers
<1>7. Cardinality(Submitted) + Cardinality(Busy) <= Cardinality(Holders)
  BY <1>3, <1>5
<1> QED
  BY <1>6, <1>7, Zenon

-----------------------------------------------------------------------------
(***************************************************************************)
(* The pool.                                                               *)
(***************************************************************************)

LEMMA PoolInit == Init => PoolInv
<1> SUFFICES ASSUME Init PROVE PoolInv
  OBVIOUS
<1>1. /\ Holders = {} /\ Counted = {} /\ Busy = {} /\ Submitted = {}
  BY DEF Init, Holders, Counted, Busy, Submitted
<1>2. /\ Cardinality(Holders) = 0 /\ Cardinality(Counted) = 0
      /\ Cardinality(Busy) = 0 /\ Cardinality(Submitted) = 0
  BY <1>1, FS_EmptySet
<1>3. TypeOK
  <2>1. MaxWorkers \in 0..MaxWorkers /\ 0 \in 0..MaxWorkers /\ 0 \in 0..LoadFailures
    BY ServerAssumption
  <2>2. /\ conn \in [Connections -> ConnState]
        /\ tasks \in [Suites -> TaskList]
        /\ reader \in [Callers -> ReaderState]
        /\ queue \in Seq(Connections)
    BY DEF Init, ConnState, TaskList, ReaderState
  <2> QED
    BY <2>1, <2>2 DEF Init, TypeOK
<1> QED
  BY <1>2, <1>3, ServerAssumption
     DEF Init, PoolInv, SlotPerRequest, ActiveIsExact, ExecutorCounts, NoRequestWaitsForAnother
\* What a move does to the counts.
In(x, K) == IF x \in K THEN 1 ELSE 0

LEMMA MoveEffects ==
    ASSUME TypeOK, NEW c \in Connections, NEW from \in ConnState, NEW to \in ConnState,
           Move(c, from, to)
    PROVE  /\ conn' \in [Connections -> ConnState]
           /\ Cardinality(Holders') = Cardinality(Holders) + In(to, HolderStates) - In(from, HolderStates)
           /\ Cardinality(Counted') = Cardinality(Counted) + In(to, CountedStates) - In(from, CountedStates)
           /\ Cardinality(Busy') = Cardinality(Busy) + In(to, BusyStates) - In(from, BusyStates)
           /\ Cardinality(Submitted')
                = Cardinality(Submitted) + In(to, {"submitted"}) - In(from, {"submitted"})
<1>1. conn \in [Connections -> ConnState]
  BY DEF TypeOK
<1>2. ASSUME NEW K
      PROVE  Cardinality(Among(K)') = Cardinality(Among(K)) + In(to, K) - In(from, K)
  <2>1. Cardinality(Among(K)) \in Nat
    BY AmongFinite
  <2> QED
    BY <2>1, <1>1, MoveCounts DEF In
<1>3. /\ Holders' = Among(HolderStates)'
      /\ Counted' = Among(CountedStates)'
      /\ Busy' = Among(BusyStates)'
      /\ Submitted' = Among({"submitted"})'
  BY DEF Holders, Counted, Busy, Submitted, Among, HolderStates, CountedStates, BusyStates
<1>4. conn' \in [Connections -> ConnState]
  BY <1>1 DEF Move
<1>5. /\ Cardinality(Among(HolderStates)') = Cardinality(Among(HolderStates)) + In(to, HolderStates) - In(from, HolderStates)
      /\ Cardinality(Among(CountedStates)') = Cardinality(Among(CountedStates)) + In(to, CountedStates) - In(from, CountedStates)
      /\ Cardinality(Among(BusyStates)') = Cardinality(Among(BusyStates)) + In(to, BusyStates) - In(from, BusyStates)
      /\ Cardinality(Among({"submitted"})') = Cardinality(Among({"submitted"})) + In(to, {"submitted"}) - In(from, {"submitted"})
  BY <1>2
<1> QED
  BY <1>3, <1>4, <1>5, SetsByState

\* A step that moves no connection changes no count.
LEMMA StandingStill ==
    ASSUME conn' = conn
    PROVE  /\ Holders' = Holders /\ Counted' = Counted
           /\ Busy' = Busy /\ Submitted' = Submitted
BY DEF Holders, Counted, Busy, Submitted

\* The thread that accepts connections.
LEMMA AcceptKeepsPool ==
    ASSUME PoolInv, NEW c \in Connections, Accept(c)
    PROVE  PoolInv'
<1>1. /\ TypeOK /\ SlotPerRequest /\ ActiveIsExact /\ ExecutorCounts
      /\ NoRequestWaitsForAnother
  BY DEF PoolInv
<1>2. /\ MaxWorkers \in Nat \ {0} /\ slots \in 0..MaxWorkers /\ active \in Nat
      /\ threads \in 0..MaxWorkers /\ idle \in 0..threads
      /\ queue \in Seq(Connections) /\ Len(queue) \in Nat
  BY <1>1, ServerAssumption DEF TypeOK
<1>3. {"new", "slot", "counted", "submitted", "refused"} \subseteq ConnState
  BY DEF ConnState
<1>4. CASE RefuseBusy(c)
  <2>1. /\ conn' \in [Connections -> ConnState]
        /\ Cardinality(Holders') = Cardinality(Holders)
        /\ Cardinality(Counted') = Cardinality(Counted)
        /\ Cardinality(Busy') = Cardinality(Busy)
        /\ Cardinality(Submitted') = Cardinality(Submitted)
    BY <1>4, <1>1, <1>3, MoveEffects, CountsAreNumbers
       DEF RefuseBusy, In, HolderStates, CountedStates, BusyStates
  <2>2. TypeOK'
    BY <1>4, <1>1, <2>1 DEF RefuseBusy, TypeOK, poolVars, catalogVars
  <2> QED
    BY <2>1, <2>2, <1>1, <1>4
       DEF RefuseBusy, poolVars, PoolInv, SlotPerRequest, ActiveIsExact, ExecutorCounts,
           NoRequestWaitsForAnother
<1>5. CASE AcquireSlot(c)
  <2>1. /\ conn' \in [Connections -> ConnState]
        /\ Cardinality(Holders') = Cardinality(Holders) + 1
        /\ Cardinality(Counted') = Cardinality(Counted)
        /\ Cardinality(Busy') = Cardinality(Busy)
        /\ Cardinality(Submitted') = Cardinality(Submitted)
    BY <1>5, <1>1, <1>3, MoveEffects, CountsAreNumbers
       DEF AcquireSlot, In, HolderStates, CountedStates, BusyStates
  <2>2. slots' = slots - 1 /\ slots' \in 0..MaxWorkers
    BY <1>5, <1>2 DEF AcquireSlot
  <2>3. TypeOK'
    BY <1>5, <1>1, <2>1, <2>2 DEF AcquireSlot, TypeOK, catalogVars
  <2> QED
    BY <2>1, <2>2, <2>3, <1>1, <1>2, <1>5, CountsAreNumbers
       DEF AcquireSlot, PoolInv, SlotPerRequest, ActiveIsExact, ExecutorCounts,
           NoRequestWaitsForAnother
<1>6. CASE CountRequest(c)
  <2>1. /\ conn' \in [Connections -> ConnState]
        /\ Cardinality(Holders') = Cardinality(Holders)
        /\ Cardinality(Counted') = Cardinality(Counted) + 1
        /\ Cardinality(Busy') = Cardinality(Busy)
        /\ Cardinality(Submitted') = Cardinality(Submitted)
    BY <1>6, <1>1, <1>3, MoveEffects, CountsAreNumbers
       DEF CountRequest, In, HolderStates, CountedStates, BusyStates
  <2>2. active' = active + 1 /\ active' \in Nat
    BY <1>6, <1>2 DEF CountRequest
  <2>3. TypeOK'
    BY <1>6, <1>1, <2>1, <2>2 DEF CountRequest, TypeOK, catalogVars
  <2> QED
    BY <2>1, <2>2, <2>3, <1>1, <1>2, <1>6, CountsAreNumbers
       DEF CountRequest, PoolInv, SlotPerRequest, ActiveIsExact, ExecutorCounts,
           NoRequestWaitsForAnother
<1>7. CASE Submit(c)
  <2>1. /\ conn' \in [Connections -> ConnState]
        /\ Cardinality(Holders') = Cardinality(Holders)
        /\ Cardinality(Counted') = Cardinality(Counted)
        /\ Cardinality(Busy') = Cardinality(Busy)
        /\ Cardinality(Submitted') = Cardinality(Submitted) + 1
    <3>1. Move(c, "counted", "submitted")
      BY <1>7 DEF Submit
    <3> QED
      BY <3>1, <1>1, <1>3, MoveEffects, CountsAreNumbers
         DEF In, HolderStates, CountedStates, BusyStates
  <2>2. queue' \in Seq(Connections) /\ Len(queue') = Len(queue) + 1
    BY <1>7, <1>2 DEF Submit
  <2>3. /\ threads' \in 0..MaxWorkers /\ idle' \in 0..threads'
        /\ idle > Len(queue) \/ threads = MaxWorkers => threads' = threads /\ idle' = idle
        /\ ~(idle > Len(queue) \/ threads = MaxWorkers)
             => threads' = threads + 1 /\ idle' = idle + 1
    BY <1>7, <1>2 DEF Submit
  <2>4. TypeOK'
    BY <1>7, <1>1, <2>1, <2>2, <2>3 DEF Submit, TypeOK, catalogVars
  <2>5. Cardinality(Submitted) + Cardinality(Busy) < Cardinality(Holders)
    BY <1>7, WorkersHoldSlots DEF Submit, Move
  <2>6. Len(queue) = Cardinality(Submitted) /\ idle + Cardinality(Busy) <= threads
    BY <1>1 DEF ExecutorCounts
  <2>7. slots + Cardinality(Holders) = MaxWorkers /\ Len(queue) + Cardinality(Busy) <= threads
    BY <1>1 DEF SlotPerRequest, NoRequestWaitsForAnother
  <2>8. /\ Len(queue') = Cardinality(Submitted')
        /\ idle' + Cardinality(Busy') <= threads'
        /\ Len(queue') + Cardinality(Busy') <= threads'
    <3>1. CASE idle > Len(queue)
      BY <3>1, <2>1, <2>2, <2>3, <2>6, <1>2, CountsAreNumbers
    <3>2. CASE threads = MaxWorkers
      BY <3>2, <2>1, <2>2, <2>3, <2>5, <2>6, <2>7, <1>2, CountsAreNumbers
    <3>3. CASE ~(idle > Len(queue) \/ threads = MaxWorkers)
      BY <3>3, <2>1, <2>2, <2>3, <2>6, <2>7, <1>2, CountsAreNumbers
    <3> QED
      BY <3>1, <3>2, <3>3
  <2> QED
    BY <2>1, <2>4, <2>8, <1>1, <1>7
       DEF Submit, PoolInv, SlotPerRequest, ActiveIsExact, ExecutorCounts,
           NoRequestWaitsForAnother
<1> QED
  BY <1>4, <1>5, <1>6, <1>7 DEF Accept
\* A worker and its request.
LEMMA ServeKeepsPool ==
    ASSUME PoolInv, NEW c \in Connections, Serve(c)
    PROVE  PoolInv'
<1>1. /\ TypeOK /\ SlotPerRequest /\ ActiveIsExact /\ ExecutorCounts
      /\ NoRequestWaitsForAnother
  BY DEF PoolInv
<1>2. /\ MaxWorkers \in Nat \ {0} /\ slots \in 0..MaxWorkers /\ active \in Nat
      /\ threads \in 0..MaxWorkers /\ idle \in 0..threads
      /\ queue \in Seq(Connections) /\ Len(queue) \in Nat
  BY <1>1, ServerAssumption DEF TypeOK
<1>3. {"serving", "closing", "uncounted", "closed"} \subseteq ConnState
  BY DEF ConnState
<1>4. CASE FinishRequest(c)
  <2>1. /\ conn' \in [Connections -> ConnState]
        /\ Cardinality(Holders') = Cardinality(Holders)
        /\ Cardinality(Counted') = Cardinality(Counted)
        /\ Cardinality(Busy') = Cardinality(Busy)
        /\ Cardinality(Submitted') = Cardinality(Submitted)
    <3>1. Move(c, "serving", "closing")
      BY <1>4 DEF FinishRequest
    <3> QED
      BY <3>1, <1>1, <1>3, MoveEffects, CountsAreNumbers
         DEF In, HolderStates, CountedStates, BusyStates
  <2>2. reader' \in [Callers -> ReaderState]
    BY <1>4, <1>1 DEF FinishRequest, TypeOK, ReaderState, Callers
  <2>3. TypeOK'
    BY <1>4, <1>1, <2>1, <2>2 DEF FinishRequest, TypeOK, poolVars
  <2> QED
    BY <2>1, <2>3, <1>1, <1>4
       DEF FinishRequest, poolVars, PoolInv, SlotPerRequest, ActiveIsExact, ExecutorCounts,
           NoRequestWaitsForAnother
<1>5. CASE UncountRequest(c)
  <2>1. /\ conn' \in [Connections -> ConnState]
        /\ Cardinality(Holders') = Cardinality(Holders)
        /\ Cardinality(Counted') = Cardinality(Counted) - 1
        /\ Cardinality(Busy') = Cardinality(Busy)
        /\ Cardinality(Submitted') = Cardinality(Submitted)
    <3>1. Move(c, "closing", "uncounted")
      BY <1>5 DEF UncountRequest
    <3> QED
      BY <3>1, <1>1, <1>3, MoveEffects, CountsAreNumbers
         DEF In, HolderStates, CountedStates, BusyStates
  <2>2. Cardinality(Counted) > 0
    BY <1>5, OneAtLeast, SetsByState DEF UncountRequest, Move, CountedStates
  <2>3. active' = active - 1 /\ active' \in Nat
    BY <1>5, <1>1, <1>2, <2>2 DEF UncountRequest, ActiveIsExact
  <2>4. TypeOK'
    BY <1>5, <1>1, <2>1, <2>3 DEF UncountRequest, TypeOK, catalogVars
  <2> QED
    BY <2>1, <2>3, <2>4, <1>1, <1>2, <1>5, CountsAreNumbers
       DEF UncountRequest, PoolInv, SlotPerRequest, ActiveIsExact, ExecutorCounts,
           NoRequestWaitsForAnother
<1>6. CASE ReleaseSlot(c)
  <2>1. /\ conn' \in [Connections -> ConnState]
        /\ Cardinality(Holders') = Cardinality(Holders) - 1
        /\ Cardinality(Counted') = Cardinality(Counted)
        /\ Cardinality(Busy') = Cardinality(Busy) - 1
        /\ Cardinality(Submitted') = Cardinality(Submitted)
    <3>1. Move(c, "uncounted", "closed")
      BY <1>6 DEF ReleaseSlot
    <3> QED
      BY <3>1, <1>1, <1>3, MoveEffects, CountsAreNumbers
         DEF In, HolderStates, CountedStates, BusyStates
  <2>2. Cardinality(Holders) > 0 /\ slots + Cardinality(Holders) = MaxWorkers
    BY <1>6, <1>1, OneAtLeast, SetsByState DEF ReleaseSlot, Move, HolderStates, SlotPerRequest
  <2>3. slots' = slots + 1 /\ slots' \in 0..MaxWorkers
    BY <1>6, <1>2, <2>2, CountsAreNumbers DEF ReleaseSlot
  <2>4. TypeOK'
    BY <1>6, <1>1, <2>1, <2>3 DEF ReleaseSlot, TypeOK, catalogVars
  <2>5. /\ SlotPerRequest' /\ ActiveIsExact'
    BY <2>1, <2>2, <2>3, <1>1, <1>2, <1>6, CountsAreNumbers
       DEF ReleaseSlot, SlotPerRequest, ActiveIsExact
  <2>6. ExecutorCounts' /\ NoRequestWaitsForAnother'
    BY <2>1, <1>1, <1>2, <1>6, CountsAreNumbers
       DEF ReleaseSlot, ExecutorCounts, NoRequestWaitsForAnother
  <2> QED
    BY <2>4, <2>5, <2>6 DEF PoolInv
<1> QED
  BY <1>4, <1>5, <1>6 DEF Serve

\* A thread takes work, or is idle again.
LEMMA ThreadsKeepPool ==
    ASSUME PoolInv, TakeWork \/ ThreadIdle
    PROVE  PoolInv'
<1>1. /\ TypeOK /\ SlotPerRequest /\ ActiveIsExact /\ ExecutorCounts
      /\ NoRequestWaitsForAnother
  BY DEF PoolInv
<1>2. /\ MaxWorkers \in Nat \ {0} /\ slots \in 0..MaxWorkers /\ active \in Nat
      /\ threads \in 0..MaxWorkers /\ idle \in 0..threads
      /\ queue \in Seq(Connections) /\ Len(queue) \in Nat
  BY <1>1, ServerAssumption DEF TypeOK
<1>3. {"submitted", "serving"} \subseteq ConnState
  BY DEF ConnState
<1>4. CASE TakeWork
  <2> DEFINE c == Head(queue)
  <2>0. c \in Connections
    BY <1>4, <1>2 DEF TakeWork
  <2>1. /\ conn' \in [Connections -> ConnState]
        /\ Cardinality(Holders') = Cardinality(Holders)
        /\ Cardinality(Counted') = Cardinality(Counted)
        /\ Cardinality(Busy') = Cardinality(Busy) + 1
        /\ Cardinality(Submitted') = Cardinality(Submitted) - 1
    <3>1. Move(c, "submitted", "serving")
      BY <1>4 DEF TakeWork
    <3> QED
      BY <3>1, <2>0, <1>1, <1>3, MoveEffects, CountsAreNumbers
         DEF In, HolderStates, CountedStates, BusyStates
  <2>2. queue' \in Seq(Connections) /\ Len(queue') = Len(queue) - 1
    BY <1>4, <1>2 DEF TakeWork
  <2>3. idle' = idle - 1 /\ idle' \in 0..threads
    BY <1>4, <1>2 DEF TakeWork
  <2>4. reader' \in [Callers -> ReaderState]
    BY <1>4, <1>1, <2>0 DEF TakeWork, TypeOK, ReaderState, Callers
  <2>5. TypeOK'
    BY <1>4, <1>1, <2>1, <2>2, <2>3, <2>4 DEF TakeWork, TypeOK
  <2> HIDE DEF c
  <2> QED
    BY <2>1, <2>2, <2>3, <2>5, <1>1, <1>2, <1>4, CountsAreNumbers
       DEF TakeWork, PoolInv, SlotPerRequest, ActiveIsExact, ExecutorCounts,
           NoRequestWaitsForAnother
<1>5. CASE ThreadIdle
  <2>1. conn' = conn
    BY <1>5 DEF ThreadIdle
  <2>2. idle' = idle + 1 /\ idle' \in 0..threads /\ idle' + Cardinality(Busy) <= threads
    BY <1>5, <1>2, CountsAreNumbers DEF ThreadIdle
  <2>3. TypeOK'
    BY <1>5, <1>1, <2>2 DEF ThreadIdle, TypeOK, catalogVars
  <2> QED
    BY <2>1, <2>2, <2>3, <1>1, <1>5, StandingStill
       DEF ThreadIdle, PoolInv, SlotPerRequest, ActiveIsExact, ExecutorCounts,
           NoRequestWaitsForAnother
<1> QED
  BY <1>4, <1>5

\* The catalogue does not touch the pool.
LEMMA ReadKeepsPool ==
    ASSUME PoolInv, ReadersAsk, NEW c \in Callers, Read(c)
    PROVE  PoolInv'
<1>1. TypeOK /\ LoadFailures \in Nat
  BY ServerAssumption DEF PoolInv
<1>2. UNCHANGED <<conn, wants, poolVars>>
  BY DEF Read, LookUp, LoadTasks, LoadRaises
<1>3. reader[c] # "out" => SuiteOf(c) \in Suites
  BY <1>1, ServerAssumption DEF SuiteOf, TypeOK, Callers, ReadersAsk
<1>4. reader' \in [Callers -> ReaderState]
  <2>1. ASSUME NEW to \in ReaderState, Goto(c, to) \/ NotifyAll(c, to)
        PROVE  reader' \in [Callers -> ReaderState]
    BY <1>1, <2>1 DEF Goto, NotifyAll, TypeOK, ReaderState
  <2>2. {"waiting", "answered", "loading", "raised"} \subseteq ReaderState
    BY DEF ReaderState
  <2> QED
    BY <2>1, <2>2 DEF Read, LookUp, LoadTasks, LoadRaises
<1>5. loading' \subseteq Suites /\ tasks' \in [Suites -> TaskList]
  BY <1>1, <1>3 DEF Read, LookUp, LoadTasks, LoadRaises, NotifyAll, TypeOK
<1>6. failures' \in 0..LoadFailures
  BY <1>1 DEF Read, LookUp, LoadTasks, LoadRaises, TypeOK
<1>7. TypeOK'
  BY <1>1, <1>2, <1>4, <1>5, <1>6 DEF TypeOK, poolVars
<1> QED
  BY <1>2, <1>7, StandingStill
     DEF poolVars, PoolInv, SlotPerRequest, ActiveIsExact, ExecutorCounts,
         NoRequestWaitsForAnother

-----------------------------------------------------------------------------
(***************************************************************************)
(* The catalogue.                                                          *)
(***************************************************************************)

LEMMA CatalogInit == Init => CatalogInv
<1> SUFFICES ASSUME Init PROVE CatalogInv
  OBVIOUS
<1>1. \A c \in Connections : reader[c] = "out"
  BY ServerAssumption DEF Init, Callers
<1>2. loading = {} /\ \A c \in Callers : reader[c] \in {"out", "enter"}
  BY DEF Init
<1> QED
  BY <1>1, <1>2 DEF CatalogInv, ReadersAsk

\* The pool takes a request into the catalogue and out of it, and touches
\* nobody in between.
LEMMA PoolKeepsCatalog ==
    ASSUME ServerInv,
           \/ \E c \in Connections : Accept(c) \/ Serve(c)
           \/ TakeWork \/ ThreadIdle
    PROVE  CatalogInv'
<1>1. TypeOK /\ CatalogInv /\ ReadersAsk
  BY DEF ServerInv, PoolInv, CatalogInv
<1>2. UNCHANGED <<wants, tasks, loading>>
  BY DEF Accept, Serve, RefuseBusy, AcquireSlot, CountRequest, Submit, FinishRequest,
         UncountRequest, ReleaseSlot, TakeWork, ThreadIdle, catalogVars
<1>3. \A c \in Callers : SuiteOf(c)' = SuiteOf(c)
  BY <1>2 DEF SuiteOf
<1>4. \A c \in Callers : reader'[c] # reader[c] =>
          reader[c] \notin {"loading", "waiting"} /\ reader'[c] \notin {"loading", "waiting"}
  <2>1. ASSUME NEW c \in Connections, Accept(c) PROVE reader' = reader
    BY <2>1 DEF Accept, RefuseBusy, AcquireSlot, CountRequest, Submit, catalogVars
  <2>2. ASSUME NEW c \in Connections, FinishRequest(c)
        PROVE  /\ \A d \in Callers : d # c => reader'[d] = reader[d]
               /\ reader'[c] = "out" /\ reader[c] \in {"out", "answered", "raised"}
    BY <2>2, <1>1 DEF FinishRequest, TypeOK, Callers, ReadersAsk
  <2>3. ASSUME NEW c \in Connections, UncountRequest(c) \/ ReleaseSlot(c)
        PROVE  reader' = reader
    BY <2>3 DEF UncountRequest, ReleaseSlot, catalogVars
  <2>4. ASSUME TakeWork
        PROVE  \E c \in Connections :
                 /\ \A d \in Callers : d # c => reader'[d] = reader[d]
                 /\ reader'[c] \in {"out", "enter"} /\ reader[c] = "out"
    <3>1. Head(queue) \in Connections
      BY <2>4, <1>1 DEF TakeWork, TypeOK
    <3> QED
      BY <2>4, <1>1, <3>1 DEF TakeWork, TypeOK, Callers, ReadersAsk, Move
  <2>5. ASSUME ThreadIdle PROVE reader' = reader
    BY <2>5 DEF ThreadIdle, catalogVars
  <2>6. \A c \in Connections : Serve(c) => FinishRequest(c) \/ UncountRequest(c) \/ ReleaseSlot(c)
    BY DEF Serve
  <2> QED
    BY <2>1, <2>2, <2>3, <2>4, <2>5, <2>6
<1>5. ReadersAsk'
  <2>1. ASSUME NEW c \in Connections, Accept(c) PROVE ReadersAsk'
    BY <2>1, <1>1 DEF Accept, RefuseBusy, AcquireSlot, CountRequest, Submit, catalogVars,
                      ReadersAsk, Move, TypeOK
  <2>2. ASSUME NEW c \in Connections, Serve(c) PROVE ReadersAsk'
    BY <2>2, <1>1 DEF Serve, FinishRequest, UncountRequest, ReleaseSlot, catalogVars,
                      ReadersAsk, Move, TypeOK, Callers
  <2>3. ASSUME TakeWork PROVE ReadersAsk'
    <3>1. Head(queue) \in Connections
      BY <2>3, <1>1 DEF TakeWork, TypeOK
    <3> QED
      BY <2>3, <1>1, <3>1 DEF TakeWork, ReadersAsk, Move, TypeOK, Callers
  <2>4. ASSUME ThreadIdle PROVE ReadersAsk'
    BY <2>4, <1>1 DEF ThreadIdle, catalogVars, ReadersAsk
  <2> QED
    BY <2>1, <2>2, <2>3, <2>4
<1> QED
  BY <1>1, <1>2, <1>3, <1>4, <1>5 DEF CatalogInv

\* A caller in the catalogue.
LEMMA ReadKeepsCatalog ==
    ASSUME ServerInv, NEW c \in Callers, Read(c)
    PROVE  CatalogInv'
<1>1. /\ TypeOK /\ CatalogInv /\ ReadersAsk
      /\ reader \in [Callers -> ReaderState] /\ tasks \in [Suites -> TaskList]
  BY DEF ServerInv, PoolInv, CatalogInv, TypeOK
<1>2. UNCHANGED <<conn, wants>> /\ \A d \in Callers : SuiteOf(d)' = SuiteOf(d)
  BY DEF Read, LookUp, LoadTasks, LoadRaises, SuiteOf
<1>3. reader[c] # "out" => SuiteOf(c) \in Suites
  BY <1>1, ServerAssumption DEF SuiteOf, TypeOK, Callers, ReadersAsk
<1>4. ReadersAsk'
  <2>1. \A d \in Callers : reader'[d] # "out" => reader[d] # "out"
    BY <1>1 DEF Read, LookUp, LoadTasks, LoadRaises, Goto, NotifyAll
  <2> QED
    BY <2>1, <1>1, <1>2 DEF ReadersAsk, Callers
<1>5. CASE LookUp(c)
  BY <1>5, <1>1, <1>2, <1>4 DEF LookUp, Goto, CatalogInv
<1>6. CASE LoadTasks(c) \/ LoadRaises(c)
  <2>1. /\ reader[c] = "loading" /\ SuiteOf(c) \in loading
        /\ loading' = loading \ {SuiteOf(c)}
        /\ \A d \in Callers : d # c => reader'[d] = IF reader[d] = "waiting" THEN "enter" ELSE reader[d]
        /\ reader'[c] \in {"answered", "raised"}
        /\ \A s \in Suites \ {SuiteOf(c)} : tasks'[s] = tasks[s]
    BY <1>6, <1>1 DEF LoadTasks, LoadRaises, NotifyAll, CatalogInv
  <2>2. \A d \in Callers : reader'[d] = "loading" =>
            d # c /\ reader[d] = "loading" /\ SuiteOf(d) # SuiteOf(c)
    BY <2>1, <1>1 DEF CatalogInv
  <2>3. \A d \in Callers : reader'[d] # "waiting"
    BY <2>1
  <2>4. loading \subseteq Suites
    BY <1>1 DEF TypeOK
  <2> QED
    BY <2>1, <2>2, <2>3, <2>4, <1>1, <1>2, <1>4 DEF CatalogInv
<1> QED
  BY <1>5, <1>6 DEF Read

\* What OneLoader says of numbers, CatalogInv says of callers.
LEMMA LoaderOfASuite == ServerInv => OneLoader
<1> SUFFICES ASSUME ServerInv PROVE OneLoader
  OBVIOUS
<1> USE DEF ServerInv, CatalogInv
<1>1. ASSUME NEW s \in Suites
      PROVE  Cardinality({c \in Callers : reader[c] = "loading" /\ SuiteOf(c) = s})
               = IF s \in loading THEN 1 ELSE 0
  <2> DEFINE L == {c \in Callers : reader[c] = "loading" /\ SuiteOf(c) = s}
  <2>1. CASE s \in loading
    <3>1. PICK c \in Callers : reader[c] = "loading" /\ SuiteOf(c) = s
      BY <2>1
    <3>2. L = {c}
      BY <3>1
    <3> QED
      BY <3>2, <2>1, FS_Singleton
  <2>2. CASE s \notin loading
    <3>1. L = {}
      BY <2>2
    <3> QED
      BY <3>1, <2>2, FS_EmptySet
  <2> QED
    BY <2>1, <2>2
<1>2. \A c \in Callers : reader[c] = "waiting" => SuiteOf(c) \in loading
  OBVIOUS
<1> QED
  BY <1>1, <1>2 DEF OneLoader

-----------------------------------------------------------------------------
(***************************************************************************)
(* The specification.                                                      *)
(***************************************************************************)

LEMMA ServerStep == ServerInv /\ [Next]_vars => ServerInv'
<1> SUFFICES ASSUME ServerInv, [Next]_vars PROVE ServerInv'
  OBVIOUS
<1>1. PoolInv /\ ReadersAsk
  BY DEF ServerInv, CatalogInv
<1>2. ASSUME NEW c \in Connections, Accept(c) \/ Serve(c) PROVE ServerInv'
  BY <1>1, <1>2, AcceptKeepsPool, ServeKeepsPool, PoolKeepsCatalog DEF ServerInv
<1>3. CASE TakeWork \/ ThreadIdle
  BY <1>1, <1>3, ThreadsKeepPool, PoolKeepsCatalog DEF ServerInv
<1>4. ASSUME NEW c \in Callers, Read(c) PROVE ServerInv'
  BY <1>1, <1>4, ReadKeepsPool, ReadKeepsCatalog DEF ServerInv
<1>5. CASE UNCHANGED vars
  <2>1. PoolInv'
    BY <1>1, <1>5, StandingStill
       DEF vars, poolVars, catalogVars, PoolInv, TypeOK, SlotPerRequest, ActiveIsExact,
           ExecutorCounts, NoRequestWaitsForAnother
  <2>2. CatalogInv'
    BY <1>5 DEF vars, poolVars, catalogVars, ServerInv, CatalogInv, ReadersAsk, SuiteOf
  <2> QED
    BY <2>1, <2>2 DEF ServerInv
<1> QED
  BY <1>2, <1>3, <1>4, <1>5 DEF Next

\* The invariant of the server: its counts are those of the connections, and
\* the suites being loaded are those that somebody loads.
THEOREM ServerInvariant == Spec => []ServerInv
<1>1. Init => ServerInv
  BY PoolInit, CatalogInit DEF ServerInv
<1> QED
  BY <1>1, ServerStep, PTL DEF Spec

\* Every variable keeps its type (server.py:471-549, 427-468).
THEOREM ServerTypeCorrect == Spec => []TypeOK
<1>1. ServerInv => TypeOK
  BY DEF ServerInv, PoolInv
<1> QED
  BY <1>1, ServerInvariant, PTL

\* A slot is free or held by one connection (server.py:501-526).
THEOREM SlotsAreHeld == Spec => []SlotPerRequest
<1>1. ServerInv => SlotPerRequest
  BY DEF ServerInv, PoolInv
<1> QED
  BY <1>1, ServerInvariant, PTL

\* The count of active requests is exact (server.py:505-525).
THEOREM ActiveRequestsAreExact == Spec => []ActiveIsExact
<1>1. ServerInv => ActiveIsExact
  BY DEF ServerInv, PoolInv
<1> QED
  BY <1>1, ServerInvariant, PTL

\* A submitted request has a thread of its own (server.py:472, 501-508).
THEOREM RequestsDoNotQueue == Spec => []NoRequestWaitsForAnother
<1>1. ServerInv => NoRequestWaitsForAnother
  BY DEF ServerInv, PoolInv
<1> QED
  BY <1>1, ServerInvariant, PTL

\* One caller loads a suite, and whoever waits has somebody to wait for
\* (server.py:436-455).
THEOREM OneCallerLoads == Spec => []OneLoader
  BY LoaderOfASuite, ServerInvariant, PTL

\* The list of a suite is loaded once (server.py:428).
THEOREM SuitesAreLoadedOnce == Spec => LoadedOnce
<1>1. ServerInv /\ [Next]_vars
        => [\A s \in Suites : tasks[s] # NotLoaded => tasks'[s] = tasks[s]]_vars
  <2> SUFFICES ASSUME ServerInv, Next, NEW s \in Suites, tasks[s] # NotLoaded
               PROVE  tasks'[s] = tasks[s]
    BY DEF vars
  <2>1. CASE tasks' = tasks
    BY <2>1
  <2>2. ASSUME NEW c \in Callers, LoadTasks(c) PROVE tasks'[s] = tasks[s]
    <3>1. s # SuiteOf(c)
      BY <2>2 DEF LoadTasks, ServerInv, CatalogInv
    <3> QED
      BY <2>2, <3>1 DEF LoadTasks, ServerInv, PoolInv, TypeOK
  <2>3. (\A c \in Callers : ~LoadTasks(c)) => tasks' = tasks
    BY DEF Next, Accept, Serve, Read, RefuseBusy, AcquireSlot, CountRequest, Submit,
           FinishRequest, UncountRequest, ReleaseSlot, TakeWork, ThreadIdle, LookUp,
           LoadRaises, catalogVars
  <2> QED
    BY <2>1, <2>2, <2>3
<1> QED
  BY <1>1, ServerInvariant, PTL DEF Spec, LoadedOnce
===============================================================================
