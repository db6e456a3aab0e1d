----------------------------- MODULE LmEvalProofs -----------------------------
(***************************************************************************)
(* Proofs about LmEvalJob and the ModelCall it contains, for any tasks,    *)
(* batches, limits, retries and datasets, and whatever models say.         *)
(*                                                                         *)
(* What a model says only decides the answer, so the accounting of the     *)
(* permits, the events, the repair of the datasets and the meaning of a    *)
(* rank do not depend on it.  That an entry is ranked speaks of the end of *)
(* the job; the invariant says it of each batch: a task has metrics        *)
(* exactly when they were computed from answers, and a job has only        *)
(* succeeded when the last of its batches has exited.  The last part is    *)
(* about the answer itself: for every plan a model may follow, what is     *)
(* scored is what was meant.                                               *)
(***************************************************************************)
EXTENDS LmEvalJob, FiniteSetTheorems, WellFoundedInduction, TLAPS

\* The types that the proofs rest on.
CallTypes ==
    /\ call \in [Calls -> CallState]
    /\ concurrency \in Nat /\ permits \in Int
    /\ dirs \in [Dirs -> {"absent", "intact", "corrupt"}]
    /\ process \in Process

\* The batch of a process is one of the job's.
BatchRuns ==
    /\ batch \in Nat /\ batch <= Len(TaskBatches)
    /\ process # "none" => batch > 0

PermitInv == CallTypes /\ BatchRuns /\ PermitsBalanced

\* A task that has metrics had answers, and a job that has succeeded has
\* completed its batches.
RankInv ==
    /\ \A t \in Calls : results[t] # NoResult => scored[t] # "none"
    /\ status = "succeeded" => completed = Len(TaskBatches)

-----------------------------------------------------------------------------
(***************************************************************************)
(* The batches of a job.                                                   *)
(***************************************************************************)

LEMMA BatchesAreCalls ==
    /\ Len(TaskBatches) \in Nat
    /\ \A i \in 1..Len(TaskBatches) : TaskBatches[i] \subseteq Calls
<1> DEFINE size == IF BatchSize = 0 THEN Len(Tasks) ELSE BatchSize
           total == (Len(Tasks) + size - 1) \div size
           tasksOf(i) == {Tasks[k] : k \in ((i - 1) * size + 1)..Min({i * size, Len(Tasks)})}
<1>1. Len(Tasks) \in Nat \ {0} /\ \A k \in 1..Len(Tasks) : Tasks[k] \in Calls
  BY JobAssumption
<1>2. size \in Nat \ {0}
  BY <1>1, JobAssumption
<1>3. total \in Nat
  <2>1. Len(Tasks) + size - 1 \in Nat
    BY <1>1, <1>2
  <2> QED
    BY <2>1, <1>2
<1>4. ASSUME NEW i \in 1..total PROVE tasksOf(i) \subseteq Calls
  <2> HIDE DEF size, total
  <2>0. i \in Nat /\ i >= 1 /\ i - 1 \in Nat /\ size \in Nat
    BY <1>2, <1>3
  <2>a. \A x, y \in Nat : x * y \in Nat
    OBVIOUS
  <2>1. i \in Nat /\ (i - 1) * size \in Nat /\ i * size \in Nat
    BY <2>0, <2>a
  <2>2. Min({i * size, Len(Tasks)}) \in Nat /\ Min({i * size, Len(Tasks)}) <= Len(Tasks)
    <3>1. \E x \in {i * size, Len(Tasks)} : \A y \in {i * size, Len(Tasks)} : x <= y
      BY <2>1, <1>1
    <3>2. /\ Min({i * size, Len(Tasks)}) \in {i * size, Len(Tasks)}
          /\ Min({i * size, Len(Tasks)}) <= Len(Tasks)
      BY <3>1 DEF Min
    <3> QED
      BY <3>2, <2>1, <1>1
  <2>3. \A k \in ((i - 1) * size + 1)..Min({i * size, Len(Tasks)}) : k \in 1..Len(Tasks)
    BY <2>1, <2>2, <1>1
  <2> QED
    BY <2>3, <1>1
<1>5. TaskBatches = [i \in 1..total |-> tasksOf(i)]
  BY DEF TaskBatches
<1> HIDE DEF total, tasksOf
<1>6. Len(TaskBatches) = total
  BY <1>3, <1>5
<1> QED
  BY <1>3, <1>4, <1>5, <1>6
-----------------------------------------------------------------------------
(***************************************************************************)
(* The permits of the semaphore.                                           *)
(***************************************************************************)

LEMMA StreamingIsFinite ==
    /\ IsFiniteSet(Under("streaming"))
    /\ Cardinality(Under("streaming")) \in Nat
<1>1. Under("streaming") \subseteq Calls /\ IsFiniteSet(Calls)
  BY CallAssumption DEF Under
<1> QED
  BY <1>1, FS_Subset, FS_CardinalityType

\* A request that begins to stream, or that no longer does.
LEMMA StreamingChanges ==
    ASSUME call \in [Calls -> CallState], NEW c \in Calls, NEW to,
           call' = [call EXCEPT ![c] = to]
    PROVE  /\ call[c] # "streaming" /\ to = "streaming"
                => Cardinality(Under("streaming")') = Cardinality(Under("streaming")) + 1
           /\ call[c] = "streaming" /\ to # "streaming"
                => Cardinality(Under("streaming")') = Cardinality(Under("streaming")) - 1
           /\ call[c] # "streaming" /\ to # "streaming"
                => Cardinality(Under("streaming")') = Cardinality(Under("streaming"))
<1>1. CASE call[c] # "streaming" /\ to = "streaming"
  <2>1. Under("streaming")' = Under("streaming") \cup {c} /\ c \notin Under("streaming")
    BY <1>1 DEF Under
  <2> QED
    BY <2>1, <1>1, StreamingIsFinite, FS_AddElement
<1>2. CASE call[c] = "streaming" /\ to # "streaming"
  <2>1. Under("streaming")' = Under("streaming") \ {c} /\ c \in Under("streaming")
    BY <1>2 DEF Under
  <2> QED
    BY <2>1, <1>2, StreamingIsFinite, FS_RemoveElement
<1>3. CASE call[c] # "streaming" /\ to # "streaming"
  <2>1. Under("streaming")' = Under("streaming")
    BY <1>3 DEF Under
  <2> QED
    BY <2>1, <1>3
<1> QED
  BY <1>1, <1>2, <1>3

\* The steps of one request.
LEMMA CallStepBalances ==
    ASSUME CallTypes, PermitsBalanced, NEW c \in Calls, CallStep(c)
    PROVE  /\ PermitsBalanced' /\ concurrency' = concurrency
           /\ call' \in [Calls -> CallState] /\ permits' \in Int
<1>1. /\ call \in [Calls -> CallState] /\ concurrency \in Nat /\ permits \in Int
      /\ Async => permits + Cardinality(Under("streaming")) = concurrency
      /\ Cardinality(Under("streaming")) \in Nat
  BY StreamingIsFinite DEF CallTypes, PermitsBalanced
<1>2. {"waiting", "streaming", "answered", "failed", "cancelled"} \subseteq CallState
  BY DEF CallState
<1>3. concurrency' = concurrency /\ (Async' <=> Async)
  BY DEF CallStep, Post, Acquire, Receive, CallFails, CancelCall, Async
<1>4. SUFFICES ASSUME TRUE
               PROVE  /\ Async => permits' + Cardinality(Under("streaming")') = concurrency
                      /\ call' \in [Calls -> CallState] /\ permits' \in Int
  BY <1>3 DEF PermitsBalanced
<1>5. CASE Post(c)
  BY <1>5, <1>1, <1>2 DEF Post
<1>6. CASE Acquire(c)
  <2>1. call[c] = "waiting" /\ call' = [call EXCEPT ![c] = "streaming"] /\ permits' = permits - 1
    BY <1>6 DEF Acquire
  <2>2. Cardinality(Under("streaming")') = Cardinality(Under("streaming")) + 1
    BY <2>1, <1>1, StreamingChanges
  <2> QED
    BY <2>1, <2>2, <1>1, <1>2
<1>7. ASSUME NEW to \in CallState \ {"streaming"}, call[c] = "streaming",
             call' = [call EXCEPT ![c] = to], Release
      PROVE  /\ Async => permits' + Cardinality(Under("streaming")') = concurrency
             /\ call' \in [Calls -> CallState] /\ permits' \in Int
  <2>1. Cardinality(Under("streaming")') = Cardinality(Under("streaming")) - 1
    BY <1>7, <1>1, StreamingChanges
  <2> QED
    BY <2>1, <1>7, <1>1 DEF Release
<1>8. CASE Receive(c)
  BY <1>8, <1>7, <1>2 DEF Receive
<1>9. CASE CallFails(c)
  <2> DEFINE to == IF tries[c] + 1 < CallAttempts THEN "waiting" ELSE "failed"
  <2>1. /\ to \in CallState \ {"streaming"} /\ call[c] = "streaming"
        /\ call' = [call EXCEPT ![c] = to] /\ Release
    BY <1>9, <1>2 DEF CallFails
  <2> QED
    BY <2>1, <1>7
<1>10. CASE CancelCall(c)
  <2>1. call[c] \in {"waiting", "streaming"} /\ call' = [call EXCEPT ![c] = "cancelled"] /\ Async
    BY <1>10 DEF CancelCall
  <2>2. CASE call[c] = "streaming"
    <3>1. Release
      BY <1>10, <2>2 DEF CancelCall, Release
    <3> QED
      BY <3>1, <2>1, <2>2, <1>2, <1>7
  <2>3. CASE call[c] = "waiting"
    <3>1. Cardinality(Under("streaming")') = Cardinality(Under("streaming")) /\ permits' = permits
      BY <1>10, <2>1, <2>3, <1>1, StreamingChanges DEF CancelCall
    <3> QED
      BY <3>1, <2>1, <1>1, <1>2
  <2> QED
    BY <2>1, <2>2, <2>3
<1> QED
  BY <1>5, <1>6, <1>8, <1>9, <1>10 DEF CallStep

\* A new run of requests begins with all permits free.
LEMMA HandBalances ==
    ASSUME CallTypes, NEW group, Hand(group)
    PROVE  /\ PermitsBalanced' /\ concurrency' = concurrency
           /\ call' \in [Calls -> CallState] /\ permits' \in Int
<1>1. /\ concurrency' = concurrency /\ permits' = concurrency /\ concurrency \in Nat
      /\ call' = [c \in Calls |-> IF c \in group THEN "waiting" ELSE "idle"]
  BY DEF Hand, CallTypes
<1>2. Under("streaming")' = {}
  BY <1>1 DEF Under
<1>3. call' \in [Calls -> CallState]
  BY <1>1 DEF CallState
<1> QED
  BY <1>1, <1>2, <1>3, FS_EmptySet DEF PermitsBalanced

LEMMA PermitInit == Init => PermitInv
<1> SUFFICES ASSUME Init PROVE PermitInv
  OBVIOUS
<1>1. Under("streaming") = {}
  BY DEF Init, CallInit, Under
<1>2. CallTypes
  BY CallAssumption DEF Init, CallInit, CallTypes, CallState, Process
<1>3. PermitsBalanced
  <2>1. Cardinality(Under("streaming")) = 0 /\ permits = concurrency /\ concurrency \in Nat
    BY <1>1, <1>2, FS_EmptySet DEF Init, CallInit, CallTypes
  <2> QED
    BY <2>1 DEF PermitsBalanced
<1> QED
  BY <1>2, <1>3, BatchesAreCalls DEF Init, PermitInv, BatchRuns

LEMMA PermitStep == PermitInv /\ [Next]_vars => PermitInv'
<1> SUFFICES ASSUME PermitInv, [Next]_vars PROVE PermitInv'
  OBVIOUS
<1> USE DEF PermitInv
<1>1. /\ {"none", "loading", "sleeping", "evaluating", "exited", "crashed"} = Process
      /\ batch \in Nat /\ batch <= Len(TaskBatches) /\ Len(TaskBatches) \in Nat
      /\ process # "none" => batch > 0
      /\ dirs \in [Dirs -> {"absent", "intact", "corrupt"}] /\ process \in Process
  BY BatchesAreCalls DEF Process, BatchRuns, CallTypes
<1>2. ASSUME UNCHANGED callVars PROVE /\ PermitsBalanced' /\ concurrency' = concurrency
                                      /\ call' \in [Calls -> CallState] /\ permits' \in Int
  BY <1>2 DEF callVars, PermitsBalanced, Async, Under, CallTypes
<1>3. ASSUME /\ PermitsBalanced' /\ concurrency' = concurrency
             /\ call' \in [Calls -> CallState] /\ permits' \in Int,
             process' \in Process, batch' = batch, process' # "none" => process # "none",
             dirs' \in [Dirs -> {"absent", "intact", "corrupt"}]
      PROVE  PermitInv'
  BY <1>1, <1>3 DEF CallTypes, BatchRuns
<1>4. CASE LaunchBatch
  <2>1. batch' = batch + 1 /\ batch < Len(TaskBatches) /\ process' = "loading" /\ dirs' = dirs
    BY <1>4 DEF LaunchBatch
  <2>2. CallTypes' /\ PermitsBalanced'
    BY <2>1, <1>1, <1>2, <1>4 DEF LaunchBatch, CallTypes
  <2>3. BatchRuns'
    BY <2>1, <1>1 DEF BatchRuns
  <2> QED
    BY <2>2, <2>3
<1>5. CASE LoadDatasets
  <2>1. PICK group : Hand(group)
    BY <1>5 DEF LoadDatasets
  <2>2. dirs' \in [Dirs -> {"absent", "intact", "corrupt"}]
    BY <1>5, <1>1 DEF LoadDatasets
  <2> QED
    BY <2>1, <2>2, <1>1, <1>3, <1>5, HandBalances DEF LoadDatasets
<1>6. ASSUME DecodeError \/ TransientError \/ OtherError
      PROVE  /\ process' \in Process \ {"none"}
             /\ dirs' \in [Dirs -> {"absent", "intact", "corrupt"}]
  <2>1. process' \in Process \ {"none"}
    BY <1>6, <1>1 DEF DecodeError, TransientError, OtherError, TryAgain, Raise
  <2>2. dirs' \in [Dirs -> {"absent", "intact", "corrupt"}]
    BY <1>6, <1>1 DEF DecodeError, TransientError, OtherError
  <2> QED
    BY <2>1, <2>2
<1>7. CASE LoadFails
  BY <1>7, <1>1, <1>2, <1>3, <1>6 DEF LoadFails
<1>8. CASE Sleep
  BY <1>8, <1>1, <1>2, <1>3 DEF Sleep, jobVars
<1>9. CASE Evaluate
  <2>1. PICK c \in TaskBatches[batch] : CallStep(c)
    BY <1>9 DEF Evaluate
  <2>2. batch \in 1..Len(TaskBatches)
    BY <1>9, <1>1 DEF Evaluate, Evaluating
  <2>3. c \in Calls
    BY <2>2, BatchesAreCalls
  <2> QED
    BY <2>1, <2>3, <1>1, <1>3, <1>9, CallStepBalances DEF Evaluate, jobVars
<1>10. CASE EvaluateFails
  BY <1>10, <1>1, <1>3, HandBalances DEF EvaluateFails, Evaluating, Raise
<1>11. CASE WriteResults
  BY <1>11, <1>1, <1>3, HandBalances DEF WriteResults, Evaluating
<1>12. CASE MetricsFail
  BY <1>12, <1>1, <1>3, <1>6, HandBalances DEF MetricsFail, Evaluating
<1>13. CASE FinishBatch
  BY <1>13, <1>1, <1>2, <1>3 DEF FinishBatch
<1>14. CASE CancelJob
  <2>1. dirs' \in [Dirs -> {"absent", "intact", "corrupt"}]
    BY <1>14, <1>1 DEF CancelJob
  <2> QED
    BY <2>1, <1>14, <1>1, <1>3, HandBalances DEF CancelJob
<1>15. CASE Done \/ UNCHANGED vars
  BY <1>15, <1>1, <1>2, <1>3 DEF Done, vars, jobVars
<1> QED
  BY <1>4, <1>5, <1>7, <1>8, <1>9, <1>10, <1>11, <1>12, <1>13, <1>14, <1>15 DEF Next
\* Every permit is free or held by a request that is streaming
\* (lemonade_model.py:496-517).
THEOREM PermitsAreBalanced == Spec => []PermitsBalanced
<1>1. PermitInv => PermitsBalanced
  BY DEF PermitInv
<1> QED
  BY <1>1, PermitInit, PermitStep, PTL DEF Spec

-----------------------------------------------------------------------------
(***************************************************************************)
(* The datasets cache.                                                     *)
(***************************************************************************)

\* Repairing the cache, and whatever else the job does to it, leaves the
\* directories that are intact (lm_eval_runner.py:130-178).
THEOREM RepairLeavesIntact == Spec => RepairKeepsData
<1>1. PermitInv /\ [Next]_vars
        => [\A d \in Dirs : dirs[d] = "intact" => dirs'[d] = "intact"]_vars
  <2> SUFFICES ASSUME PermitInv, Next, NEW d \in Dirs, dirs[d] = "intact"
               PROVE  dirs'[d] = "intact"
    BY DEF vars
  <2>1. dirs \in [Dirs -> {"absent", "intact", "corrupt"}]
    BY DEF PermitInv, CallTypes
  <2>2. CASE LoadDatasets
    BY <2>1, <2>2 DEF LoadDatasets
  <2>3. ASSUME DecodeError \/ TransientError \/ OtherError PROVE dirs'[d] = "intact"
    BY <2>1, <2>3 DEF DecodeError, TransientError, OtherError, CorruptDirs
  <2>4. CASE LoadFails \/ MetricsFail
    BY <2>3, <2>4 DEF LoadFails, MetricsFail
  <2>5. CASE CancelJob
    BY <2>1, <2>5 DEF CancelJob
  <2>6. CASE \/ LaunchBatch \/ Sleep \/ Evaluate \/ EvaluateFails \/ WriteResults
             \/ FinishBatch \/ Done
    BY <2>6 DEF LaunchBatch, Sleep, Evaluate, EvaluateFails, WriteResults, FinishBatch, Done,
                jobVars, vars
  <2> QED
    BY <2>2, <2>4, <2>5, <2>6 DEF Next
<1> QED
  BY <1>1, PermitInit, PermitStep, PTL DEF Spec, RepairKeepsData

-----------------------------------------------------------------------------
(***************************************************************************)
(* The leaderboard entry.                                                  *)
(***************************************************************************)

LEMMA RankInit == Init => RankInv
BY DEF Init, RankInv, NoResult

LEMMA RankStep == RankInv /\ [Next]_vars => RankInv'
<1> SUFFICES ASSUME RankInv, [Next]_vars PROVE RankInv'
  OBVIOUS
<1> USE DEF RankInv
<1>1. CASE WriteResults
  <2>1. \A t \in Calls \ TaskBatches[batch] : results'[t] = results[t]
    BY <1>1 DEF WriteResults
  <2>2. \A t \in Calls : scored'[t] # "none" <=> t \in TaskBatches[batch] \/ scored[t] # "none"
    BY <1>1 DEF WriteResults
  <2>3. status' = status /\ completed' = completed
    BY <1>1 DEF WriteResults
  <2> QED
    BY <2>1, <2>2, <2>3
<1>2. CASE FinishBatch
  BY <1>2 DEF FinishBatch, Running
<1>3. CASE CancelJob
  BY <1>3 DEF CancelJob
<1>4. ASSUME UNCHANGED <<results, scored, status, completed>> PROVE RankInv'
  BY <1>4
<1>5. CASE LaunchBatch \/ LoadDatasets \/ LoadFails \/ Sleep \/ Evaluate \/ EvaluateFails
  BY <1>4, <1>5 DEF LaunchBatch, LoadDatasets, LoadFails, Sleep, Evaluate, EvaluateFails, jobVars
<1>6. CASE MetricsFail \/ Done \/ UNCHANGED vars
  BY <1>4, <1>6 DEF MetricsFail, Done, vars, jobVars
<1> QED
  BY <1>1, <1>2, <1>3, <1>5, <1>6 DEF Next

LEMMA RankOfAWholeRun == RankInv => RankedMeansWhole
<1> SUFFICES ASSUME RankInv, LeaderboardEntry.rank_eligible PROVE
        /\ standard /\ Calls = ProfileTasks
        /\ completed = Len(TaskBatches)
        /\ \A t \in ProfileTasks : scored[t] # "none"
        /\ \A t \in ProfileTasks : results[t] \in {"canonical", "fallback"}
  BY DEF RankedMeansWhole
<1>1. standard /\ Calls = ProfileTasks
  BY DEF LeaderboardEntry, ClassifyProfile
<1>2. status = "succeeded" /\ ProfileTasks \subseteq TaskScores
  BY <1>1 DEF LeaderboardEntry, ClassifyProfile, ExpectedTasks
<1>3. \A t \in ProfileTasks : t \in Calls /\ results[t] # NoResult
                             /\ results[t] \in {"canonical", "fallback"}
  BY <1>2 DEF TaskScores, MergedResults, ScoredMetrics
<1> QED
  BY <1>1, <1>2, <1>3 DEF RankInv

\* A ranked entry is of a recognised profile whose every batch has completed
\* and whose every task was scored from answers (results.py:449-475).
THEOREM RanksAreWhole == Spec => []RankedMeansWhole
  BY RankInit, RankStep, RankOfAWholeRun, PTL DEF Spec

-----------------------------------------------------------------------------
(***************************************************************************)
(* The types.  That a request's failures stay within its attempts needs    *)
(* that one is only made while an attempt is left; that the permits never  *)
(* run below zero needs that a request made alone takes none.              *)
(***************************************************************************)

\* A request that will be made, or is being made, has an attempt left.
AttemptLeft ==
    \A c \in Calls : call[c] \in {"waiting", "streaming"} => tries[c] < CallAttempts

RequestTypes ==
    /\ concurrency \in 1..MaxConcurrency
    /\ permits >= 0
    /\ ~Async => permits = concurrency
    /\ tries \in [Calls -> 0..CallAttempts]
    /\ AttemptLeft

JobTypes ==
    /\ standard \in BOOLEAN
    /\ status \in Status
    /\ attempt \in 0..Retries
    /\ delay \in 0..DelayCap
    /\ results \in [Calls -> Metrics \cup {NoResult}]
    /\ scored \in [Calls -> {"none", "text", "empty"}]

TypeInv == PermitInv /\ RequestTypes /\ JobTypes

LEMMA TypesFollow == TypeInv => TypeOK
<1> SUFFICES ASSUME TypeInv PROVE TypeOK
  OBVIOUS
<1>1. permits \in 0..concurrency
  <2>1. /\ permits \in Int /\ permits >= 0 /\ concurrency \in Nat
        /\ Cardinality(Under("streaming")) \in Nat
        /\ Async => permits + Cardinality(Under("streaming")) = concurrency
        /\ ~Async => permits = concurrency
    BY StreamingIsFinite DEF TypeInv, PermitInv, CallTypes, RequestTypes, PermitsBalanced
  <2> QED
    BY <2>1
<1> QED
  BY <1>1 DEF TypeInv, PermitInv, CallTypes, RequestTypes, JobTypes, TypeOK

LEMMA PowersAreNumbers == \A k \in Nat : 2 ^ k \in Nat
<1> SUFFICES ASSUME NEW k \in Nat PROVE 2 ^ k \in Nat
  OBVIOUS
<1>1. IsFiniteSet(1..k) /\ Cardinality(1..k) = k
  BY FS_Interval
<1>2. IsFiniteSet(SUBSET (1..k)) /\ Cardinality(SUBSET (1..k)) = 2 ^ k
  BY <1>1, FS_SUBSET
<1> QED
  BY <1>2, FS_CardinalityType

\* The delay of an attempt is a number that the cap bounds.
LEMMA DelayIsCapped == \A k \in Nat : RetryDelay(k + 1) \in 0..DelayCap
<1> SUFFICES ASSUME NEW k \in Nat PROVE RetryDelay(k + 1) \in 0..DelayCap
  OBVIOUS
<1> DEFINE wait == BaseDelay * 2 ^ k
<1>1. DelayCap \in Nat /\ BaseDelay \in Nat /\ 2 ^ k \in Nat
  BY PowersAreNumbers, JobAssumption
<1>2. \A x, y \in Nat : x * y \in Nat
  OBVIOUS
<1>3. wait \in Nat
  BY <1>1, <1>2
<1>4. RetryDelay(k + 1) = Min({DelayCap, wait})
  <2>1. (k + 1) - 1 = k
    OBVIOUS
  <2> QED
    BY <2>1 DEF RetryDelay
<1> HIDE DEF wait
<1>5. \E x \in {DelayCap, wait} : \A y \in {DelayCap, wait} : x <= y
  BY <1>1, <1>3
<1>6. Min({DelayCap, wait}) \in {DelayCap, wait} /\ Min({DelayCap, wait}) <= DelayCap
  BY <1>5 DEF Min
<1> QED
  BY <1>1, <1>3, <1>4, <1>6

\* An attempt that is made again counts, and none is beyond the retries.
LEMMA AttemptsAreBounded ==
    ASSUME JobTypes, DecodeError \/ TransientError \/ OtherError
    PROVE  attempt' \in 0..Retries /\ delay' \in 0..DelayCap
<1>1. attempt \in 0..Retries /\ delay \in 0..DelayCap /\ Retries \in Nat
  BY JobAssumption DEF JobTypes
<1>2. CASE Raise
  BY <1>1, <1>2 DEF Raise
<1>3. CASE TryAgain /\ attempt < Retries
  <2>1. RetryDelay(attempt + 1) \in 0..DelayCap
    BY <1>1, DelayIsCapped
  <2> QED
    BY <1>1, <1>3, <2>1 DEF TryAgain
<1> QED
  BY <1>2, <1>3 DEF DecodeError, TransientError, OtherError

LEMMA CallStepKeepsTypes ==
    ASSUME CallTypes, RequestTypes, NEW c \in Calls, CallStep(c)
    PROVE  RequestTypes'
<1>1. /\ concurrency \in 1..MaxConcurrency /\ permits >= 0 /\ permits \in Int
      /\ ~Async => permits = concurrency
      /\ tries \in [Calls -> 0..CallAttempts] /\ CallAttempts \in Nat \ {0}
      /\ call \in [Calls -> CallState]
      /\ \A d \in Calls : call[d] \in {"waiting", "streaming"} => tries[d] < CallAttempts
  BY CallAssumption DEF RequestTypes, CallTypes, AttemptLeft
<1>2. SUFFICES ASSUME TRUE
               PROVE  /\ concurrency' = concurrency /\ permits' >= 0
                      /\ ~Async => permits' = permits
                      /\ tries' \in [Calls -> 0..CallAttempts]
                      /\ AttemptLeft'
  BY <1>1 DEF RequestTypes, Async
<1> USE DEF AttemptLeft
<1>3. CASE Post(c)
  BY <1>1, <1>3 DEF Post
<1>4. CASE Acquire(c)
  BY <1>1, <1>4 DEF Acquire
<1>5. CASE Receive(c)
  BY <1>1, <1>5 DEF Receive, Release
<1>6. CASE CallFails(c)
  <2>1. concurrency' = concurrency /\ permits' >= 0 /\ (~Async => permits' = permits)
    BY <1>1, <1>6 DEF CallFails, Release
  <2>2. /\ tries[c] \in 0..CallAttempts /\ tries[c] < CallAttempts
        /\ tries' = [tries EXCEPT ![c] = tries[c] + 1]
    BY <1>1, <1>6 DEF CallFails
  <2>3. tries' \in [Calls -> 0..CallAttempts]
    BY <1>1, <2>2
  <2>4. AttemptLeft'
    BY <1>1, <1>6, <2>2 DEF CallFails
  <2> QED
    BY <2>1, <2>3, <2>4
<1>7. CASE CancelCall(c)
  BY <1>1, <1>7 DEF CancelCall
<1> QED
  BY <1>3, <1>4, <1>5, <1>6, <1>7 DEF CallStep

LEMMA HandKeepsTypes ==
    ASSUME RequestTypes, NEW group, Hand(group)
    PROVE  RequestTypes'
<1>1. /\ concurrency' = concurrency /\ permits' = concurrency
      /\ tries' = [c \in Calls |-> 0]
  BY DEF Hand
<1>2. MaxConcurrency \in Nat \ {0} /\ CallAttempts \in Nat \ {0}
  BY CallAssumption
<1> QED
  BY <1>1, <1>2 DEF RequestTypes, AttemptLeft, Async

LEMMA TypesInit == Init => TypeInv
<1> SUFFICES ASSUME Init PROVE TypeInv
  OBVIOUS
<1>1. PermitInv
  BY PermitInit
<1>2. RequestTypes
  BY CallAssumption DEF Init, CallInit, RequestTypes, AttemptLeft
<1>3. JobTypes
  BY JobAssumption DEF Init, JobTypes, Status, NoResult
<1> QED
  BY <1>1, <1>2, <1>3 DEF TypeInv

LEMMA TypesStep == TypeInv /\ [Next]_vars => TypeInv'
<1> SUFFICES ASSUME TypeInv, [Next]_vars PROVE TypeInv'
  OBVIOUS
<1>1. PermitInv'
  BY PermitStep DEF TypeInv
<1>2. SUFFICES ASSUME TRUE PROVE RequestTypes' /\ JobTypes'
  BY <1>1 DEF TypeInv
<1>3. /\ PermitInv /\ CallTypes /\ BatchRuns /\ RequestTypes /\ JobTypes
      /\ Retries \in Nat /\ DelayCap \in Nat
  BY JobAssumption DEF TypeInv, PermitInv
<1>4. ASSUME UNCHANGED <<concurrency, permits, tries, call>> PROVE RequestTypes'
  BY <1>3, <1>4 DEF RequestTypes, AttemptLeft, Async
<1>5. ASSUME UNCHANGED jobVars PROVE JobTypes'
  BY <1>3, <1>5 DEF JobTypes, jobVars
<1>6. CASE LaunchBatch
  BY <1>3, <1>4, <1>6 DEF LaunchBatch, callVars, JobTypes
<1>7. CASE LoadDatasets
  BY <1>3, <1>7, HandKeepsTypes DEF LoadDatasets, JobTypes
<1>8. CASE LoadFails
  <2>1. RequestTypes'
    BY <1>4, <1>8 DEF LoadFails, callVars
  <2>2. attempt' \in 0..Retries /\ delay' \in 0..DelayCap
    BY <1>3, <1>8, AttemptsAreBounded DEF LoadFails
  <2> QED
    BY <1>3, <1>8, <2>1, <2>2 DEF LoadFails, JobTypes
<1>9. CASE Sleep
  BY <1>4, <1>5, <1>9 DEF Sleep, callVars
<1>10. CASE Evaluate
  <2>1. PICK c \in TaskBatches[batch] : CallStep(c)
    BY <1>10 DEF Evaluate
  <2>2. c \in Calls
    BY <1>3, <1>10, BatchesAreCalls DEF Evaluate, Evaluating, BatchRuns
  <2> QED
    BY <1>3, <1>5, <1>10, <2>1, <2>2, CallStepKeepsTypes DEF Evaluate
<1>11. CASE EvaluateFails
  BY <1>3, <1>11, HandKeepsTypes DEF EvaluateFails, Raise, JobTypes
<1>12. CASE WriteResults
  <2>1. RequestTypes'
    BY <1>3, <1>12, HandKeepsTypes DEF WriteResults
  <2>2. PICK metrics \in [TaskBatches[batch] -> Metrics] :
          results' = [t \in Calls |-> IF t \in TaskBatches[batch] THEN metrics[t] ELSE results[t]]
    BY <1>12 DEF WriteResults
  <2>3. results' \in [Calls -> Metrics \cup {NoResult}]
    BY <1>3, <2>2 DEF JobTypes
  <2>4. scored' \in [Calls -> {"none", "text", "empty"}]
    BY <1>3, <1>12 DEF WriteResults, JobTypes
  <2> QED
    BY <1>3, <1>12, <2>1, <2>3, <2>4 DEF WriteResults, JobTypes
<1>13. CASE MetricsFail
  <2>1. attempt' \in 0..Retries /\ delay' \in 0..DelayCap
    BY <1>3, <1>13, AttemptsAreBounded DEF MetricsFail
  <2> QED
    BY <1>3, <1>13, <2>1, HandKeepsTypes DEF MetricsFail, JobTypes
<1>14. CASE FinishBatch
  BY <1>3, <1>4, <1>14 DEF FinishBatch, callVars, JobTypes, Status
<1>15. CASE CancelJob
  BY <1>3, <1>15, HandKeepsTypes DEF CancelJob, JobTypes, Status
<1>16. CASE Done \/ UNCHANGED vars
  BY <1>4, <1>5, <1>16 DEF Done, vars, callVars
<1> QED
  BY <1>6, <1>7, <1>8, <1>9, <1>10, <1>11, <1>12, <1>13, <1>14, <1>15, <1>16 DEF Next

\* The variables of a job keep their types: the permits stay between none and
\* all of them, the attempts at a request and at the datasets within their
\* limits, and a delay under its cap (lm_eval_runner.py:206-242).
THEOREM JobTypeCorrect == Spec => []TypeOK
  BY TypesInit, TypesStep, TypesFollow, PTL DEF Spec

-----------------------------------------------------------------------------
(***************************************************************************)
(* The events of the telemetry file.  A response is recorded while it is   *)
(* folded and marked, so that parsing it records nothing: it leaves one    *)
(* event, whichever of the two paths it takes through the adapter.         *)
(***************************************************************************)

LEMMA FoldOfOne == \A t, e : FoldLeft(AppendTimingEvent, t, <<e>>) = AppendTimingEvent(t, e)
<1> SUFFICES ASSUME NEW t, NEW e
             PROVE FoldLeft(AppendTimingEvent, t, <<e>>) = AppendTimingEvent(t, e)
  OBVIOUS
<1> DEFINE body(f) == [s \in SUBSET {1} |->
               IF s = {} THEN t
               ELSE AppendTimingEvent(f[s \ {Max(s)}], <<e>>[Max(s)])]
           iter == CHOOSE f : f = body(f)
           fold == [s \in SUBSET {1} |-> IF s = {} THEN t ELSE AppendTimingEvent(t, e)]
<1>1. FoldLeft(AppendTimingEvent, t, <<e>>) = iter[{1}]
  <2>1. DOMAIN <<e>> = {1}
    OBVIOUS
  <2> QED
    BY <2>1, Zenon DEF FoldLeft, MapThenFoldSet
<1>2. Max({1}) = 1
  BY DEF Max
<1>3. \A s \in SUBSET {1} : s = {} \/ s = {1}
  OBVIOUS
<1>4. {1} \ {1} = {} /\ <<e>>[1] = e
  OBVIOUS
<1>5. fold = body(fold)
  <2>1. /\ fold = [s \in SUBSET {1} |-> fold[s]] /\ fold[{}] = t
        /\ fold[{1}] = AppendTimingEvent(t, e)
    OBVIOUS
  <2> HIDE DEF fold
  <2>2. body(fold)[{}] = t
    OBVIOUS
  <2>3. body(fold)[{1}] = AppendTimingEvent(fold[{1} \ {Max({1})}], <<e>>[Max({1})])
    BY Zenon
  <2>4. body(fold)[{1}] = AppendTimingEvent(t, e)
    BY <2>1, <2>3, <1>2, <1>4
  <2>5. \A s \in SUBSET {1} : fold[s] = body(fold)[s]
    BY <2>1, <2>2, <2>4, <1>3, Zenon
  <2>6. body(fold) = [s \in SUBSET {1} |-> body(fold)[s]]
    BY Zenon
  <2> HIDE DEF body
  <2> QED
    BY <2>1, <2>5, <2>6, Zenon
<1>6. iter = body(iter)
  <2> HIDE DEF body, fold
  <2> QED BY <1>5, Zenon
<1> HIDE DEF iter
<1>7. iter[{}] = t
  BY <1>6, Zenon
<1>8. iter[{1}] = AppendTimingEvent(iter[{}], e)
  BY <1>6, <1>2, <1>4, Zenon
<1> QED
  BY <1>1, <1>7, <1>8

LEMMA OneEventEach ==
    ASSUME NEW c \in Calls, NEW r \in ResponsesTo[c]
    PROVE  \E e : r.events = <<e>>
<1>1. PICK plan \in Plans : \E n \in 0..Len(plan) : r = ModelResponse(c, plan, n)
  BY DEF ResponsesTo
<1>2. PICK n \in 0..Len(plan) : r = ModelResponse(c, plan, n)
  BY <1>1
<1> DEFINE output == StreamResponse(Delivered(plan, GenerationPayload(c), n))
           marked == [output EXCEPT !.recorded = TRUE]
<1>3. marked.recorded = TRUE
  BY DEF StreamResponse
<1>4. r.events = <<output.response>> \o ParseGenerations(marked, StopsOf[c]).events
  BY <1>2 DEF ModelResponse
<1> HIDE DEF marked
<1>5. ParseGenerations(marked, StopsOf[c]).events = <<>>
  BY <1>3 DEF ParseGenerations
<1>6. \A e : <<e>> \o <<>> = <<e>>
  OBVIOUS
<1> QED
  BY <1>4, <1>5, <1>6

LEMMA EventsStep ==
    PermitInv /\ OneEventPerResponse /\ [Next]_vars => OneEventPerResponse'
<1> SUFFICES ASSUME PermitInv, OneEventPerResponse, [Next]_vars
             PROVE  OneEventPerResponse'
  OBVIOUS
<1> USE DEF OneEventPerResponse
<1>1. ASSUME UNCHANGED <<telemetry, received>> PROVE OneEventPerResponse'
  BY <1>1
<1>2. CASE Evaluate
  <2>1. PICK c \in TaskBatches[batch] : CallStep(c)
    BY <1>2 DEF Evaluate
  <2>2. CASE Receive(c)
    <3>1. PICK r \in ResponsesTo[c] : telemetry' = FoldLeft(AppendTimingEvent, telemetry, r.events)
      BY <2>2 DEF Receive
    <3>2. received' = received + 1
      BY <2>2 DEF Receive
    <3>3. PICK e : r.events = <<e>>
      <4>1. c \in Calls
        BY <1>2, <2>1, BatchesAreCalls DEF PermitInv, BatchRuns, Evaluate, Evaluating
      <4> QED
        BY <4>1, OneEventEach
    <3>4. telemetry' = AppendTimingEvent(telemetry, e)
      BY <3>1, <3>3, FoldOfOne
    <3> QED
      BY <3>2, <3>4 DEF AppendTimingEvent
  <2> QED
    BY <1>1, <2>1, <2>2 DEF CallStep, Post, Acquire, CallFails, CancelCall
<1>3. CASE \/ LoadDatasets \/ EvaluateFails \/ WriteResults \/ MetricsFail \/ CancelJob
  BY <1>1, <1>3 DEF LoadDatasets, EvaluateFails, WriteResults, MetricsFail, CancelJob, Hand
<1>4. CASE LaunchBatch \/ LoadFails \/ Sleep \/ FinishBatch \/ Done \/ UNCHANGED vars
  BY <1>1, <1>4 DEF LaunchBatch, LoadFails, Sleep, FinishBatch, Done, vars, callVars
<1> QED
  BY <1>2, <1>3, <1>4 DEF Next

\* The telemetry file has one event for each response that was read
\* (lemonade_model.py:457-460, 507-510, 524-544).
THEOREM EventsAreSingle == Spec => []OneEventPerResponse
<1>1. Init => OneEventPerResponse
  BY DEF Init, CallInit, OneEventPerResponse, NoTelemetry
<1> QED
  BY <1>1, PermitInit, PermitStep, EventsStep, PTL DEF Spec

-----------------------------------------------------------------------------
(***************************************************************************)
(* The answers.  What lm-eval scores for a sample comes from one response  *)
(* to its own request, parsed with the stop strings of its own task,       *)
(* whatever was tried before and whatever goes on at the same time.        *)
(***************************************************************************)

OwnAnswer ==
    /\ DOMAIN answer = Calls /\ DOMAIN meant = Calls /\ DOMAIN call = Calls
    /\ \A c \in Calls : call[c] = "answered" =>
          \E r \in ResponsesTo[c] : answer[c] = r.answer /\ meant[c] = r.meant

LEMMA OwnAnswerStep == PermitInv /\ OwnAnswer /\ [Next]_vars => OwnAnswer'
<1> SUFFICES ASSUME PermitInv, OwnAnswer, [Next]_vars PROVE OwnAnswer'
  OBVIOUS
<1>1. call \in [Calls -> CallState] /\ DOMAIN answer = Calls /\ DOMAIN meant = Calls
  BY DEF PermitInv, CallTypes, OwnAnswer
<1>2. ASSUME UNCHANGED callVars PROVE OwnAnswer'
  BY <1>2 DEF callVars, OwnAnswer
<1>3. ASSUME NEW group, Hand(group) PROVE OwnAnswer'
  BY <1>3 DEF Hand, OwnAnswer
<1>4. CASE Evaluate
  <2>1. PICK c \in TaskBatches[batch] : CallStep(c)
    BY <1>4 DEF Evaluate
  <2>2. c \in Calls
    BY <1>4, <2>1, BatchesAreCalls DEF PermitInv, BatchRuns, Evaluate, Evaluating
  <2>3. CASE Receive(c)
    <3>1. PICK r \in ResponsesTo[c] : /\ answer' = [answer EXCEPT ![c] = r.answer]
                                      /\ meant' = [meant EXCEPT ![c] = r.meant]
      BY <2>3 DEF Receive
    <3>2. call' = [call EXCEPT ![c] = "answered"]
      BY <2>3 DEF Receive
    <3>3. answer'[c] = r.answer /\ meant'[c] = r.meant
      BY <1>1, <2>2, <3>1
    <3>4. ASSUME NEW d \in Calls, d # c
          PROVE  answer'[d] = answer[d] /\ meant'[d] = meant[d] /\ call'[d] = call[d]
      BY <1>1, <3>1, <3>2, <3>4
    <3>5. DOMAIN answer' = Calls /\ DOMAIN meant' = Calls /\ DOMAIN call' = Calls
      BY <1>1, <3>1, <3>2
    <3> QED
      BY <3>3, <3>4, <3>5 DEF OwnAnswer
  <2>4. CASE Post(c) \/ Acquire(c) \/ CallFails(c) \/ CancelCall(c)
    <3>1. UNCHANGED <<answer, meant>>
      BY <2>4 DEF Post, Acquire, CallFails, CancelCall
    <3>2. PICK to \in {"streaming", "waiting", "failed", "cancelled"} :
            call' = [call EXCEPT ![c] = to]
      BY <2>4 DEF Post, Acquire, CallFails, CancelCall
    <3>3. DOMAIN call' = Calls /\ \A d \in Calls : call'[d] = "answered" => call[d] = "answered"
      BY <1>1, <2>2, <3>2
    <3> QED
      BY <3>1, <3>3 DEF OwnAnswer
  <2> QED
    BY <2>1, <2>3, <2>4 DEF CallStep
<1>5. CASE \/ LoadDatasets \/ EvaluateFails \/ WriteResults \/ MetricsFail \/ CancelJob
  BY <1>3, <1>5 DEF LoadDatasets, EvaluateFails, WriteResults, MetricsFail, CancelJob
<1>6. CASE LaunchBatch \/ LoadFails \/ Sleep \/ FinishBatch \/ Done \/ UNCHANGED vars
  BY <1>2, <1>6 DEF LaunchBatch, LoadFails, Sleep, FinishBatch, Done, vars
<1> QED
  BY <1>4, <1>5, <1>6 DEF Next

\* What is scored for a sample is the answer of a response to its own request
\* (lemonade_model.py:376-460, 524-544).
THEOREM AnswersAreOwn == Spec => []OwnAnswer
<1>1. Init => OwnAnswer
  BY DEF Init, CallInit, OwnAnswer
<1> QED
  BY <1>1, PermitInit, PermitStep, OwnAnswerStep, PTL DEF Spec

-----------------------------------------------------------------------------
(***************************************************************************)
(* The text of an answer.  Of whatever plan, cut wherever the limit or the *)
(* connection cuts it, the adapter scores what the model meant: texts are  *)
(* collected by a recursive function, whose value is found by considering  *)
(* the least number at which it would differ from what it should be; what  *)
(* is delivered of a plan is its thinking up to some a, and an answer; and *)
(* thinking is recognised in either of its places, with or without an end. *)
(***************************************************************************)

LEMMA LeastNumber ==
    ASSUME NEW T \in SUBSET Nat, T # {}
    PROVE  \E x \in T : \A y \in T : x <= y
<1>1. PICK x \in T : \A y \in T : ~(<<y, x>> \in OpToRel(<, Nat))
  BY NatLessThanWellFounded, WFMin
<1>2. \A y \in T : y \in Nat /\ x \in Nat /\ ~(y < x)
  BY <1>1 DEF OpToRel
<1>3. \A y \in T : x <= y
  BY <1>2
<1> QED
  BY <1>3

\* The texts of the deltas from a + 1 to b.
Span(deltas, a, b) == [i \in 1..(b - a) |-> deltas[a + i].text]

LEMMA SpanIsKept ==
    ASSUME NEW deltas, Len(deltas) \in Nat,
           NEW a \in 0..Len(deltas), NEW b \in a..Len(deltas)
    PROVE  KeptTexts(deltas, (a + 1)..b) = Span(deltas, a, b)
<1> DEFINE L == Len(deltas)
           chosen == (a + 1)..b
           body(f) == [n \in 0..L |->
              IF n = 0 THEN <<>>
              ELSE IF n \in chosen THEN Append(f[n - 1], deltas[n].text)
              ELSE f[n - 1]]
           kept == CHOOSE f : f = body(f)
           upto(n) == IF n < a THEN a ELSE IF n < b THEN n ELSE b
           span == [n \in 0..L |-> Span(deltas, a, upto(n))]
<1>1. KeptTexts(deltas, chosen) = kept[L]
  BY Zenon DEF KeptTexts
<1>2. \A n \in 0..L : upto(n) \in a..b
  OBVIOUS
<1>3. Span(deltas, a, a) = <<>>
  <2>1. 1..(a - a) = {}
    OBVIOUS
  <2> QED
    BY <2>1 DEF Span
<1>4. ASSUME NEW n \in chosen
      PROVE  Append(Span(deltas, a, n - 1), deltas[n].text) = Span(deltas, a, n)
  <2>1. n \in Nat /\ n - 1 \in Nat /\ n - a \in Nat /\ (n - 1) - a \in Nat /\ a \in Nat
    OBVIOUS
  <2>2. /\ DOMAIN Span(deltas, a, n - 1) = 1..((n - 1) - a)
        /\ Span(deltas, a, n - 1) = [i \in 1..((n - 1) - a) |-> deltas[a + i].text]
    BY DEF Span
  <2> QED
    BY <2>1, <2>2 DEF Span
<1>5. span = body(span)
  <2>1. ASSUME NEW n \in 0..L
        PROVE  span[n] = body(span)[n]
    <3>1. CASE n = 0
      <4>1. upto(n) = a
        BY <3>1
      <4> QED
        BY <4>1, <3>1, <1>3
    <3>2. CASE n # 0 /\ n \in chosen
      <4>1. /\ upto(n) = n /\ upto(n - 1) = n - 1 /\ n - 1 \in 0..L
            /\ span[n] = Span(deltas, a, n) /\ span[n - 1] = Span(deltas, a, n - 1)
        BY <3>2
      <4>2. body(span)[n] = Append(span[n - 1], deltas[n].text)
        BY <3>2, Zenon
      <4> QED
        BY <4>1, <4>2, <1>4, <3>2
    <3>3. CASE n # 0 /\ n \notin chosen
      <4>1. /\ upto(n) = upto(n - 1) /\ n - 1 \in 0..L
            /\ span[n] = Span(deltas, a, upto(n)) /\ span[n - 1] = Span(deltas, a, upto(n - 1))
        BY <3>3
      <4>2. body(span)[n] = span[n - 1]
        BY <3>3, Zenon
      <4> QED
        BY <4>1, <4>2
    <3> QED
      BY <3>1, <3>2, <3>3
  <2>2. span = [n \in 0..L |-> span[n]]
    OBVIOUS
  <2>3. body(span) = [n \in 0..L |-> body(span)[n]]
    OBVIOUS
  <2> HIDE DEF body, span
  <2> QED
    BY <2>1, <2>2, <2>3, Zenon
<1>6. kept = body(kept)
  <2> HIDE DEF body, span
  <2> QED
    BY <1>5, Zenon
<1>7. \A n \in 0..L : kept[n] = span[n]
  <2> HIDE DEF span, kept
  <2> DEFINE wrong == {n \in 0..L : kept[n] # span[n]}
  <2>1. SUFFICES ASSUME wrong # {} PROVE FALSE
    OBVIOUS
  <2>2. PICK n \in wrong : \A k \in wrong : n <= k
    <3>1. wrong \in SUBSET Nat
      OBVIOUS
    <3> HIDE DEF wrong
    <3> QED
      BY <2>1, <3>1, LeastNumber
  <2>3. n \in 0..L /\ kept[n] # span[n]
    BY <2>2
  <2>4. n # 0 => n - 1 \in 0..L /\ kept[n - 1] = span[n - 1]
    BY <2>2
  <2>5. kept[n] = body(kept)[n] /\ span[n] = body(span)[n]
    BY <1>5, <1>6
  <2>6. body(kept)[n] = body(span)[n]
    BY <2>3, <2>4
  <2> QED
    BY <2>3, <2>5, <2>6
<1>8. upto(L) = b /\ L \in 0..L
  OBVIOUS
<1> QED
  BY <1>1, <1>7, <1>8

\* The answer that the model gives in what is delivered.
IsMeant(c, deltas) ==
    LET text == KeptTexts(deltas, {i \in DOMAIN deltas : deltas[i].final})
        thought == \E i \in DOMAIN deltas : ~deltas[i].final
        final == TruncateAtStop(IF thought THEN LStrip(text) ELSE text, StopsOf[c])
    IN  IF IsBlank(final) THEN <<>> ELSE final

\* The request leaves out the stop strings, so that what is delivered is the
\* plan as far as its limit and the connection let it come.
LEMMA PrefixIsDelivered ==
    ASSUME NEW c \in Calls, NEW plan \in Seq(Delta), NEW n \in 0..Len(plan)
    PROVE  \E k \in 0..Len(plan) :
             /\ Delivered(plan, GenerationPayload(c), n).deltas = SubSeq(plan, 1, k)
             /\ Meant(c, plan, n) = IsMeant(c, SubSeq(plan, 1, k))
<1> DEFINE L == Len(plan)
           limit == IF GenToks[c] > MinGenToks THEN GenToks[c] ELSE MinGenToks
           room == {n, L, limit}
           k == CHOOSE j \in room : \A i \in room : j <= i
           payload == GenerationPayload(c)
           full == Generated(plan, payload)
<1>1. L \in Nat /\ n \in Nat /\ n <= L /\ limit \in Nat
  BY CallAssumption
<1>2. payload.stop = {} /\ payload.limit = limit
  BY DEF GenerationPayload
<1>3. k \in room /\ k <= n /\ k <= L /\ k <= limit
  <2> HIDE DEF limit
  <2>1. \E j \in room : \A i \in room : j <= i
    BY <1>1
  <2> QED
    BY <2>1
<1>4. Meant(c, plan, n) = IsMeant(c, SubSeq(plan, 1, k))
  BY DEF Meant, IsMeant
<1> HIDE DEF payload, limit, k
<1>5. SelectInSeq(plan, LAMBDA d : d.text \in payload.stop) = 0
  BY <1>2 DEF SelectInSeq
<1>6. full = IF L > limit THEN [deltas |-> SubSeq(plan, 1, limit), finish |-> "length"]
             ELSE [deltas |-> plan, finish |-> "stop"]
  BY <1>2, <1>5 DEF Generated
<1>7. Delivered(plan, payload, n).deltas
        = IF n < Len(full.deltas) THEN SubSeq(full.deltas, 1, n) ELSE full.deltas
  BY DEF Delivered
<1> HIDE DEF full
<1>8. SubSeq(plan, 1, L) = plan
  OBVIOUS
<1>9. CASE L > limit
  <2>1. full.deltas = SubSeq(plan, 1, limit) /\ Len(full.deltas) = limit
    BY <1>1, <1>6, <1>9
  <2>2. CASE n < limit
    <3>1. SubSeq(SubSeq(plan, 1, limit), 1, n) = SubSeq(plan, 1, n)
      BY <1>1, <1>9, <2>2
    <3>2. k = n
      BY <1>1, <1>3, <1>9, <2>2
    <3> QED
      BY <1>1, <1>4, <1>7, <2>1, <2>2, <3>1, <3>2 DEF payload
  <2>3. CASE ~(n < limit)
    <3>1. k = limit
      BY <1>1, <1>3, <1>9, <2>3
    <3> QED
      BY <1>1, <1>4, <1>7, <1>9, <2>1, <2>3, <3>1 DEF payload
  <2> QED
    BY <2>2, <2>3
<1>10. CASE ~(L > limit)
  <2>1. full.deltas = plan
    BY <1>6, <1>10
  <2>2. k = n
    BY <1>1, <1>3, <1>10
  <2>3. Delivered(plan, payload, n).deltas = SubSeq(plan, 1, n)
    BY <1>1, <1>7, <1>8, <2>1
  <2> QED
    BY <1>4, <2>2, <2>3 DEF payload
<1> QED
  BY <1>9, <1>10

LEMMA LStripIsText ==
    ASSUME NEW text \in Seq(STRING)
    PROVE  LStrip(text) \in Seq(STRING) /\ LStrip(LStrip(text)) = LStrip(text)
<1>1. CASE IsBlank(text)
  <2>1. LStrip(text) = <<>>
    BY <1>1 DEF LStrip
  <2>2. IsBlank(<<>>) /\ <<>> \in Seq(STRING)
    BY DEF IsBlank
  <2>3. LStrip(<<>>) = <<>>
    BY <2>2 DEF LStrip
  <2> QED
    BY <2>1, <2>2, <2>3
<1>2. CASE ~IsBlank(text)
  <2> DEFINE I == {i \in 1..Len(text) : text[i] # Newline}
             first == SelectInSeq(text, LAMBDA x : x # Newline)
             rest == SubSeq(text, first, Len(text))
  <2>1. I # {} /\ I \in SUBSET Nat
    BY <1>2 DEF IsBlank
  <2>2. first = Min(I)
    BY <2>1 DEF SelectInSeq
  <2>3. first \in I
    <3>1. \E x \in I : \A y \in I : x <= y
      <4> HIDE DEF I
      <4> QED
        BY <2>1, LeastNumber
    <3> QED
      BY <2>2, <3>1 DEF Min
  <2> HIDE DEF first
  <2>4. (first - 1) + 1 = first /\ first \in 1..Len(text) /\ text[first] # Newline
    BY <2>3
  <2>5. LStrip(text) = rest
    BY <1>2, <2>4 DEF LStrip, After, first
  <2>6. rest \in Seq(STRING) /\ rest[1] = text[first] /\ 1 \in DOMAIN rest /\ Len(rest) >= 1
    BY <2>4
  <2> HIDE DEF rest
  <2>7. SelectInSeq(rest, LAMBDA x : x # Newline) = 1
    <3> DEFINE J == {i \in 1..Len(rest) : rest[i] # Newline}
    <3>1. 1 \in J /\ \A j \in J : 1 <= j
      BY <2>4, <2>6
    <3>2. Min(J) = 1
      <4>1. \A x \in J : (\A y \in J : x <= y) => x = 1
        BY <3>1
      <4> QED
        BY <3>1, <4>1 DEF Min
    <3> QED
      BY <3>1, <3>2 DEF SelectInSeq
  <2>8. ~IsBlank(rest)
    BY <2>4, <2>6 DEF IsBlank
  <2>9. SubSeq(rest, (1 - 1) + 1, Len(rest)) = rest
    BY <2>6
  <2> QED
    BY <2>5, <2>6, <2>7, <2>8, <2>9 DEF LStrip, After
<1> QED
  BY <1>1, <1>2

LEMMA SpanIsText ==
    ASSUME NEW deltas \in Seq(Delta),
           NEW a \in 0..Len(deltas), NEW b \in a..Len(deltas)
    PROVE  /\ Span(deltas, a, b) \in Seq(STRING) /\ Len(Span(deltas, a, b)) = b - a
           /\ \A i \in 1..(b - a) : Span(deltas, a, b)[i] = deltas[a + i].text
<1>1. b - a \in Nat /\ \A i \in 1..(b - a) : a + i \in 1..Len(deltas)
  OBVIOUS
<1>2. \A i \in 1..(b - a) : deltas[a + i].text \in STRING
  <2>1. \A d \in Delta : d.text \in STRING
    BY DEF Delta
  <2>2. \A j \in 1..Len(deltas) : deltas[j] \in Delta
    OBVIOUS
  <2> QED
    BY <1>1, <2>1, <2>2
<1>3. Span(deltas, a, b) = [i \in 1..(b - a) |-> deltas[a + i].text]
  BY DEF Span
<1>4. Span(deltas, a, b) \in Seq(STRING)
  BY <1>1, <1>2, <1>3
<1> QED
  BY <1>1, <1>3, <1>4

LEMMA TagsOfAPair ==
    /\ DOMAIN ThinkingTags = {1, 2} /\ Len(ThinkingTags) = 2
    /\ \A p \in {1, 2} : ThinkingTags[p][1] # ThinkingTags[p][2]
    /\ \A t : IsTag(t) <=> \E p \in {1, 2} : t = ThinkingTags[p][1] \/ t = ThinkingTags[p][2]
    /\ \A p, q \in {1, 2} : p # q =>
          {ThinkingTags[p][1], ThinkingTags[p][2]}
            \cap {ThinkingTags[q][1], ThinkingTags[q][2]} = {}
    /\ ToSet(ThinkingTags) = {ThinkingTags[1], ThinkingTags[2]}
<1>1. DOMAIN ThinkingTags = {1, 2} /\ Len(ThinkingTags) = 2
  BY DEF ThinkingTags
<1>2. /\ ThinkingTags[1][1] = "<think>" /\ ThinkingTags[1][2] = "</think>"
      /\ ThinkingTags[2][1] = "<analysis>" /\ ThinkingTags[2][2] = "</analysis>"
  BY DEF ThinkingTags
<1>3. ToSet(ThinkingTags) = {ThinkingTags[1], ThinkingTags[2]}
  BY <1>1 DEF ToSet
<1> QED
  BY <1>1, <1>2, <1>3 DEF IsTag

\* Content without a tag is all answer.
LEMMA PlainContent ==
    ASSUME NEW text, \A i \in 1..Len(text) : ~IsTag(text[i])
    PROVE  SplitThinking(text) = [reasoning |-> <<>>, content |-> text]
<1>1. {p \in 1..Len(ThinkingTags) :
         \E t \in {ThinkingTags[p][1], ThinkingTags[p][2]} : Contains(text, t)} = {}
  BY TagsOfAPair DEF Contains
<1>2. SelectInSeq(ThinkingTags, LAMBDA p : \E t \in {p[1], p[2]} : Contains(text, t)) = 0
  BY <1>1 DEF SelectInSeq
<1> QED
  BY <1>2 DEF SplitThinking

\* Content with tags of one pair only is split at them.
LEMMA TaggedContent ==
    ASSUME NEW text, NEW p \in {1, 2},
           Contains(text, ThinkingTags[p][1]),
           \A i \in 1..Len(text) :
              IsTag(text[i]) => text[i] \in {ThinkingTags[p][1], ThinkingTags[p][2]}
    PROVE  SplitThinking(text).content =
             LET close == LastOf(text, ThinkingTags[p][2])
             IN  IF close = 0 THEN <<>> ELSE LStrip(After(text, close))
<1> DEFINE pair == SelectInSeq(ThinkingTags, LAMBDA q : \E t \in {q[1], q[2]} : Contains(text, t))
           found == {q \in 1..Len(ThinkingTags) :
                       \E t \in {ThinkingTags[q][1], ThinkingTags[q][2]} : Contains(text, t)}
<1>1. found = {p}
  <2>1. p \in found
    BY TagsOfAPair
  <2>2. ASSUME NEW q \in {1, 2} \ {p} PROVE q \notin found
    <3>1. ASSUME NEW i \in 1..Len(text),
                 text[i] \in {ThinkingTags[q][1], ThinkingTags[q][2]}
          PROVE  FALSE
      <4>1. IsTag(text[i])
        BY <3>1, TagsOfAPair
      <4>2. text[i] \in {ThinkingTags[p][1], ThinkingTags[p][2]}
        BY <4>1
      <4>3. {ThinkingTags[p][1], ThinkingTags[p][2]}
              \cap {ThinkingTags[q][1], ThinkingTags[q][2]} = {}
        BY <2>2, TagsOfAPair
      <4> QED
        BY <3>1, <4>2, <4>3
    <3> QED
      BY <3>1 DEF Contains
  <2>3. found \subseteq {1, 2}
    BY TagsOfAPair
  <2> QED
    BY <2>1, <2>2, <2>3
<1>2. pair = Min(found)
  BY <1>1 DEF SelectInSeq
<1>3. pair = p
  <2> HIDE DEF pair, found
  <2>1. Min({p}) = p
    BY DEF Min
  <2> QED
    BY <1>1, <1>2, <2>1
<1> DEFINE close == LastOf(text, ThinkingTags[pair][2])
<1>4. SplitThinking(text).content =
        IF pair = 0 THEN text ELSE IF close = 0 THEN <<>> ELSE LStrip(After(text, close))
  BY DEF SplitThinking
<1> HIDE DEF pair
<1> QED
  BY <1>3, <1>4

LEMMA LastClosingTag ==
    ASSUME NEW text, Len(text) \in Nat, NEW m \in 1..Len(text), NEW t, text[m] = t,
           \A i \in (m + 1)..Len(text) : text[i] # t
    PROVE  LastOf(text, t) = m
<1> DEFINE I == {i \in 1..Len(text) : text[i] = t}
<1>1. m \in I /\ \A i \in I : m >= i
  OBVIOUS
<1>2. LastOf(text, t) = Max(I)
  BY <1>1 DEF LastOf, SelectLastInSeq
<1>3. Max(I) = m
  <2>1. \A x \in I : (\A y \in I : x >= y) => x = m
    BY <1>1
  <2> QED
    BY <1>1, <2>1 DEF Max
<1> QED
  BY <1>2, <1>3

\* Deltas of which the first a are thinking, in a field of its own, or in the
\* content and between tags, of which the closing one may not have come.
Begins(deltas, a) ==
    /\ a \in 0..Len(deltas)
    /\ \A i \in 1..Len(deltas) : deltas[i].final <=> i > a
    /\ \A i \in (a + 1)..Len(deltas) : deltas[i].field = "content" /\ ~IsTag(deltas[i].text)
InAField(deltas, a) == \A i \in 1..a : deltas[i].field = "reasoning"
Between(text, a, p) ==
    /\ a > 0 => text[1] = ThinkingTags[p][1]
    /\ \A i \in 2..Len(text) : IsTag(text[i]) => i = a /\ text[i] = ThinkingTags[p][2]
    /\ a < Len(text) => a > 1 /\ text[a] = ThinkingTags[p][2]
BetweenTags(deltas, a) ==
    /\ \A i \in 1..a : deltas[i].field = "content"
    /\ \E p \in {1, 2} : Between(Span(deltas, 0, Len(deltas)), a, p)

Scored(c, text) ==
    LET final == TruncateAtStop(text, StopsOf[c])
    IN  IF IsBlank(final) THEN <<>> ELSE final

LEMMA NothingScored == \A c : Scored(c, <<>>) = <<>> /\ LStrip(<<>>) = <<>>
<1>1. IsBlank(<<>>)
  BY DEF IsBlank
<1>2. \A stops : TruncateAtStop(<<>>, stops) = <<>>
  BY DEF TruncateAtStop, SelectInSeq
<1> QED
  BY <1>1, <1>2 DEF LStrip, Scored

LEMMA MeantIsScored ==
    ASSUME NEW c, NEW deltas \in Seq(Delta), NEW a, Begins(deltas, a)
    PROVE  IsMeant(c, deltas) = LET text == Span(deltas, a, Len(deltas))
                                IN  Scored(c, IF a > 0 THEN LStrip(text) ELSE text)
<1> DEFINE k == Len(deltas)
           text == Span(deltas, a, k)
<1>1. k \in Nat /\ a \in 0..k /\ DOMAIN deltas = 1..k /\ \A i \in 1..k : deltas[i].final <=> i > a
  BY DEF Begins
<1>2. {i \in DOMAIN deltas : deltas[i].final} = (a + 1)..k
  BY <1>1
<1>3. (\E i \in DOMAIN deltas : ~deltas[i].final) <=> a > 0
  <2>1. a > 0 => 1 \in 1..k /\ ~(1 > a)
    BY <1>1
  <2> QED
    BY <1>1, <2>1
<1>4. KeptTexts(deltas, (a + 1)..k) = text
  BY <1>1, SpanIsKept
<1> HIDE DEF text, k
<1> QED
  BY <1>2, <1>3, <1>4 DEF IsMeant, Scored, k, text

\* Thinking in a field of its own stays out of the content.
LEMMA FieldIsNotScored ==
    ASSUME NEW c, NEW deltas \in Seq(Delta), NEW a, Begins(deltas, a), InAField(deltas, a)
    PROVE  FinalAnswer([content   |-> Texts(deltas, "content"),
                        reasoning |-> Texts(deltas, "reasoning")], StopsOf[c])
             = LET text == Span(deltas, a, Len(deltas))
               IN  Scored(c, IF a > 0 THEN LStrip(text) ELSE text)
<1> DEFINE k == Len(deltas)
           text == Span(deltas, a, k)
           content == Texts(deltas, "content")
           reasoning == Texts(deltas, "reasoning")
<1>1. k \in Nat /\ a \in 0..k /\ DOMAIN deltas = 1..k
  BY DEF Begins
<1>2. /\ {i \in DOMAIN deltas : deltas[i].field = "content"} = (a + 1)..k
      /\ {i \in DOMAIN deltas : deltas[i].field = "reasoning"} = (0 + 1)..a
  <2>1. \A i \in 1..k : IF i > a THEN deltas[i].field = "content" ELSE deltas[i].field = "reasoning"
    BY <1>1 DEF Begins, InAField
  <2> QED
    BY <1>1, <2>1
<1>3. content = text /\ reasoning = Span(deltas, 0, a)
  <2>1. content = KeptTexts(deltas, (a + 1)..k) /\ reasoning = KeptTexts(deltas, (0 + 1)..a)
    BY <1>2 DEF Texts
  <2>2. KeptTexts(deltas, (a + 1)..k) = text
    BY <1>1, SpanIsKept
  <2>3. 0 \in 0..Len(deltas) /\ a \in 0..Len(deltas)
    BY <1>1
  <2>4. KeptTexts(deltas, (0 + 1)..a) = Span(deltas, 0, a)
    BY <1>1, <2>3, SpanIsKept
  <2> QED
    BY <2>1, <2>2, <2>4
<1>4. reasoning # <<>> <=> a > 0
  <2>0. 0 \in 0..Len(deltas) /\ a \in 0..Len(deltas)
    BY <1>1
  <2>1. Len(Span(deltas, 0, a)) = a - 0
    BY <2>0, SpanIsText, Zenon
  <2>2. a = 0 => Span(deltas, 0, a) = <<>>
    <3>1. 1..(0 - 0) = {}
      OBVIOUS
    <3> QED
      BY <3>1 DEF Span
  <2> QED
    BY <1>1, <1>3, <2>1, <2>2
<1>5. \A i \in 1..Len(text) : ~IsTag(text[i])
  <2>0. a \in 0..Len(deltas) /\ k \in a..Len(deltas)
    BY <1>1
  <2>1. Len(text) = k - a /\ \A i \in 1..(k - a) : text[i] = deltas[a + i].text
    BY <2>0, SpanIsText, Zenon
  <2>2. \A i \in 1..(k - a) : a + i \in (a + 1)..k
    BY <1>1
  <2> HIDE DEF text
  <2> QED
    BY <2>1, <2>2 DEF Begins
<1>6. SplitThinking(content) = [reasoning |-> <<>>, content |-> text]
  <2> HIDE DEF text, content
  <2> QED
    BY <1>3, <1>5, PlainContent
<1> HIDE DEF content, reasoning, text
<1> QED
  BY <1>4, <1>6 DEF FinalAnswer, Scored, content, reasoning, text

\* Thinking between tags is split off, even if it has no end.
LEMMA SplitAfterTags ==
    ASSUME NEW text \in Seq(STRING), NEW a \in 1..Len(text), NEW p \in {1, 2}, Between(text, a, p)
    PROVE  SplitThinking(text).content = LStrip(After(text, a))
<1> DEFINE close == LastOf(text, ThinkingTags[p][2])
<1>1. Len(text) \in Nat /\ a \in Nat /\ text[1] = ThinkingTags[p][1] /\ 1 \in 1..Len(text)
  BY DEF Between
<1>2. \A i \in 1..Len(text) : i # 1 =>
          (IsTag(text[i]) => i = a /\ text[i] = ThinkingTags[p][2])
  BY DEF Between
<1>3. SplitThinking(text).content = IF close = 0 THEN <<>> ELSE LStrip(After(text, close))
  <2>1. Contains(text, ThinkingTags[p][1])
    BY <1>1 DEF Contains
  <2>2. \A i \in 1..Len(text) : IsTag(text[i])
           => text[i] \in {ThinkingTags[p][1], ThinkingTags[p][2]}
    BY <1>1, <1>2
  <2> QED
    BY <2>1, <2>2, TaggedContent
<1>4. ThinkingTags[p][1] # ThinkingTags[p][2] /\ IsTag(ThinkingTags[p][2])
  BY TagsOfAPair
<1>5. CASE a > 1 /\ text[a] = ThinkingTags[p][2]
  <2>1. \A i \in (a + 1)..Len(text) : text[i] # ThinkingTags[p][2]
    BY <1>1, <1>2, <1>4
  <2>2. close = a
    BY <1>1, <1>5, <2>1, LastClosingTag
  <2> HIDE DEF close
  <2> QED
    BY <1>1, <1>3, <2>2
<1>6. CASE ~(a > 1 /\ text[a] = ThinkingTags[p][2])
  <2>1. a = Len(text)
    BY <1>1, <1>6 DEF Between
  <2>2. \A i \in 1..Len(text) : text[i] # ThinkingTags[p][2]
    BY <1>1, <1>2, <1>4, <1>6
  <2>3. close = 0
    BY <2>2 DEF LastOf, SelectLastInSeq
  <2>4. After(text, a) = <<>>
    BY <1>1, <2>1 DEF After
  <2> HIDE DEF close
  <2> QED
    BY <1>3, <2>3, <2>4, NothingScored
<1> QED
  BY <1>5, <1>6

LEMMA TagsAreNotScored ==
    ASSUME NEW c, NEW deltas \in Seq(Delta), NEW a, Begins(deltas, a), BetweenTags(deltas, a)
    PROVE  FinalAnswer([content   |-> Texts(deltas, "content"),
                        reasoning |-> Texts(deltas, "reasoning")], StopsOf[c])
             = LET text == Span(deltas, a, Len(deltas))
               IN  Scored(c, IF a > 0 THEN LStrip(text) ELSE text)
<1> DEFINE k == Len(deltas)
           text == Span(deltas, a, k)
           whole == Span(deltas, 0, k)
           content == Texts(deltas, "content")
           reasoning == Texts(deltas, "reasoning")
<1>1. k \in Nat /\ a \in 0..k /\ DOMAIN deltas = 1..k
  BY DEF Begins
<1>2. /\ {i \in DOMAIN deltas : deltas[i].field = "content"} = (0 + 1)..k
      /\ {i \in DOMAIN deltas : deltas[i].field = "reasoning"} = (0 + 1)..0
  <2>1. \A i \in 1..k : deltas[i].field = "content"
    BY <1>1 DEF Begins, BetweenTags
  <2> QED
    BY <1>1, <2>1
<1>3. content = whole /\ reasoning = <<>>
  <2>1. content = KeptTexts(deltas, (0 + 1)..k) /\ reasoning = KeptTexts(deltas, (0 + 1)..0)
    BY <1>2 DEF Texts
  <2>2. 0 \in 0..Len(deltas) /\ k \in 0..Len(deltas) /\ 0 \in 0..0
    BY <1>1
  <2>3. KeptTexts(deltas, (0 + 1)..k) = whole /\ KeptTexts(deltas, (0 + 1)..0) = Span(deltas, 0, 0)
    BY <1>1, <2>2, SpanIsKept
  <2>4. Span(deltas, 0, 0) = <<>>
    <3>1. 1..(0 - 0) = {}
      OBVIOUS
    <3> QED
      BY <3>1 DEF Span
  <2> QED
    BY <2>1, <2>3, <2>4
<1>4. /\ whole \in Seq(STRING) /\ Len(whole) = k
      /\ \A i \in 1..k : whole[i] = deltas[i].text
  <2>1. 0 \in 0..Len(deltas) /\ k \in 0..Len(deltas) /\ k - 0 = k /\ \A i \in 1..k : 0 + i = i
    BY <1>1
  <2>2. /\ whole \in Seq(STRING) /\ Len(whole) = k - 0
        /\ \A i \in 1..(k - 0) : whole[i] = deltas[0 + i].text
    BY <2>1, SpanIsText, Zenon
  <2> HIDE DEF whole
  <2> QED
    BY <2>1, <2>2
<1>5. text \in Seq(STRING) /\ text = After(whole, a)
  <2>0. a \in 0..Len(deltas) /\ k \in a..Len(deltas)
    BY <1>1
  <2>1. /\ text \in Seq(STRING) /\ Len(text) = k - a
        /\ \A i \in 1..(k - a) : text[i] = deltas[a + i].text
    BY <2>0, SpanIsText, Zenon
  <2> HIDE DEF text, whole, k
  <2>2. /\ After(whole, a) \in Seq(STRING) /\ Len(After(whole, a)) = k - a
        /\ \A i \in 1..(k - a) : After(whole, a)[i] = whole[a + i]
    BY <1>1, <1>4 DEF After
  <2>3. \A i \in 1..(k - a) : a + i \in 1..k
    BY <1>1
  <2>4. \A i \in 1..(k - a) : text[i] = After(whole, a)[i]
    BY <1>4, <2>1, <2>2, <2>3
  <2> QED
    BY <2>1, <2>2, <2>4
<1>6. PICK p \in {1, 2} : Between(whole, a, p)
  BY DEF BetweenTags
<1> HIDE DEF content, reasoning, text, whole
<1>7. CASE a = 0
  <2>1. \A i \in 1..Len(whole) : ~IsTag(whole[i])
    BY <1>1, <1>4, <1>7 DEF Begins
  <2>2. SplitThinking(content) = [reasoning |-> <<>>, content |-> whole]
    BY <1>3, <2>1, PlainContent
  <2>3. text = whole
    BY <1>1, <1>4, <1>5, <1>7 DEF After
  <2> QED
    BY <1>3, <1>7, <2>2, <2>3 DEF FinalAnswer, Scored, content, reasoning, text
<1>8. CASE a > 0
  <2>1. SplitThinking(content).content = LStrip(text)
    BY <1>1, <1>3, <1>4, <1>5, <1>6, <1>8, SplitAfterTags
  <2>2. LStrip(LStrip(text)) = LStrip(text)
    BY <1>5, LStripIsText
  <2> QED
    BY <1>8, <2>1, <2>2 DEF FinalAnswer, Scored, content, reasoning, text
<1> QED
  BY <1>1, <1>7, <1>8

LEMMA CutPlan ==
    ASSUME NEW plan \in Seq(Delta), ThinksThenAnswers(plan), NEW j \in 0..Len(plan)
    PROVE  LET deltas == SubSeq(plan, 1, j)
           IN  /\ deltas \in Seq(Delta)
               /\ \E a : Begins(deltas, a) /\ (InAField(deltas, a) \/ BetweenTags(deltas, a))
<1> DEFINE deltas == SubSeq(plan, 1, j)
<1>1. /\ deltas \in Seq(Delta) /\ Len(deltas) = j
      /\ j \in Nat /\ j <= Len(plan) /\ Len(plan) \in Nat
      /\ \A i \in 1..j : deltas[i] = plan[i] /\ i \in 1..Len(plan)
  OBVIOUS
<1>2. PICK m \in 0..Len(plan) :
      /\ \A i \in 1..Len(plan) : plan[i].final = (i > m)
      /\ \A i \in (m + 1)..Len(plan) : plan[i].field = "content" /\ ~IsTag(plan[i].text)
      /\ \/ \A i \in 1..m : plan[i].field = "reasoning"
         \/ /\ m > 1
            /\ \A i \in 1..m : plan[i].field = "content"
            /\ \E tags \in ToSet(ThinkingTags) : plan[1].text = tags[1] /\ plan[m].text = tags[2]
            /\ \A i \in 2..(m - 1) : ~IsTag(plan[i].text)
  BY DEF ThinksThenAnswers
<1> DEFINE a == IF j < m THEN j ELSE m
<1>3. m \in Nat /\ a \in 0..j /\ a <= m /\ (j < m => a = j) /\ (~(j < m) => a = m)
  BY <1>1
<1> HIDE DEF a, deltas
<1>4. Begins(deltas, a)
  <2>1. \A i \in 1..j : i > m <=> i > a
    BY <1>1, <1>3
  <2>2. \A i \in 1..j : deltas[i].final <=> i > a
    BY <1>1, <1>2, <2>1
  <2>3. \A i \in (a + 1)..j : i \in (m + 1)..Len(plan) /\ i \in 1..j
    BY <1>1, <1>3
  <2>4. \A i \in (a + 1)..j : deltas[i].field = "content" /\ ~IsTag(deltas[i].text)
    BY <1>1, <1>2, <2>3
  <2> QED
    BY <1>1, <1>3, <2>2, <2>4 DEF Begins
<1>5. CASE \A i \in 1..m : plan[i].field = "reasoning"
  <2>1. InAField(deltas, a)
    BY <1>1, <1>3, <1>5 DEF InAField
  <2> QED
    BY <1>1, <1>4, <2>1 DEF deltas
<1>6. CASE /\ m > 1
           /\ \A i \in 1..m : plan[i].field = "content"
           /\ \E tags \in ToSet(ThinkingTags) : plan[1].text = tags[1] /\ plan[m].text = tags[2]
           /\ \A i \in 2..(m - 1) : ~IsTag(plan[i].text)
  <2>1. PICK p \in {1, 2} : plan[1].text = ThinkingTags[p][1] /\ plan[m].text = ThinkingTags[p][2]
    BY <1>6, TagsOfAPair
  <2> DEFINE whole == Span(deltas, 0, Len(deltas))
  <2>2. Len(whole) = j /\ \A i \in 1..j : whole[i] = plan[i].text
    <3>1. 0 \in 0..Len(deltas) /\ j \in 0..Len(deltas) /\ j - 0 = j /\ \A i \in 1..j : 0 + i = i
      BY <1>1
    <3>2. /\ Len(Span(deltas, 0, j)) = j - 0
          /\ \A i \in 1..(j - 0) : Span(deltas, 0, j)[i] = deltas[0 + i].text
      BY <1>1, <3>1, SpanIsText, Zenon
    <3>3. whole = Span(deltas, 0, j)
      BY <1>1
    <3> HIDE DEF whole
    <3> QED
      BY <1>1, <3>1, <3>2, <3>3
  <2> HIDE DEF whole
  <2>3. Between(whole, a, p)
    <3>1. a > 0 => whole[1] = ThinkingTags[p][1]
      BY <1>1, <1>3, <2>1, <2>2
    <3>2. \A i \in 2..Len(whole) : IsTag(whole[i]) => i = a /\ whole[i] = ThinkingTags[p][2]
      <4>1. \A i \in 2..j : i # m => ~IsTag(plan[i].text)
        BY <1>1, <1>2, <1>3, <1>6
      <4>2. m <= j => a = m
        BY <1>1, <1>3
      <4> QED
        BY <1>1, <1>3, <2>1, <2>2, <4>1, <4>2
    <3>3. a < Len(whole) => a > 1 /\ whole[a] = ThinkingTags[p][2]
      <4>1. a < j => a = m /\ m \in 1..j
        BY <1>1, <1>3, <1>6
      <4> QED
        BY <1>6, <2>1, <2>2, <4>1
    <3> QED
      BY <3>1, <3>2, <3>3 DEF Between
  <2>4. \A i \in 1..a : deltas[i].field = "content"
    BY <1>1, <1>3, <1>6
  <2>5. BetweenTags(deltas, a)
    BY <2>3, <2>4 DEF BetweenTags, whole
  <2> QED
    BY <1>1, <1>4, <2>5 DEF deltas
<1> QED
  BY <1>2, <1>5, <1>6

\* Every response is scored as it was meant.
LEMMA ScoredAsMeant ==
    ASSUME NEW c \in Calls, NEW r \in ResponsesTo[c]
    PROVE  r.answer = r.meant
<1>1. PICK plan \in Plans : \E n \in 0..Len(plan) : r = ModelResponse(c, plan, n)
  BY DEF ResponsesTo
<1>2. PICK n \in 0..Len(plan) : r = ModelResponse(c, plan, n)
  BY <1>1
<1>3. plan \in Seq(Delta) /\ ThinksThenAnswers(plan)
  BY PlansAssumption
<1>4. PICK j \in 0..Len(plan) :
        /\ Delivered(plan, GenerationPayload(c), n).deltas = SubSeq(plan, 1, j)
        /\ Meant(c, plan, n) = IsMeant(c, SubSeq(plan, 1, j))
  BY <1>3, PrefixIsDelivered
<1> DEFINE deltas == SubSeq(plan, 1, j)
           message == [content   |-> Texts(deltas, "content"),
                       reasoning |-> Texts(deltas, "reasoning")]
           output == StreamResponse(Delivered(plan, GenerationPayload(c), n))
           marked == [output EXCEPT !.recorded = TRUE]
<1>5. FinalAnswer(message, StopsOf[c]) = IsMeant(c, deltas)
  <2>1. PICK a : /\ deltas \in Seq(Delta) /\ Begins(deltas, a)
                 /\ InAField(deltas, a) \/ BetweenTags(deltas, a)
    BY <1>3, CutPlan, Zenon
  <2> DEFINE text == Span(deltas, a, Len(deltas))
             worth == Scored(c, IF a > 0 THEN LStrip(text) ELSE text)
  <2> HIDE DEF deltas
  <2>2. IsMeant(c, deltas) = worth
    BY <2>1, MeantIsScored, Zenon
  <2>3. FinalAnswer(message, StopsOf[c]) = worth
    <3>1. CASE InAField(deltas, a)
      BY <2>1, <3>1, FieldIsNotScored, Zenon
    <3>2. CASE BetweenTags(deltas, a)
      BY <2>1, <3>2, TagsAreNotScored, Zenon
    <3> QED
      BY <2>1, <3>1, <3>2
  <2> QED
    BY <2>2, <2>3
<1>6. marked.message = message
  BY <1>4 DEF StreamResponse
<1>7. r.answer = ParseGenerations(marked, StopsOf[c]).answer /\ r.meant = Meant(c, plan, n)
  BY <1>2 DEF ModelResponse
<1> HIDE DEF marked, message
<1>8. ParseGenerations(marked, StopsOf[c]).answer = FinalAnswer(message, StopsOf[c])
  BY <1>6 DEF ParseGenerations
<1> QED
  BY <1>4, <1>5, <1>7, <1>8

-----------------------------------------------------------------------------
\* Only the final content is scored, an unfinished reasoning trace is never an
\* answer, and only the stop strings of the call's own task cut it: for plans
\* of any length, any stop strings, any limits and any connection that closes
\* early (README.md:196-201, lemonade_model.py:131-171).
THEOREM AnswersAreFinal == Spec => []AnswerIsFinalContent
<1>1. OwnAnswer => AnswerIsFinalContent
  <2> SUFFICES ASSUME OwnAnswer, NEW c \in Calls, call[c] = "answered"
               PROVE  answer[c] = meant[c]
    BY DEF AnswerIsFinalContent
  <2>1. PICK r \in ResponsesTo[c] : answer[c] = r.answer /\ meant[c] = r.meant
    BY DEF OwnAnswer
  <2> QED
    BY <2>1, ScoredAsMeant
<1> QED
  BY <1>1, AnswersAreOwn, PTL

===============================================================================
