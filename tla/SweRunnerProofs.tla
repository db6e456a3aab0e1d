---------------------------- MODULE SweRunnerProofs ----------------------------
(***************************************************************************)
(* Proofs about SweRunner, for any number of tasks and attempts, any limit *)
(* of the host, and cancellations, requests and restarts at any step.      *)
(*                                                                         *)
(* The script, its container and the host each know a part of the truth:   *)
(* the script where it is, the container what it does, the host what it    *)
(* pins and works on.  The properties compare them, so the invariant says  *)
(* of every combination that is reachable what the others may be.  Four    *)
(* parts of it are about the source files, the pin, the requests that were *)
(* given up, and the end of the job.                                       *)
(***************************************************************************)
EXTENDS SweRunner, FiniteSetTheorems, TLAPS

\* Where the script is, the container is.
ScriptAndBox ==
    /\ script.pc \in {"next", "drain", "final"} => box = "none"
    /\ box # "none" => script.task \in Tasks
    /\ script.pc \in {"box", "drain", "final"}
         => script.task \in Tasks /\ script.attempt \in 1..PassCount
    /\ mode # "handoff" => box \notin {"drain", "unpin", "load", "judged", "restore"}

\* The attempts at the current task are those before the present one, none of
\* which passed; the tasks to come have no files.
AttemptsInOrder ==
    /\ script.pc \in {"box", "drain"} =>
         \A a \in 1..PassCount :
           /\ source[<<script.task, a>>] # "pass"
           /\ source[<<script.task, a>>] # NoFile <=> a < script.attempt
    /\ script.pc = "final" =>
         \A a \in 1..PassCount :
           /\ source[<<script.task, a>>] # NoFile <=> a <= script.attempt
           /\ a < script.attempt => source[<<script.task, a>>] # "pass"
    /\ script.pc # "dead" =>
         \A t \in Tasks, a \in 1..PassCount : t > script.task => source[<<t, a>>] = NoFile
    /\ box = "exited" /\ code = "result" => source[Final(script.task)] \in Verdict

\* A result that says pass has an attempt that does, but for the task that is
\* in its container or was there when the script died.
PassHasAttempt ==
    \A t \in Tasks :
        source[Final(t)] = "pass" /\ ~(t = script.task /\ script.pc \in {"box", "dead"})
          => \E a \in 1..PassCount : source[<<t, a>>] = "pass"

\* Between the handoffs the candidate is pinned.
PinIsBack ==
    /\ script.pc # "dead" /\ mode # "plain" /\ ~unsure
    /\ \/ mode = "same"
       \/ box \in {"agent", "drain", "unpin", "report", "exited"}
       \/ box = "none" /\ script.pc # "box"
    => Candidate \in pins

\* The host works on an agent's request only after the agent has timed out, and
\* then no agent is started.
GivenUpMeansOver ==
    mode # "plain" /\ "agent" \in busy =>
        \/ box = "exited" /\ code = "timeout"
        \/ box = "none" /\ script.pc \in {"box", "drain", "dead"}

\* A script that ends takes its container along, and the worker waits for it.
EndInOrder ==
    /\ worker.pc # "wait" => script.pc = "dead"
    /\ script.pc = "dead" /\ cancel # "killed" => box = "none"
    /\ cancel = "none" <=> lister = "none"
    /\ lister = "removed" => box = "none"
    /\ worker.pc = "done" /\ cancel # "killed" => pins \subseteq worker.kept

SweInv ==
    /\ TypeOK
    /\ ScriptAndBox /\ AttemptsInOrder /\ PassHasAttempt
    /\ PinIsBack /\ GivenUpMeansOver /\ EndInOrder

-----------------------------------------------------------------------------
(***************************************************************************)
(* Types.                                                                  *)
(***************************************************************************)

LEMMA Numbers == NTasks \in Nat \ {0} /\ PassCount \in Nat \ {0}
BY RunnerAssumption

LEMMA SummariesHaveTypes ==
    /\ NoSummary \in Summary
    /\ \A files \in Files : Summarise(files) \in Summary
<1>1. NoSummary \in Summary
  BY Numbers DEF NoSummary, Summary
<1>2. ASSUME NEW files \in Files PROVE Summarise(files) \in Summary
  <2> DEFINE S == {f \in Results(files) : files[f] = "pass"}
  <2>1. S \subseteq Tasks \X {0} /\ Results(files) \subseteq File
    BY DEF Results, File
  <2>2. IsFiniteSet(1..NTasks) /\ Cardinality(1..NTasks) = NTasks
    BY Numbers, FS_Interval
  <2>3. [f \in S |-> f[1]] \in Injection(S, 1..NTasks)
    BY <2>1 DEF Injection, IsInjective, Tasks
  <2>4. IsFiniteSet(S) /\ Cardinality(S) <= NTasks
    BY <2>2, <2>3, FS_Injection
  <2>5. Cardinality(S) \in 0..NTasks
    BY <2>4, FS_CardinalityType, Numbers
  <2> QED
    BY <2>1, <2>5, Numbers DEF Summarise, Summary
<1> QED
  BY <1>1, <1>2

LEMMA Paths ==
    /\ \A t \in Tasks : Final(t) \in File /\ \A a \in 1..PassCount : <<t, a>> \in File
    /\ \A t \in Tasks, u \in Tasks : Final(t) = Final(u) => t = u
    /\ \A t \in Tasks, u \in Tasks, a \in 1..PassCount : <<t, a>> # Final(u)
    /\ \A t \in Tasks, u \in Tasks, a \in 1..PassCount, b \in 1..PassCount :
         <<t, a>> = <<u, b>> => t = u /\ a = b
BY Numbers DEF Final, File, Tasks

LEMMA RacedType == ASSUME TypeOK, Racing PROVE raced' \in BOOLEAN
BY DEF TypeOK, Racing

-----------------------------------------------------------------------------
(***************************************************************************)
(* The script.                                                             *)
(***************************************************************************)

\* The types of what the script leaves alone.
LEMMA ScriptTypes ==
    ASSUME TypeOK, Racing, ScriptOnly,
           TaskTypeOK', source' \in Files, sourceSum' \in Summary,
           script'.pc \in {"next", "box", "drain", "final", "dead"},
           script'.task \in 0..NTasks, script'.attempt \in 0..PassCount,
           script'.exit \in {0, 1},
           script' = [pc |-> script'.pc, task |-> script'.task,
                      attempt |-> script'.attempt, exit |-> script'.exit]
    PROVE  TypeOK'
<1>1. raced' \in BOOLEAN
  BY RacedType
<1>2. script' \in [pc : {"next", "box", "drain", "final", "dead"}, task : 0..NTasks,
                    attempt : 0..PassCount, exit : {0, 1}]
  OBVIOUS
<1> QED
  BY <1>1, <1>2 DEF TypeOK, ScriptOnly, jobVars, Key, Job

LEMMA NextTaskKeeps == ASSUME SweInv, Racing, NextTask PROVE SweInv'
<1>1. PICK t \in Todo : (\A u \in Todo : t <= u) /\ StartBox(t, 1)
  BY DEF NextTask
<1>2. /\ t \in Tasks /\ t > script.task /\ source[Final(t)] = NoFile
      /\ script.pc = "next" /\ cancel = "none" /\ script.task \in 0..NTasks
  BY DEF Todo, NextTask, Obeys, SweInv, TypeOK
<1>3. /\ script' = [script EXCEPT !.pc = "box", !.task = t, !.attempt = 1]
      /\ box' = "agent" /\ verdict' = "zero" /\ code' = "result"
      /\ UNCHANGED <<mode, pins, busy, unsure, source, sourceSum>>
      /\ ScriptOnly
  BY <1>1 DEF StartBox, SetBox, Put, NextTask
<1>4. TypeOK'
  <2>1. TaskTypeOK'
    BY <1>3 DEF SweInv, TypeOK, TaskTypeOK, Box, Verdict, Codes
  <2>2. source' \in Files /\ sourceSum' \in Summary
    BY <1>3 DEF SweInv, TypeOK
  <2>3. script' = [pc |-> "box", task |-> t, attempt |-> 1, exit |-> script.exit]
    BY <1>3 DEF SweInv, TypeOK
  <2>4. script.exit \in {0, 1}
    BY DEF SweInv, TypeOK
  <2>5. t \in 0..NTasks /\ 1 \in 0..PassCount
    BY <1>2, Numbers DEF Tasks
  <2> QED
    BY <1>3, <2>1, <2>2, <2>3, <2>4, <2>5, ScriptTypes DEF SweInv
<1>5. script'.pc = "box" /\ script'.task = t /\ script'.attempt = 1
  BY <1>3 DEF SweInv, TypeOK
<1>6. ScriptAndBox'
  BY <1>2, <1>3, <1>5, Numbers DEF SweInv, ScriptAndBox
<1>7. AttemptsInOrder'
  <2>1. \A a \in 1..PassCount : source[<<t, a>>] = NoFile
    BY <1>2 DEF SweInv, AttemptsInOrder
  <2>2. \A u \in Tasks, a \in 1..PassCount : u > t => source[<<u, a>>] = NoFile
    <3> SUFFICES ASSUME NEW u \in Tasks, NEW a \in 1..PassCount, u > t
                 PROVE  source[<<u, a>>] = NoFile
      OBVIOUS
    <3>1. u > script.task
      BY <1>2, Numbers DEF Tasks
    <3> QED
      BY <1>2, <3>1 DEF SweInv, AttemptsInOrder
  <2> QED
    BY <1>3, <1>5, <2>1, <2>2, Numbers DEF AttemptsInOrder, NoFile
<1>8. PassHasAttempt'
  BY <1>2, <1>3, <1>5 DEF SweInv, PassHasAttempt, NoFile
<1>9. PinIsBack' /\ GivenUpMeansOver'
  <2>1. box = "none"
    BY <1>2 DEF SweInv, ScriptAndBox
  <2> QED
    BY <1>2, <1>3, <1>5, <2>1 DEF SweInv, PinIsBack, GivenUpMeansOver
<1>10. EndInOrder'
  BY <1>2, <1>3, <1>5 DEF SweInv, EndInOrder, ScriptOnly, jobVars
<1> QED
  BY <1>4, <1>6, <1>7, <1>8, <1>9, <1>10 DEF SweInv

\* The attempt in the container, or the one whose candidate is idle again.
LEMMA KeepAttemptKeeps ==
    ASSUME SweInv, Racing, ScriptOnly, Obeys,
           script.pc \in {"box", "drain"}, box \in {"none", "exited"},
           box = "none" => script.pc = "drain",
           mode = "plain" \/ "agent" \notin busy,
           NEW v \in Verdict, KeepAttempt(v)
    PROVE  SweInv'
<1> DEFINE t == script.task
           n == script.attempt
<1>1. /\ t \in Tasks /\ n \in 1..PassCount /\ source \in Files /\ cancel = "none"
      /\ script.exit \in {0, 1} /\ Final(t) \in File /\ <<t, n>> \in File
  BY Paths DEF SweInv, ScriptAndBox, TypeOK, Obeys
<1>2. /\ source' = [source EXCEPT ![Final(t)] = NoFile, ![<<t, n>>] = v]
      /\ UNCHANGED <<mode, pins, busy, unsure, sourceSum>>
      /\ verdict' = "zero" /\ code' = "result"
  BY DEF KeepAttempt, SetBox, Put
<1>3. \/ /\ Decided(v) /\ box' = "none"
         /\ script' = [pc |-> "final", task |-> t, attempt |-> n, exit |-> script.exit]
      \/ /\ ~Decided(v) /\ box' = "agent"
         /\ script' = [pc |-> "box", task |-> t, attempt |-> n + 1, exit |-> script.exit]
  BY DEF KeepAttempt, SetBox, Put, SweInv, TypeOK
<1>4. /\ source' \in Files
      /\ \A f \in File : source'[f] = IF f = <<t, n>> THEN v
                                     ELSE IF f = Final(t) THEN NoFile ELSE source[f]
  BY <1>1, <1>2 DEF Files
<1>5. ~Decided(v) => v # "pass" /\ n + 1 \in 1..PassCount
  BY <1>1, Numbers DEF Decided
<1>6. TypeOK'
  <2>1. TaskTypeOK'
    BY <1>2, <1>3 DEF SweInv, TypeOK, TaskTypeOK, Box, Verdict, Codes
  <2>2. sourceSum' \in Summary
    BY <1>2 DEF SweInv, TypeOK
  <2>3. n \in 0..PassCount /\ t \in 0..NTasks /\ (~Decided(v) => n + 1 \in 0..PassCount)
    BY <1>1, <1>5, Numbers DEF Tasks
  <2> QED
    BY <1>1, <1>3, <1>4, <2>1, <2>2, <2>3, ScriptTypes DEF SweInv
<1>7. ScriptAndBox'
  BY <1>1, <1>2, <1>3, <1>5 DEF SweInv, ScriptAndBox
<1>8. \A a \in 1..PassCount : source'[<<t, a>>] = IF a = n THEN v ELSE source[<<t, a>>]
  BY <1>1, <1>4, Paths
<1>9. \A u \in Tasks, a \in 1..PassCount : u # t => source'[<<u, a>>] = source[<<u, a>>]
  BY <1>1, <1>4, Paths
<1>10. \A u \in Tasks : source'[Final(u)] = IF u = t THEN NoFile ELSE source[Final(u)]
  BY <1>1, <1>4, Paths
<1>11. \A a \in 1..PassCount : /\ source[<<t, a>>] # "pass"
                               /\ source[<<t, a>>] # NoFile <=> a < n
  BY DEF SweInv, AttemptsInOrder
<1>12. script'.task = t /\ script'.pc \in {"box", "final"}
  BY <1>3
<1>13. AttemptsInOrder'
  <2>1. \A u \in Tasks, a \in 1..PassCount : u > t => source'[<<u, a>>] = NoFile
    <3> SUFFICES ASSUME NEW u \in Tasks, NEW a \in 1..PassCount, u > t
                 PROVE  source'[<<u, a>>] = NoFile
      OBVIOUS
    <3>1. u # t
      BY <1>1 DEF Tasks
    <3> QED
      BY <3>1, <1>9 DEF SweInv, AttemptsInOrder
  <2>2. v # NoFile
    BY DEF Verdict, NoFile
  <2>3. CASE Decided(v)
    BY <2>1, <2>2, <2>3, <1>1, <1>3, <1>8, <1>11 DEF AttemptsInOrder
  <2>4. CASE ~Decided(v)
    BY <2>1, <2>2, <2>4, <1>1, <1>3, <1>5, <1>8, <1>11 DEF AttemptsInOrder
  <2> QED
    BY <2>3, <2>4
<1>14. PassHasAttempt'
  <2> SUFFICES ASSUME NEW u \in Tasks, source'[Final(u)] = "pass"
               PROVE  \E a \in 1..PassCount : source'[<<u, a>>] = "pass"
    BY DEF PassHasAttempt
  <2>1. u # t /\ source[Final(u)] = "pass"
    BY <1>10 DEF NoFile
  <2> QED
    BY <2>1, <1>9 DEF SweInv, PassHasAttempt
<1>15. PinIsBack' /\ GivenUpMeansOver'
  BY <1>2, <1>3 DEF SweInv, PinIsBack, GivenUpMeansOver
<1>16. EndInOrder'
  BY <1>1, <1>3 DEF SweInv, EndInOrder, ScriptOnly, jobVars
<1> QED
  BY <1>6, <1>7, <1>13, <1>14, <1>15, <1>16 DEF SweInv

\* The script ends, its container gone.
LEMMA EndScriptKeeps ==
    ASSUME SweInv, Racing, ScriptOnly, NEW status \in {0, 1}, EndScript(status),
           box' = "none", verdict' \in Verdict, code' \in Codes,
           UNCHANGED <<mode, pins, busy, unsure, source>>
    PROVE  SweInv'
<1> script' = [pc |-> "dead", task |-> script.task, attempt |-> 0, exit |-> status]
  BY DEF EndScript, SweInv, TypeOK
<1>1. script.task \in 0..NTasks /\ 0 \in 0..PassCount
  BY Numbers DEF SweInv, TypeOK
<1>2. source' \in Files /\ sourceSum' \in Summary
  BY SummariesHaveTypes DEF EndScript, SweInv, TypeOK
<1>3. TaskTypeOK'
  BY DEF SweInv, TypeOK, TaskTypeOK, Box
<1>4. TypeOK'
  BY <1>1, <1>2, <1>3, ScriptTypes DEF SweInv
<1>5. script'.pc = "dead" /\ script'.task = script.task
  BY <1>1
<1>6. ScriptAndBox'
  BY <1>5 DEF ScriptAndBox
<1>7. AttemptsInOrder'
  BY <1>5 DEF AttemptsInOrder
<1>8. PassHasAttempt'
  BY <1>5 DEF SweInv, PassHasAttempt
<1>9. PinIsBack' /\ GivenUpMeansOver'
  BY <1>5 DEF PinIsBack, GivenUpMeansOver
<1>10. EndInOrder'
  BY <1>5 DEF SweInv, EndInOrder, ScriptOnly, jobVars
<1> QED
  BY <1>4, <1>6, <1>7, <1>8, <1>9, <1>10 DEF SweInv

LEMMA EndsKeep ==
    ASSUME SweInv, Racing, Complete \/ DrainTimeout \/ Trap PROVE SweInv'
<1>1. /\ script.pc \in {"next", "drain", "final"} => box = "none"
      /\ verdict \in Verdict /\ code \in Codes
  BY DEF SweInv, TypeOK, TaskTypeOK, ScriptAndBox
<1>2. CASE Complete
  <2>1. box' = "none" /\ EndScript(0) /\ ScriptOnly /\ verdict' \in Verdict /\ code' \in Codes
        /\ UNCHANGED <<mode, pins, busy, unsure, source>>
    BY <1>1, <1>2 DEF Complete, taskVars
  <2> QED
    BY <2>1, EndScriptKeeps
<1>3. CASE DrainTimeout
  <2>1. box' = "none" /\ EndScript(1) /\ ScriptOnly /\ verdict' \in Verdict /\ code' \in Codes
        /\ UNCHANGED <<mode, pins, busy, unsure, source>>
    BY <1>1, <1>3 DEF DrainTimeout, taskVars
  <2> QED
    BY <2>1, EndScriptKeeps
<1>4. CASE Trap
  <2>1. box' = "none" /\ EndScript(1) /\ ScriptOnly /\ verdict' \in Verdict /\ code' \in Codes
        /\ UNCHANGED <<mode, pins, busy, unsure, source>>
    BY <1>4 DEF Trap, SetBox, Put, Verdict, Codes
  <2> QED
    BY <2>1, EndScriptKeeps
<1> QED
  BY <1>2, <1>3, <1>4

\* The agent timed out: its result is zero, and its request may go on.
LEMMA AgentTimedOutKeeps ==
    ASSUME SweInv, Racing, ScriptOnly, Obeys, script.pc = "box", box = "exited",
           source' = [source EXCEPT ![Final(script.task)] = "zero"],
           script' = [script EXCEPT !.pc = "drain"], SetBox("none"), UNCHANGED sourceSum
    PROVE  SweInv'
<1> DEFINE t == script.task
<1>1. /\ t \in Tasks /\ script.attempt \in 1..PassCount /\ source \in Files
      /\ cancel = "none" /\ script.exit \in {0, 1} /\ Final(t) \in File
  BY Paths DEF SweInv, ScriptAndBox, TypeOK, Obeys
<1>2. /\ UNCHANGED <<mode, pins, busy, unsure>>
      /\ box' = "none" /\ verdict' = "zero" /\ code' = "result"
  BY DEF SetBox, Put
<1>3. script' = [pc |-> "drain", task |-> t, attempt |-> script.attempt, exit |-> script.exit]
  BY DEF SweInv, TypeOK
<1>4. /\ source' \in Files
      /\ \A f \in File : source'[f] = IF f = Final(t) THEN "zero" ELSE source[f]
  BY <1>1 DEF Files, Verdict
<1>5. TypeOK'
  <2>1. TaskTypeOK'
    BY <1>2 DEF SweInv, TypeOK, TaskTypeOK, Box, Verdict, Codes
  <2>2. sourceSum' \in Summary
    BY DEF SweInv, TypeOK
  <2>3. script.attempt \in 0..PassCount /\ t \in 0..NTasks
    BY <1>1, Numbers DEF Tasks
  <2> QED
    BY <1>1, <1>3, <1>4, <2>1, <2>2, <2>3, ScriptTypes DEF SweInv
<1>6. ScriptAndBox'
  BY <1>1, <1>2, <1>3 DEF ScriptAndBox
<1>7. \A u \in Tasks, a \in 1..PassCount : source'[<<u, a>>] = source[<<u, a>>]
  <2> SUFFICES ASSUME NEW u \in Tasks, NEW a \in 1..PassCount
               PROVE  source'[<<u, a>>] = source[<<u, a>>]
    OBVIOUS
  <2>1. <<u, a>> \in File /\ <<u, a>> # Final(t)
    BY <1>1, Paths
  <2> QED
    BY <1>4, <2>1
<1>8. AttemptsInOrder'
  BY <1>1, <1>2, <1>3, <1>7 DEF SweInv, AttemptsInOrder
<1>9. PassHasAttempt'
  <2>1. \A u \in Tasks : source'[Final(u)] = IF u = t THEN "zero" ELSE source[Final(u)]
    BY <1>1, <1>4, Paths
  <2> QED
    BY <1>7, <2>1 DEF SweInv, PassHasAttempt
<1>10. PinIsBack' /\ GivenUpMeansOver'
  BY <1>2, <1>3 DEF SweInv, PinIsBack, GivenUpMeansOver
<1>11. EndInOrder'
  BY <1>1, <1>2, <1>3 DEF SweInv, EndInOrder, ScriptOnly, jobVars
<1> QED
  BY <1>5, <1>6, <1>8, <1>9, <1>10, <1>11 DEF SweInv

LEMMA BoxExitsKeeps == ASSUME SweInv, Racing, BoxExits PROVE SweInv'
<1>1. Obeys /\ script.pc = "box" /\ box = "exited" /\ ScriptOnly
  BY DEF BoxExits
<1>2. code \in Codes /\ script.task \in Tasks
  BY <1>1 DEF SweInv, TypeOK, TaskTypeOK, ScriptAndBox
<1>3. mode = "plain" \/ "agent" \notin busy \/ code = "timeout"
  BY <1>1 DEF SweInv, GivenUpMeansOver
<1>4. CASE code = "result"
  <2>1. source[Final(script.task)] \in Verdict
    BY <1>1, <1>4 DEF SweInv, AttemptsInOrder
  <2>2. KeepAttempt(source[Final(script.task)])
    BY <1>1, <1>4 DEF BoxExits
  <2> QED
    BY <1>1, <1>3, <1>4, <2>1, <2>2, KeepAttemptKeeps
<1>5. CASE code = "handoff"
  <2>1. KeepAttempt("zero") /\ "zero" \in Verdict
    BY <1>1, <1>5 DEF BoxExits, Verdict
  <2> QED
    BY <1>1, <1>3, <1>5, <2>1, KeepAttemptKeeps
<1>6. CASE code = "timeout"
  <2>1. /\ source' = [source EXCEPT ![Final(script.task)] = "zero"]
        /\ script' = [script EXCEPT !.pc = "drain"] /\ SetBox("none") /\ UNCHANGED sourceSum
    BY <1>1, <1>6 DEF BoxExits
  <2> QED
    BY <1>1, <2>1, AgentTimedOutKeeps
<1>7. CASE code = "fatal"
  <2>1. UNCHANGED source /\ SetBox("none") /\ EndScript(1)
    BY <1>1, <1>7 DEF BoxExits
  <2> QED
    BY <1>1, <2>1, EndScriptKeeps DEF SetBox, Put, Verdict, Codes
<1> QED
  BY <1>2, <1>4, <1>5, <1>6, <1>7 DEF Codes

LEMMA CandidateIdleKeeps == ASSUME SweInv, Racing, CandidateIdle PROVE SweInv'
<1>1. /\ Obeys /\ script.pc = "drain" /\ ScriptOnly
      /\ KeepAttempt("zero") /\ "zero" \in Verdict
      /\ mode = "plain" \/ "agent" \notin busy
  BY DEF CandidateIdle, Drained, Idle, Verdict
<1>2. box = "none"
  BY <1>1 DEF SweInv, ScriptAndBox
<1> QED
  BY <1>1, <1>2, KeepAttemptKeeps

\* The attempt that is chosen is one of the task's, and one that passed if
\* there is any.
LEMMA BestIsAnAttempt ==
    ASSUME SweInv, script.pc = "final"
    PROVE  /\ Best(script.task) \in 1..PassCount
           /\ source[<<script.task, Best(script.task)>>] \in Verdict
<1> DEFINE t == script.task
           n == script.attempt
           passed == {a \in Attempts(t) : source[<<t, a>>] = "pass"}
           Wanted(a) == IF passed # {} THEN a \in passed /\ \A b \in passed : a <= b
                                       ELSE \A b \in Attempts(t) : b <= a
<1>1. t \in Tasks /\ n \in 1..PassCount /\ source \in Files
  BY DEF SweInv, ScriptAndBox, TypeOK
<1>2. \A a \in 1..PassCount : /\ source[<<t, a>>] # NoFile <=> a <= n
                              /\ a < n => source[<<t, a>>] # "pass"
  BY DEF SweInv, AttemptsInOrder
<1>3. Attempts(t) = {a \in 1..PassCount : a <= n} /\ n \in Attempts(t)
  BY <1>1, <1>2 DEF Attempts
<1>4. passed \subseteq {n}
  BY <1>1, <1>2, <1>3
<1>5. Wanted(n)
  <2>1. CASE passed # {}
    <3>1. passed = {n}
      BY <1>4, <2>1
    <3>2. n <= n
      BY <1>1
    <3> QED
      BY <3>1, <3>2
  <2>2. CASE passed = {}
    BY <1>3, <2>2
  <2> QED
    BY <2>1, <2>2
<1>6. Best(t) = CHOOSE a \in Attempts(t) : Wanted(a)
  BY DEF Best
<1>7. Best(t) \in Attempts(t)
  BY <1>3, <1>5, <1>6
<1>8. Best(t) \in 1..PassCount /\ source[<<t, Best(t)>>] # NoFile
  BY <1>7 DEF Attempts
<1>9. <<t, Best(t)>> \in File
  BY <1>1, <1>8, Paths
<1> QED
  BY <1>1, <1>8, <1>9 DEF Files

LEMMA WriteFinalKeeps == ASSUME SweInv, Racing, WriteFinal PROVE SweInv'
<1> DEFINE t == script.task
           v == source[<<t, Best(t)>>]
<1>1. /\ t \in Tasks /\ script.attempt \in 1..PassCount /\ source \in Files
      /\ script.pc = "final" /\ box = "none" /\ cancel = "none"
      /\ script.exit \in {0, 1} /\ Final(t) \in File /\ ScriptOnly
  BY Paths DEF SweInv, ScriptAndBox, TypeOK, WriteFinal, Obeys
<1>2. Best(t) \in 1..PassCount /\ v \in Verdict
  BY <1>1, BestIsAnAttempt
<1>3. /\ source' = [source EXCEPT ![Final(t)] = v]
      /\ script' = [script EXCEPT !.pc = "next"]
      /\ UNCHANGED <<taskVars, sourceSum>>
  BY DEF WriteFinal
<1>4. /\ source' \in Files
      /\ \A f \in File : source'[f] = IF f = Final(t) THEN v ELSE source[f]
  <2> HIDE DEF v
  <2> QED
    BY <1>1, <1>2, <1>3 DEF Files
<1>5. script' = [pc |-> "next", task |-> t, attempt |-> script.attempt, exit |-> script.exit]
  BY <1>3 DEF SweInv, TypeOK
<1>6. TypeOK'
  <2>1. TaskTypeOK'
    BY <1>3 DEF SweInv, TypeOK, TaskTypeOK, taskVars
  <2>2. sourceSum' \in Summary
    BY <1>3 DEF SweInv, TypeOK
  <2>3. script.attempt \in 0..PassCount /\ t \in 0..NTasks
    BY <1>1, Numbers DEF Tasks
  <2> QED
    BY <1>1, <1>4, <1>5, <2>1, <2>2, <2>3, ScriptTypes DEF SweInv
<1>7. box' = "none" /\ UNCHANGED <<mode, pins, busy, unsure, code>>
  BY <1>1, <1>3 DEF taskVars
<1>8. ScriptAndBox'
  BY <1>5, <1>7 DEF ScriptAndBox
<1>9. \A u \in Tasks, a \in 1..PassCount : source'[<<u, a>>] = source[<<u, a>>]
  <2> SUFFICES ASSUME NEW u \in Tasks, NEW a \in 1..PassCount
               PROVE  source'[<<u, a>>] = source[<<u, a>>]
    OBVIOUS
  <2>1. <<u, a>> \in File /\ <<u, a>> # Final(t)
    BY <1>1, Paths
  <2> QED
    BY <1>4, <2>1
<1>10. AttemptsInOrder'
  BY <1>1, <1>5, <1>7, <1>9 DEF SweInv, AttemptsInOrder
<1>11. PassHasAttempt'
  <2> SUFFICES ASSUME NEW u \in Tasks, source'[Final(u)] = "pass"
               PROVE  \E a \in 1..PassCount : source'[<<u, a>>] = "pass"
    BY DEF PassHasAttempt
  <2>1. CASE u = t
    BY <1>1, <1>2, <1>4, <1>9, <2>1
  <2>2. CASE u # t
    <3>1. source[Final(u)] = "pass"
      BY <1>1, <1>4, <2>2, Paths
    <3> QED
      BY <1>9, <2>2, <3>1 DEF SweInv, PassHasAttempt
  <2> QED
    BY <2>1, <2>2
<1>12. PinIsBack' /\ GivenUpMeansOver'
  BY <1>1, <1>5, <1>7 DEF SweInv, PinIsBack, GivenUpMeansOver
<1>13. EndInOrder'
  BY <1>1, <1>5, <1>7 DEF SweInv, EndInOrder, ScriptOnly, jobVars
<1> QED
  BY <1>6, <1>8, <1>10, <1>11, <1>12, <1>13 DEF SweInv

-----------------------------------------------------------------------------
(***************************************************************************)
(* The container and the host.                                             *)
(***************************************************************************)

LEMMA WriteResultKeeps == ASSUME SweInv, Racing, WriteResult PROVE SweInv'
<1> DEFINE t == script.task
<1>1. /\ t \in Tasks /\ source \in Files /\ verdict \in Verdict /\ box = "report"
      /\ script.pc \in {"box", "dead"} /\ Final(t) \in File /\ ScriptOnly
  BY Paths DEF WriteResult, SweInv, ScriptAndBox, TypeOK, TaskTypeOK
<1>2. /\ source' = [source EXCEPT ![Final(t)] = verdict]
      /\ box' = "exited" /\ code' = "result"
      /\ UNCHANGED <<mode, verdict, pins, busy, unsure, sourceSum, script>>
  BY DEF WriteResult, Exit
<1>3. /\ source' \in Files
      /\ \A f \in File : source'[f] = IF f = Final(t) THEN verdict ELSE source[f]
  BY <1>1, <1>2 DEF Files
<1>4. TypeOK'
  <2>1. TaskTypeOK'
    BY <1>2 DEF SweInv, TypeOK, TaskTypeOK, Box, Codes
  <2>2. raced' \in BOOLEAN
    BY RacedType DEF SweInv
  <2> QED
    BY <1>1, <1>2, <1>3, <2>1, <2>2 DEF SweInv, TypeOK, ScriptOnly, jobVars, Key, Job
<1>5. ScriptAndBox'
  BY <1>1, <1>2 DEF SweInv, ScriptAndBox
<1>6. \A u \in Tasks, a \in 1..PassCount : source'[<<u, a>>] = source[<<u, a>>]
  <2> SUFFICES ASSUME NEW u \in Tasks, NEW a \in 1..PassCount
               PROVE  source'[<<u, a>>] = source[<<u, a>>]
    OBVIOUS
  <2>1. <<u, a>> \in File /\ <<u, a>> # Final(t)
    BY <1>1, Paths
  <2> QED
    BY <1>3, <2>1
<1>7. AttemptsInOrder'
  <2>1. script'.task = t /\ script'.pc = script.pc /\ script'.attempt = script.attempt
    BY <1>2
  <2>2. source'[Final(t)] \in Verdict
    BY <1>1, <1>3
  <2>3. script.pc = "box" => script.task \in Tasks /\ script.attempt \in 1..PassCount
    BY DEF SweInv, ScriptAndBox
  <2> QED
    BY <1>1, <1>6, <2>1, <2>2, <2>3 DEF SweInv, AttemptsInOrder
<1>8. PassHasAttempt'
  <2>1. \A u \in Tasks : u # t => source'[Final(u)] = source[Final(u)]
    BY <1>1, <1>3, Paths
  <2> QED
    BY <1>1, <1>2, <1>6, <2>1 DEF SweInv, PassHasAttempt
<1>9. PinIsBack' /\ GivenUpMeansOver'
  BY <1>1, <1>2 DEF SweInv, PinIsBack, GivenUpMeansOver
<1>10. EndInOrder'
  BY <1>1, <1>2 DEF SweInv, EndInOrder, ScriptOnly, jobVars
<1> QED
  BY <1>4, <1>5, <1>7, <1>8, <1>9, <1>10 DEF SweInv

\* What a step of the container may do: it runs, it never becomes an agent
\* again, a request of the agent is given up only when it times out, and the
\* candidate keeps its pin on the way to the end unless the step says otherwise.
ContainerMoves ==
    /\ box # "none" /\ UNCHANGED mode /\ TaskTypeOK'
    /\ box' \in Box \ {"none", "agent"}
    /\ mode # "handoff" => box' \notin {"drain", "unpin", "load", "judged", "restore"}
    /\ box' = "exited" => code' # "result"
    /\ "agent" \in busy' => "agent" \in busy \/ (box' = "exited" /\ code' = "timeout")
    /\ "agent" \in busy => box # "exited"
    /\ ~unsure' /\ (mode = "same" \/ box' \in {"drain", "unpin", "report", "exited"}) =>
         \/ Candidate \in pins'
         \/ /\ UNCHANGED pins /\ ~unsure
            /\ mode = "same" \/ box \in {"agent", "drain", "unpin", "report", "exited"}
         \/ mode = "plain"

LEMMA BoxStepMoves ==
    ASSUME TaskTypeOK, BoxStep,
           mode # "handoff" => box \notin {"drain", "unpin", "load", "judged", "restore"}
    PROVE  ContainerMoves
<1>1. CASE AgentFinishes
  BY <1>1 DEF AgentFinishes, Go, HostUnchanged, ContainerMoves, TaskTypeOK, Box
<1>2. CASE AgentFails
  BY <1>2 DEF AgentFails, Exit, ContainerMoves, TaskTypeOK, Box, Codes
<1>3. CASE Drain
  BY <1>3 DEF Drain, Zero, Go, HostUnchanged, ContainerMoves, TaskTypeOK, Box, Verdict
<1>4. CASE Unpin
  BY <1>4 DEF Unpin, Abandon, Zero, Go, ContainerMoves, TaskTypeOK, Box, Verdict
<1>5. CASE Load
  BY <1>5 DEF Load, LoadAndPin, Zero, Go, ContainerMoves, TaskTypeOK, Box, Verdict
<1>6. CASE JudgeAnswers
  BY <1>6 DEF JudgeAnswers, Go, ContainerMoves, TaskTypeOK, Box, Verdict, Mode
<1>7. CASE AwaitJudge
  BY <1>7 DEF AwaitJudge, Abandon, Zero, Go, ContainerMoves, TaskTypeOK, Box, Verdict
<1>8. CASE Restore
  BY <1>8 DEF Restore, LoadAndPin, Abandon, Zero, Go, ContainerMoves, TaskTypeOK, Box, Verdict
<1> QED
  BY <1>1, <1>2, <1>3, <1>4, <1>5, <1>6, <1>7, <1>8 DEF BoxStep

LEMMA ContainerStepKeeps == ASSUME SweInv, Racing, ContainerStep PROVE SweInv'
<1>1. ContainerMoves
  BY BoxStepMoves DEF ContainerStep, SweInv, TypeOK, ScriptAndBox
<1>2. UNCHANGED <<script, source, sourceSum, runs, runsSum, tmp>> /\ UNCHANGED jobVars
  BY DEF ContainerStep, fileVars
<1>3. script.pc \in {"box", "dead"} /\ script.task \in Tasks
  BY <1>1 DEF ContainerMoves, SweInv, ScriptAndBox, TypeOK
<1>4. TypeOK'
  <2>1. raced' \in BOOLEAN
    BY RacedType DEF SweInv
  <2> QED
    BY <1>1, <1>2, <2>1 DEF ContainerMoves, SweInv, TypeOK, jobVars, Key, Job
<1>5. ScriptAndBox'
  BY <1>1, <1>2, <1>3 DEF ContainerMoves, SweInv, ScriptAndBox
<1>6. AttemptsInOrder' /\ PassHasAttempt'
  BY <1>1, <1>2 DEF ContainerMoves, SweInv, AttemptsInOrder, PassHasAttempt
<1>7. PinIsBack'
  BY <1>1, <1>2, <1>3 DEF ContainerMoves, SweInv, PinIsBack, Box
<1>8. GivenUpMeansOver'
  BY <1>1, <1>2 DEF ContainerMoves, SweInv, GivenUpMeansOver
<1>9. EndInOrder'
  BY <1>1, <1>2, <1>3 DEF ContainerMoves, SweInv, EndInOrder, jobVars
<1> QED
  BY <1>4, <1>5, <1>6, <1>7, <1>8, <1>9 DEF SweInv

LEMMA HostStepKeeps == ASSUME SweInv, Racing, HostStep PROVE SweInv'
<1>1. /\ busy' \subseteq busy
      /\ UNCHANGED <<mode, box, verdict, code, pins, unsure, script>>
      /\ UNCHANGED <<source, sourceSum, runs, runsSum, tmp>> /\ UNCHANGED jobVars
  BY DEF HostStep, RequestEnds, fileVars
<1>2. TypeOK'
  <2>1. raced' \in BOOLEAN
    BY RacedType DEF SweInv
  <2> QED
    BY <1>1, <2>1 DEF SweInv, TypeOK, TaskTypeOK, jobVars, Key, Job
<1>3. ScriptAndBox' /\ AttemptsInOrder' /\ PassHasAttempt'
  BY <1>1 DEF SweInv, ScriptAndBox, AttemptsInOrder, PassHasAttempt
<1>4. PinIsBack' /\ GivenUpMeansOver'
  BY <1>1 DEF SweInv, PinIsBack, GivenUpMeansOver
<1>5. EndInOrder'
  BY <1>1 DEF SweInv, EndInOrder, jobVars
<1> QED
  BY <1>2, <1>3, <1>4, <1>5 DEF SweInv

-----------------------------------------------------------------------------
(***************************************************************************)
(* The worker, the requests, the operator.                                 *)
(***************************************************************************)

\* What the others do bears on the types and on the end of the job alone.
LEMMA OthersKeep ==
    ASSUME SweInv, TypeOK', EndInOrder',
           UNCHANGED <<mode, box, verdict, code, busy, unsure, script, source>>,
           UNCHANGED pins \/ script.pc = "dead"
    PROVE  SweInv'
<1>1. ScriptAndBox' /\ AttemptsInOrder' /\ PassHasAttempt'
  BY DEF SweInv, ScriptAndBox, AttemptsInOrder, PassHasAttempt
<1>2. PinIsBack' /\ GivenUpMeansOver'
  BY DEF SweInv, PinIsBack, GivenUpMeansOver
<1> QED
  BY <1>1, <1>2 DEF SweInv

WorkerType == [pc : {"wait", "found", "escaped", "done"} \cup Collecting,
               job : Job, mem : Summary, handling : BOOLEAN,
               kept : SUBSET {Candidate, Judge}]
ReaderType == [pc : {"idle", "found"} \cup Collecting, job : Job, mem : Summary]

LEMMA CopyTreeTypes ==
    ASSUME TypeOK, NEW job, CopyTree(job)
    PROVE  runs' \in Files /\ runsSum' \in Summary
<1>1. source \in Files /\ runs \in Files /\ sourceSum \in Summary /\ runsSum \in Summary
  BY DEF TypeOK
<1>2. CASE Copied(job)
  <2>1. runs' = [f \in File |-> IF source[f] # NoFile THEN source[f] ELSE runs[f]]
    BY <1>2 DEF CopyTree
  <2>2. runs' \in Files
    BY <1>1, <2>1 DEF Files
  <2> QED
    BY <1>1, <1>2, <2>2 DEF CopyTree
<1>3. CASE ~Copied(job)
  BY <1>1, <1>3 DEF CopyTree
<1> QED
  BY <1>2, <1>3

LEMMA WorkerCollectTypes ==
    ASSUME TypeOK, Collect(worker)
    PROVE  /\ runs' \in Files /\ {runsSum', tmp'} \subseteq Summary /\ worker' \in WorkerType
           /\ worker'.pc \in {"found", "write", "replace"} /\ worker.pc \in Collecting
<1>0. worker \in WorkerType /\ {runsSum, tmp} \subseteq Summary /\ runs \in Files
  BY DEF TypeOK, WorkerType
<1>1. CASE /\ worker.pc = "collect" /\ CopyTree(worker.job) /\ UNCHANGED tmp
           /\ LET mem == Summarise(runs')
              IN  worker' = [worker EXCEPT !.job.copied = @ \/ Copied(worker.job), !.mem = mem,
                               !.pc = IF mem = NoSummary THEN "found" ELSE "write"]
  <2>1. runs' \in Files /\ runsSum' \in Summary
    BY <1>1, CopyTreeTypes
  <2>2. Summarise(runs') \in Summary
    BY <2>1, SummariesHaveTypes
  <2>3. (worker.job.copied \/ Copied(worker.job)) \in BOOLEAN
    OBVIOUS
  <2> DEFINE mem == Summarise(runs')
             copied == worker.job.copied \/ Copied(worker.job)
  <2>4. worker' = [worker EXCEPT !.job.copied = copied, !.mem = mem,
                                 !.pc = IF mem = NoSummary THEN "found" ELSE "write"]
    BY <1>1
  <2> HIDE DEF mem, copied
  <2>5. worker' \in WorkerType /\ worker'.pc \in {"found", "write"}
    BY <1>0, <2>2, <2>3, <2>4 DEF WorkerType, Job, Collecting, mem, copied
  <2> QED
    BY <1>0, <1>1, <2>1, <2>5 DEF Collecting
<1>2. CASE worker.pc = "write" /\ tmp' = worker.mem /\ UNCHANGED <<runs, runsSum>>
           /\ worker' = [worker EXCEPT !.pc = "replace", !.mem = NoSummary]
  BY <1>0, <1>2, SummariesHaveTypes DEF WorkerType, Collecting
<1>3. CASE /\ worker.pc = "replace" /\ runsSum' = tmp /\ tmp' = NoSummary /\ UNCHANGED runs
           /\ worker' = [worker EXCEPT !.pc = "found"]
  BY <1>0, <1>3, SummariesHaveTypes DEF WorkerType, Collecting
<1> QED
  BY <1>1, <1>2, <1>3 DEF Collect

LEMMA ReaderCollectTypes ==
    ASSUME TypeOK, Collect(reader)
    PROVE  runs' \in Files /\ {runsSum', tmp'} \subseteq Summary /\ reader' \in ReaderType
<1>0. reader \in ReaderType /\ {runsSum, tmp} \subseteq Summary /\ runs \in Files
  BY DEF TypeOK, ReaderType
<1>1. CASE /\ reader.pc = "collect" /\ CopyTree(reader.job) /\ UNCHANGED tmp
           /\ LET mem == Summarise(runs')
              IN  reader' = [reader EXCEPT !.job.copied = @ \/ Copied(reader.job), !.mem = mem,
                               !.pc = IF mem = NoSummary THEN "found" ELSE "write"]
  <2>1. runs' \in Files /\ runsSum' \in Summary
    BY <1>1, CopyTreeTypes
  <2>2. Summarise(runs') \in Summary
    BY <2>1, SummariesHaveTypes
  <2>3. (reader.job.copied \/ Copied(reader.job)) \in BOOLEAN
    OBVIOUS
  <2> DEFINE mem == Summarise(runs')
             copied == reader.job.copied \/ Copied(reader.job)
  <2>4. reader' = [reader EXCEPT !.job.copied = copied, !.mem = mem,
                                 !.pc = IF mem = NoSummary THEN "found" ELSE "write"]
    BY <1>1
  <2> HIDE DEF mem, copied
  <2>5. reader' \in ReaderType
    BY <1>0, <2>2, <2>3, <2>4 DEF ReaderType, Job, Collecting, mem, copied
  <2> QED
    BY <1>0, <1>1, <2>1, <2>5
<1>2. CASE reader.pc = "write" /\ tmp' = reader.mem /\ UNCHANGED <<runs, runsSum>>
           /\ reader' = [reader EXCEPT !.pc = "replace", !.mem = NoSummary]
  BY <1>0, <1>2, SummariesHaveTypes DEF ReaderType, Collecting
<1>3. CASE /\ reader.pc = "replace" /\ runsSum' = tmp /\ tmp' = NoSummary /\ UNCHANGED runs
           /\ reader' = [reader EXCEPT !.pc = "found"]
  BY <1>0, <1>3, SummariesHaveTypes DEF ReaderType, Collecting
<1> QED
  BY <1>1, <1>2, <1>3 DEF Collect

LEMMA KeysHaveTypes ==
    \A job \in Job : \A found \in BOOLEAN :
        <<job.status, found>> \in {Key(j) : j \in Job}
<1> SUFFICES ASSUME NEW job \in Job, NEW found \in BOOLEAN
             PROVE  <<job.status, found>> \in {Key(j) : j \in Job}
  OBVIOUS
<1>1. [job EXCEPT !.found = found] \in Job
  BY DEF Job
<1>2. Key([job EXCEPT !.found = found]) = <<job.status, found>>
  BY DEF Key, Job
<1> QED
  BY <1>1, <1>2

LEMMA OthersTypes ==
    ASSUME TypeOK, Racing, UNCHANGED <<script, source, sourceSum>>, TaskTypeOK',
           runs' \in Files, {runsSum', tmp'} \subseteq Summary,
           worker' \in WorkerType, reader' \in ReaderType, record' \in Job,
           filed' \in {Key(job) : job \in Job} \cup {<<>>},
           cancel' \in {"none", "signalled", "missed", "killed"},
           lister' \in {"none", "listing", "removed", "failed"}
    PROVE  TypeOK'
<1>1. raced' \in BOOLEAN
  BY RacedType
<1> QED
  BY <1>1 DEF TypeOK, WorkerType, ReaderType, Key, Job

LEMMA TypesNow ==
    ASSUME SweInv
    PROVE  /\ TaskTypeOK /\ runs \in Files /\ {runsSum, tmp} \subseteq Summary
           /\ worker \in WorkerType /\ reader \in ReaderType /\ record \in Job
           /\ filed \in {Key(job) : job \in Job} \cup {<<>>}
           /\ cancel \in {"none", "signalled", "missed", "killed"}
           /\ lister \in {"none", "listing", "removed", "failed"}
BY DEF SweInv, TypeOK, WorkerType, ReaderType

LEMMA WorkerKeeps == ASSUME SweInv, Racing, Worker PROVE SweInv'
<1> TypeOK /\ EndInOrder
  BY DEF SweInv
<1>1. CASE WorkerWakes
  <2>1. /\ script.pc = "dead"
        /\ UNCHANGED <<mode, box, verdict, code, pins, busy, unsure, script, source, sourceSum>>
        /\ UNCHANGED <<runs, runsSum, tmp, reader, record, filed, cancel, lister>>
    BY <1>1 DEF WorkerWakes, taskVars, fileVars
  <2>2. worker' \in WorkerType /\ worker'.pc = "collect"
    BY <1>1, TypesNow DEF WorkerWakes, WorkerType, Job, Collecting
  <2>3. TypeOK'
    BY <2>1, <2>2, TypesNow, OthersTypes DEF TaskTypeOK, Key, Job
  <2>4. EndInOrder'
    BY <2>1, <2>2 DEF EndInOrder
  <2> QED
    BY <2>1, <2>3, <2>4, OthersKeep
<1>2. CASE WorkerCollects
  <2>1. /\ UNCHANGED <<mode, box, verdict, code, pins, busy, unsure, script, source, sourceSum>>
        /\ UNCHANGED <<reader, record, filed, cancel, lister>>
    BY <1>2 DEF WorkerCollects, taskVars, ScriptUnchanged, RestUnchanged
  <2>2. /\ runs' \in Files /\ {runsSum', tmp'} \subseteq Summary /\ worker' \in WorkerType
        /\ worker.pc # "wait" /\ worker'.pc # "done"
    <3>1. CASE Collect(worker)
      BY <3>1, WorkerCollectTypes DEF Collecting
    <3>2. CASE Robbed(worker) /\ UNCHANGED <<runs, runsSum, tmp>>
               /\ worker' = IF worker.handling THEN [worker EXCEPT !.pc = "escaped"]
                            ELSE [worker EXCEPT !.pc = "collect", !.handling = TRUE,
                                                !.job.status = "failed"]
      BY <3>2, TypesNow DEF Robbed, WorkerType, Job, Collecting
    <3> QED
      BY <1>2, <3>1, <3>2 DEF WorkerCollects
  <2>3. TypeOK'
    BY <2>1, <2>2, TypesNow, OthersTypes DEF TaskTypeOK, Key, Job
  <2>4. EndInOrder'
    BY <2>1, <2>2 DEF EndInOrder
  <2> QED
    BY <2>1, <2>3, <2>4, OthersKeep
<1>3. CASE WorkerLooks
  <2>1. /\ worker.pc = "found"
        /\ UNCHANGED <<mode, box, verdict, code, pins, busy, unsure, script, source, sourceSum>>
        /\ UNCHANGED <<runs, runsSum, tmp, reader, record, filed, cancel, lister>>
    BY <1>3 DEF WorkerLooks, taskVars, fileVars
  <2>2. worker' \in WorkerType /\ worker'.pc = "collect"
    <3>1. Found \in BOOLEAN
      BY DEF Found
    <3> QED
      BY <1>3, <3>1, TypesNow DEF WorkerLooks, WorkerType, Job, Collecting
  <2>3. TypeOK'
    BY <2>1, <2>2, TypesNow, OthersTypes DEF TaskTypeOK, Key, Job
  <2>4. EndInOrder'
    BY <2>1, <2>2 DEF EndInOrder
  <2> QED
    BY <2>1, <2>3, <2>4, OthersKeep
<1>4. CASE WorkerFinishes
  <2>1. /\ worker.pc \in {"escaped", "found"}
        /\ UNCHANGED <<mode, box, verdict, code, busy, unsure, script, source, sourceSum>>
        /\ UNCHANGED <<runs, runsSum, tmp, reader, cancel, lister>>
        /\ record' = [worker.job EXCEPT !.found = IF worker.pc = "found" THEN Found ELSE @]
        /\ filed' = Key(record')
    BY <1>4 DEF WorkerFinishes, fileVars
  <2>2. PICK kept \in SUBSET pins :
             /\ pins' = kept
             /\ worker' = [worker EXCEPT !.pc = "done", !.kept = kept, !.job = record']
    BY <1>4 DEF WorkerFinishes
  <2>3. record' \in Job
    <3>1. Found \in BOOLEAN
      BY DEF Found
    <3> QED
      BY <2>1, <3>1, TypesNow DEF WorkerType, Job
  <2>4. pins' \subseteq {Candidate, Judge}
    BY <2>2, TypesNow DEF TaskTypeOK
  <2>5. worker' \in WorkerType /\ worker'.pc = "done" /\ worker'.kept = pins'
    BY <2>2, <2>3, <2>4, TypesNow DEF WorkerType
  <2>6. TypeOK'
    BY <2>1, <2>3, <2>4, <2>5, TypesNow, OthersTypes DEF TaskTypeOK
  <2>7. script.pc = "dead"
    BY <2>1 DEF EndInOrder
  <2>8. EndInOrder'
    BY <2>1, <2>5, <2>7 DEF EndInOrder
  <2> QED
    BY <2>1, <2>6, <2>7, <2>8, OthersKeep
<1> QED
  BY <1>1, <1>2, <1>3, <1>4 DEF Worker

LEMMA ReaderKeeps == ASSUME SweInv, Racing, Reader PROVE SweInv'
<1> TypeOK /\ EndInOrder
  BY DEF SweInv
<1>1. /\ UNCHANGED <<mode, box, verdict, code, pins, busy, unsure, script, source, sourceSum>>
      /\ UNCHANGED <<worker, cancel, lister>>
  BY DEF Reader, ReadRecord, ReaderCollects, ReaderFails, StoreRecord, taskVars, fileVars,
         ScriptUnchanged, RestUnchanged
<1>2. IdleReader \in ReaderType
  BY SummariesHaveTypes DEF IdleReader, ReaderType, NewJob, Job
<1>3. /\ runs' \in Files /\ {runsSum', tmp'} \subseteq Summary /\ reader' \in ReaderType
      /\ record' \in Job /\ filed' \in {Key(job) : job \in Job} \cup {<<>>}
  <2>1. CASE ReadRecord
    BY <2>1, TypesNow DEF ReadRecord, fileVars, ReaderType, Collecting, Key, Job
  <2>2. CASE ReaderCollects
    <3>1. UNCHANGED <<record, filed>>
      BY <2>2 DEF ReaderCollects, RestUnchanged
    <3>2. CASE Collect(reader)
      BY <3>1, <3>2, ReaderCollectTypes, TypesNow DEF Key, Job
    <3>3. CASE reader' = IdleReader /\ UNCHANGED <<runs, runsSum, tmp>>
      BY <1>2, <3>1, <3>3, TypesNow DEF Key, Job
    <3> QED
      BY <2>2, <3>2, <3>3 DEF ReaderCollects
  <2>3. CASE ReaderFails
    BY <1>2, <2>3, TypesNow DEF ReaderFails, fileVars, Key, Job
  <2>4. CASE StoreRecord
    <3>1. /\ record' = IF Found THEN [reader.job EXCEPT !.found = TRUE] ELSE record
          /\ filed' = <<reader.job.status, Found>> /\ reader' = IdleReader
          /\ UNCHANGED <<runs, runsSum, tmp>>
      BY <2>4 DEF StoreRecord, fileVars
    <3>2. reader.job \in Job
      BY TypesNow DEF ReaderType
    <3>3. Found \in BOOLEAN
      BY DEF Found
    <3>4. filed' \in {Key(job) : job \in Job}
      BY <3>1, <3>2, <3>3, KeysHaveTypes
    <3>5. record' \in Job
      BY <3>1, <3>2, TypesNow DEF Job
    <3> QED
      BY <1>2, <3>1, <3>4, <3>5, TypesNow
  <2> QED
    BY <2>1, <2>2, <2>3, <2>4 DEF Reader
<1>4. TypeOK'
  BY <1>1, <1>3, TypesNow, OthersTypes DEF TaskTypeOK
<1>5. EndInOrder'
  BY <1>1 DEF EndInOrder
<1> QED
  BY <1>1, <1>4, <1>5, OthersKeep

LEMMA CancelKeeps == ASSUME SweInv, Racing, CancelJob PROVE SweInv'
<1> TypeOK /\ EndInOrder
  BY DEF SweInv
<1>1. /\ UNCHANGED <<mode, box, verdict, code, pins, busy, unsure, script, source, sourceSum>>
      /\ UNCHANGED <<runs, runsSum, tmp, worker, reader, filed>>
      /\ record' = [record EXCEPT !.status = "cancelling"]
      /\ cancel = "none" /\ cancel' = IF script.pc = "dead" THEN "missed" ELSE "signalled"
      /\ lister' = "listing"
  BY DEF CancelJob, taskVars, fileVars
<1>2. record' \in Job
  BY <1>1, TypesNow DEF Job
<1>3. TypeOK'
  BY <1>1, <1>2, TypesNow, OthersTypes DEF TaskTypeOK, Key, Job
<1>4. EndInOrder'
  BY <1>1 DEF EndInOrder
<1> QED
  BY <1>1, <1>3, <1>4, OthersKeep

LEMMA KillKeeps == ASSUME SweInv, Racing, Kill PROVE SweInv'
<1>1. /\ UNCHANGED <<mode, box, verdict, code, pins, busy, unsure, source, sourceSum>>
      /\ UNCHANGED <<runs, runsSum, tmp, worker, reader, record, filed, lister>>
      /\ cancel = "signalled" /\ cancel' = "killed" /\ script.pc # "dead"
      /\ script' = [script EXCEPT !.pc = "dead", !.exit = 1]
  BY DEF Kill, taskVars, fileVars
<1>2. script' \in [pc : {"next", "box", "drain", "final", "dead"}, task : 0..NTasks,
                    attempt : 0..PassCount, exit : {0, 1}]
  BY <1>1 DEF SweInv, TypeOK
<1>3. script'.pc = "dead" /\ script'.task = script.task
  BY <1>1 DEF SweInv, TypeOK
<1>4. TypeOK'
  <2>1. raced' \in BOOLEAN
    BY RacedType DEF SweInv
  <2> QED
    BY <1>1, <1>2, <2>1 DEF SweInv, TypeOK, TaskTypeOK, Key, Job
<1>5. ScriptAndBox'
  BY <1>1, <1>3 DEF SweInv, ScriptAndBox
<1>6. AttemptsInOrder' /\ PassHasAttempt'
  BY <1>1, <1>3 DEF SweInv, AttemptsInOrder, PassHasAttempt
<1>7. PinIsBack'
  BY <1>3 DEF PinIsBack
<1>8. GivenUpMeansOver'
  BY <1>1, <1>3 DEF SweInv, GivenUpMeansOver
<1>9. EndInOrder'
  BY <1>1, <1>3 DEF SweInv, EndInOrder
<1> QED
  BY <1>4, <1>5, <1>6, <1>7, <1>8, <1>9 DEF SweInv

LEMMA ListContainersKeeps == ASSUME SweInv, Racing, ListContainers PROVE SweInv'
<1> TypeOK /\ EndInOrder
  BY DEF SweInv
<1>1. /\ UNCHANGED <<mode, pins, busy, unsure, script, source, sourceSum>>
      /\ UNCHANGED <<runs, runsSum, tmp, worker, reader, record, filed, cancel>>
      /\ lister = "listing"
  BY DEF ListContainers, taskVars, SetBox, fileVars
<1>2. CASE lister' = "failed" /\ UNCHANGED taskVars
  <2>1. TypeOK'
    BY <1>1, <1>2, TypesNow, OthersTypes DEF taskVars, TaskTypeOK, Key, Job
  <2>2. EndInOrder'
    BY <1>1, <1>2 DEF EndInOrder, taskVars
  <2> QED
    BY <1>1, <1>2, <2>1, <2>2, OthersKeep DEF taskVars
<1>3. CASE lister' = "removed" /\ box' = "none" /\ verdict' = "zero" /\ code' = "result"
  <2>1. TypeOK'
    BY <1>1, <1>3, TypesNow, OthersTypes DEF TaskTypeOK, Box, Verdict, Codes, Key, Job
  <2>2. ScriptAndBox'
    BY <1>1, <1>3 DEF SweInv, ScriptAndBox
  <2>3. AttemptsInOrder' /\ PassHasAttempt'
    BY <1>1, <1>3 DEF SweInv, AttemptsInOrder, PassHasAttempt
  <2>4. PinIsBack'
    <3>1. script.pc \in {"box", "dead"} \/ box = "none"
      BY DEF SweInv, TypeOK, ScriptAndBox
    <3> QED
      BY <1>1, <1>3, <3>1 DEF SweInv, PinIsBack
  <2>5. GivenUpMeansOver'
    BY <1>1, <1>3 DEF SweInv, GivenUpMeansOver, ScriptAndBox, TypeOK
  <2>6. EndInOrder'
    BY <1>1, <1>3 DEF EndInOrder
  <2> QED
    BY <2>1, <2>2, <2>3, <2>4, <2>5, <2>6 DEF SweInv
<1> QED
  BY <1>2, <1>3 DEF ListContainers, SetBox, Put

LEMMA RestartKeeps == ASSUME SweInv, Racing, Restart PROVE SweInv'
<1>1. /\ script' = [script EXCEPT !.pc = "dead", !.attempt = 0]
      /\ box' = "none" /\ verdict' = "zero" /\ code' = "result" /\ pins' \subseteq pins
      /\ tmp' = NoSummary /\ reader' = IdleReader /\ cancel' = "none" /\ lister' = "none"
      /\ UNCHANGED <<mode, busy, unsure, source, sourceSum, filed>>
  BY DEF Restart, Put
<1>2. record' = [status |-> "interrupted", copied |-> record.copied \/ Copied(record),
                 found |-> runsSum' # NoSummary \/ runs' # NoFiles]
  BY DEF Restart
<1>3. worker' = [pc |-> "done", job |-> record', mem |-> NoSummary, handling |-> FALSE,
                 kept |-> pins']
  BY DEF Restart
<1>4. /\ source \in Files /\ runs \in Files /\ sourceSum \in Summary /\ runsSum \in Summary
      /\ pins \subseteq {Candidate, Judge}
      /\ script \in [pc : {"next", "box", "drain", "final", "dead"}, task : 0..NTasks,
                      attempt : 0..PassCount, exit : {0, 1}]
  BY DEF SweInv, TypeOK, TaskTypeOK
<1>5. runs' \in Files /\ runsSum' \in Summary
  <2> DEFINE files == IF Copied(record)
                      THEN [f \in File |-> IF source[f] # NoFile THEN source[f] ELSE runs[f]]
                      ELSE runs
             old == IF Copied(record) /\ sourceSum # NoSummary THEN sourceSum ELSE runsSum
  <2>1. /\ runs' = files
        /\ runsSum' = IF Results(files) = {} THEN old ELSE Summarise(files)
    BY DEF Restart
  <2>2. files \in Files
    <3>1. [f \in File |-> IF source[f] # NoFile THEN source[f] ELSE runs[f]] \in Files
      BY <1>4 DEF Files
    <3> QED
      BY <1>4, <3>1
  <2>3. old \in Summary
    BY <1>4
  <2> HIDE DEF files, old
  <2> QED
    BY <2>1, <2>2, <2>3, SummariesHaveTypes
<1>6. script' \in [pc : {"next", "box", "drain", "final", "dead"}, task : 0..NTasks,
                    attempt : 0..PassCount, exit : {0, 1}]
  <2>1. 0 \in 0..PassCount
    BY Numbers
  <2> QED
    BY <1>1, <1>4, <2>1
<1>7. script'.pc = "dead" /\ script'.task = script.task
  BY <1>1, <1>4
<1>8. TypeOK'
  <2>1. raced' \in BOOLEAN
    BY RacedType DEF SweInv
  <2>2. TaskTypeOK'
    BY <1>1, <1>4 DEF SweInv, TypeOK, TaskTypeOK, Box, Verdict, Codes
  <2>3. record' \in Job
    <3>1. (record.copied \/ Copied(record)) \in BOOLEAN
      OBVIOUS
    <3>2. (runsSum' # NoSummary \/ runs' # NoFiles) \in BOOLEAN
      OBVIOUS
    <3> QED
      BY <1>2, <3>1, <3>2 DEF Job
  <2>4. worker' \in WorkerType
    BY <1>1, <1>3, <1>4, <2>3, SummariesHaveTypes DEF WorkerType
  <2>5. reader' \in ReaderType
    BY <1>1, SummariesHaveTypes DEF IdleReader, ReaderType, NewJob, Job
  <2>6. filed' \in {Key(job) : job \in Job} \cup {<<>>}
    BY <1>1, TypesNow DEF Key, Job
  <2>7. {sourceSum, runsSum, tmp}' \subseteq Summary
    BY <1>1, <1>4, <1>5, SummariesHaveTypes
  <2> QED
    BY <1>1, <1>4, <1>5, <1>6, <2>1, <2>2, <2>3, <2>4, <2>5, <2>6, <2>7
       DEF TypeOK, WorkerType, ReaderType, Key, Job
<1>9. ScriptAndBox' /\ AttemptsInOrder'
  BY <1>1, <1>7 DEF ScriptAndBox, AttemptsInOrder
<1>10. PassHasAttempt'
  BY <1>1, <1>7 DEF SweInv, PassHasAttempt
<1>11. PinIsBack' /\ GivenUpMeansOver'
  BY <1>1, <1>7 DEF PinIsBack, GivenUpMeansOver
<1>12. EndInOrder'
  BY <1>1, <1>3, <1>7 DEF EndInOrder
<1> QED
  BY <1>8, <1>9, <1>10, <1>11, <1>12 DEF SweInv

-----------------------------------------------------------------------------
(***************************************************************************)
(* The theorems.                                                           *)
(***************************************************************************)

LEMMA InitHolds == Init => SweInv
<1> SUFFICES ASSUME Init PROVE SweInv
  OBVIOUS
<1>1. /\ script = [pc |-> "next", task |-> 0, attempt |-> 0, exit |-> 0]
      /\ source = NoFiles /\ runs = NoFiles
      /\ sourceSum = NoSummary /\ runsSum = NoSummary /\ tmp = NoSummary
      /\ box = "none" /\ code = "result" /\ verdict = "zero" /\ busy = {} /\ unsure = FALSE
      /\ mode \in Modes /\ pins = (IF mode = "plain" THEN {} ELSE {Candidate})
      /\ cancel = "none" /\ lister = "none" /\ raced = FALSE
      /\ record = NewJob /\ filed = <<>> /\ reader = IdleReader
      /\ worker = [pc |-> "wait", job |-> NewJob, mem |-> NoSummary, handling |-> FALSE,
                    kept |-> {}]
  BY DEF Init, TaskInit
<1>2. NoFiles \in Files /\ \A f \in File : NoFiles[f] = NoFile
  BY DEF NoFiles, Files
<1>3. TypeOK
  <2>1. TaskTypeOK
    BY <1>1, ModelsAssumption DEF TaskTypeOK, Box, Verdict, Codes
  <2>2. script \in [pc : {"next", "box", "drain", "final", "dead"}, task : 0..NTasks,
                    attempt : 0..PassCount, exit : {0, 1}]
    <3>1. 0 \in 0..NTasks /\ 0 \in 0..PassCount
      BY Numbers
    <3> QED
      BY <1>1, <3>1
  <2>3. worker \in WorkerType /\ reader \in ReaderType /\ record \in Job
    <3>1. NewJob \in Job
      BY DEF NewJob, Job
    <3>2. worker \in WorkerType
      BY <1>1, <3>1, SummariesHaveTypes DEF WorkerType
    <3>3. reader \in ReaderType
      BY <1>1, <3>1, SummariesHaveTypes DEF ReaderType, IdleReader
    <3> QED
      BY <1>1, <3>1, <3>2, <3>3
  <2> QED
    BY <1>1, <1>2, <2>1, <2>2, <2>3, SummariesHaveTypes DEF TypeOK, WorkerType, ReaderType
<1>4. ScriptAndBox
  BY <1>1 DEF ScriptAndBox
<1>5. AttemptsInOrder
  BY <1>1, <1>2, Paths DEF AttemptsInOrder
<1>6. PassHasAttempt
  BY <1>1, <1>2, Paths DEF PassHasAttempt, NoFile
<1>7. PinIsBack /\ GivenUpMeansOver /\ EndInOrder
  BY <1>1 DEF PinIsBack, GivenUpMeansOver, EndInOrder
<1> QED
  BY <1>3, <1>4, <1>5, <1>6, <1>7 DEF SweInv

LEMMA StutterHolds == SweInv /\ UNCHANGED vars => SweInv'
<1> SUFFICES ASSUME SweInv, UNCHANGED vars PROVE SweInv'
  OBVIOUS
<1>1. /\ UNCHANGED <<mode, box, verdict, code, pins, busy, unsure, script, source, sourceSum>>
      /\ UNCHANGED <<runs, runsSum, tmp, worker, reader, record, filed, cancel, lister, raced>>
  BY DEF vars, taskVars, fileVars, jobVars
<1>2. TypeOK'
  BY <1>1 DEF SweInv, TypeOK, TaskTypeOK, Key, Job
<1>3. EndInOrder'
  BY <1>1 DEF SweInv, EndInOrder
<1> QED
  BY <1>1, <1>2, <1>3, OthersKeep

LEMMA NextHolds == SweInv /\ [Next]_vars => SweInv'
<1> SUFFICES ASSUME SweInv, [Next]_vars PROVE SweInv'
  OBVIOUS
<1>1. CASE Script /\ Racing
  BY <1>1, NextTaskKeeps, EndsKeep, BoxExitsKeeps, CandidateIdleKeeps, WriteFinalKeeps DEF Script
<1>2. CASE Container /\ Racing
  BY <1>2, ContainerStepKeeps, WriteResultKeeps DEF Container
<1>3. CASE (HostStep \/ Trap) /\ Racing
  BY <1>3, HostStepKeeps, EndsKeep
<1>4. CASE (Worker \/ Reader) /\ Racing
  BY <1>4, WorkerKeeps, ReaderKeeps
<1>5. CASE (CancelJob \/ Cancellation \/ Restart) /\ Racing
  BY <1>5, CancelKeeps, KillKeeps, ListContainersKeeps, RestartKeeps DEF Cancellation
<1>6. CASE UNCHANGED vars
  BY <1>6, StutterHolds
<1> QED
  BY <1>1, <1>2, <1>3, <1>4, <1>5, <1>6 DEF Next, Done

\* What the script, the container and the host know of each other fits together
\* in every reachable state.
THEOREM SweInvariant == Spec => []SweInv
<1>1. Init => SweInv
  BY InitHolds
<1>2. SweInv /\ [Next]_vars => SweInv'
  BY NextHolds
<1> QED
  BY <1>1, <1>2, PTL DEF Spec

\* The types of the job.
THEOREM RunnerTypeCorrect == Spec => []TypeOK
<1>1. SweInv => TypeOK
  BY DEF SweInv
<1> QED
  BY <1>1, SweInvariant, PTL

\* An agent never works with a candidate that the host may evict, unless a
\* handoff was seen to fail.
THEOREM AgentsAreProtected == Spec => []AgentIsProtected
<1>1. SweInv => AgentIsProtected
  BY DEF SweInv, PinIsBack, AgentIsProtected
<1> QED
  BY <1>1, SweInvariant, PTL

\* No agent starts beside the abandoned request of another.
THEOREM NoAgentOverlaps == Spec => []NoStaleOverlap
<1>1. SweInv => NoStaleOverlap
  BY DEF SweInv, GivenUpMeansOver, NoStaleOverlap
<1> QED
  BY <1>1, SweInvariant, PTL

\* A task passes only by an attempt that passed, and the first such attempt is
\* the last.
THEOREM PassesAreEarned == Spec => []PassIsEarned
<1>1. SweInv => PassIsEarned
  BY DEF SweInv, PassHasAttempt, AttemptsInOrder, PassIsEarned
<1> QED
  BY <1>1, SweInvariant, PTL

\* When the worker is done, nothing that the job has started is left.
THEOREM NothingIsLeft == Spec => []NothingOutlivesTheJob
<1>1. SweInv => NothingOutlivesTheJob
  BY DEF SweInv, EndInOrder, NothingOutlivesTheJob
<1> QED
  BY <1>1, SweInvariant, PTL

-----------------------------------------------------------------------------
(***************************************************************************)
(* The summary.                                                            *)
(*                                                                         *)
(* Two threads copy the script's files to the run directory, each once,    *)
(* and make the summary there anew; the script, which may still be at work *)
(* when a request copies, moves results away that the copy keeps.  In the  *)
(* end the run directory has every result of the script, and the summary   *)
(* is of the run directory.                                                *)
(***************************************************************************)

\* What the property is about: see SummaryIsWhole.
Calm == ~raced /\ worker.job.status # "interrupted" /\ cancel # "killed"

\* The script summarises its results when it ends.
SourceIsSummed ==
    sourceSum = IF script.pc = "dead" THEN Summarise(source) ELSE NoSummary

OneCollects == worker.pc \notin Collecting \/ reader.pc \notin Collecting

\* A summary on its way to the file is that of the run directory.
Holds(a) ==
    /\ a.pc = "write" => a.mem = Summarise(runs) /\ a.mem # NoSummary
    /\ a.pc = "replace" => tmp = Summarise(runs) /\ tmp # NoSummary

SummaryHasResults == Results(runs) = {} => runsSum = NoSummary

\* The run directory has the files of the script.
InRuns == \A f \in File : source[f] # NoFile => runs[f] = source[f]
WorkerHasCopied ==
    /\ worker.pc \in {"write", "replace", "found", "done"} \/ worker.job.copied => InRuns
    /\ worker.job.copied => worker.pc # "wait"
    /\ worker.pc # "escaped"

\* A request that is yet to copy the files finds what the worker left, or
\* nothing.
ReaderCopiesOnce ==
    reader.pc = "collect" \/ (reader.pc = "idle" /\ ~record.found) =>
        runs = NoFiles \/ (worker.pc # "wait" /\ runs = source)

IsSummed == worker.pc \in {"found", "done"} => runsSum = Summarise(runs)

CalmInv ==
    /\ SourceIsSummed /\ OneCollects /\ Holds(worker) /\ Holds(reader)
    /\ SummaryHasResults /\ WorkerHasCopied /\ ReaderCopiesOnce /\ IsSummed

SummaryInv ==
    /\ worker.job.status = "interrupted" => worker.pc = "done"
    /\ Calm => CalmInv

\* Only results make a summary.
LEMMA NoResults ==
    ASSUME NEW files
    PROVE  Summarise(files) = NoSummary <=> Results(files) = {}
<1>1. ASSUME Results(files) = {} PROVE Summarise(files) = NoSummary
  <2>1. {f \in Results(files) : files[f] = "pass"} = {}
    BY <1>1
  <2> QED
    BY <1>1, <2>1, FS_EmptySet DEF Summarise, NoSummary
<1>2. ASSUME Summarise(files) = NoSummary PROVE Results(files) = {}
  <2>1. Summarise(files).results = Results(files)
    BY DEF Summarise
  <2> QED
    BY <1>2, <2>1 DEF NoSummary
<1> QED
  BY <1>1, <1>2

\* What the script does while it is alive, and how it ends.
ScriptWrites ==
    /\ script.pc # "dead" /\ ScriptOnly
    /\ \/ script'.pc # "dead" /\ UNCHANGED sourceSum
       \/ script'.pc = "dead" /\ sourceSum' = Summarise(source')

LEMMA ScriptWritesOnly ==
    ASSUME SweInv, Calm, SourceIsSummed,
           Script \/ WriteResult \/ Trap
    PROVE  ScriptWrites
<1> script = [pc |-> script.pc, task |-> script.task, attempt |-> script.attempt,
              exit |-> script.exit]
  BY DEF SweInv, TypeOK
<1>1. ASSUME NEW status, script.pc # "dead", ScriptOnly, EndScript(status)
      PROVE  ScriptWrites
  <2>1. sourceSum = NoSummary
    BY <1>1 DEF SourceIsSummed
  <2>2. sourceSum' = Summarise(source')
    BY <1>1, <2>1, NoResults DEF EndScript
  <2> QED
    BY <1>1, <2>2 DEF EndScript, ScriptWrites
<1>2. ASSUME NEW v, script.pc # "dead", ScriptOnly, KeepAttempt(v)
      PROVE  ScriptWrites
  BY <1>2 DEF KeepAttempt, ScriptWrites
<1>3. CASE NextTask
  BY <1>3 DEF NextTask, StartBox, ScriptWrites
<1>4. CASE Complete \/ DrainTimeout \/ Trap
  BY <1>1, <1>4 DEF Complete, DrainTimeout, Trap
<1>5. CASE BoxExits
  <2>1. script.pc = "box" /\ ScriptOnly
    BY <1>5 DEF BoxExits
  <2>2. CASE code \in {"result", "handoff"}
    BY <1>2, <1>5, <2>1, <2>2 DEF BoxExits
  <2>3. CASE code = "timeout"
    BY <1>5, <2>1, <2>3 DEF BoxExits, ScriptWrites
  <2>4. CASE code = "fatal"
    BY <1>1, <1>5, <2>1, <2>4 DEF BoxExits
  <2> QED
    BY <2>2, <2>3, <2>4 DEF SweInv, TypeOK, TaskTypeOK, Codes
<1>6. CASE CandidateIdle
  BY <1>2, <1>6 DEF CandidateIdle
<1>7. CASE WriteFinal
  BY <1>7 DEF WriteFinal, ScriptWrites
<1>8. CASE WriteResult
  <2>1. script.pc # "dead"
    BY <1>8 DEF WriteResult, SweInv, EndInOrder, Calm
  <2> QED
    BY <1>8, <2>1 DEF WriteResult, ScriptWrites
<1> QED
  BY <1>3, <1>4, <1>5, <1>6, <1>7, <1>8 DEF Script

\* While the script is alive the worker waits, and only a request has copied.
LEMMA ScriptKeepsSummary ==
    ASSUME SweInv, Calm, CalmInv, ScriptWrites PROVE CalmInv'
<1>1. /\ worker.pc = "wait"
      /\ UNCHANGED <<worker, reader, record, runs, runsSum, tmp>>
  BY DEF SweInv, EndInOrder, ScriptWrites, ScriptOnly, jobVars
<1>2. SourceIsSummed'
  BY DEF ScriptWrites, CalmInv, SourceIsSummed
<1>3. ~worker.job.copied /\ WorkerHasCopied'
  BY <1>1 DEF CalmInv, WorkerHasCopied
<1>4. ReaderCopiesOnce'
  BY <1>1 DEF CalmInv, ReaderCopiesOnce
<1> QED
  BY <1>1, <1>2, <1>3, <1>4
  DEF CalmInv, OneCollects, Holds, SummaryHasResults, IsSummed

\* The summary does not depend on the rest.
LEMMA RestKeepsSummary ==
    ASSUME CalmInv, UNCHANGED <<source, sourceSum, runs, runsSum, tmp, worker, reader>>,
           script'.pc = script.pc, record'.found = record.found
    PROVE  CalmInv'
BY DEF CalmInv, SourceIsSummed, OneCollects, Holds, SummaryHasResults, WorkerHasCopied,
       ReaderCopiesOnce, IsSummed, InRuns

-----------------------------------------------------------------------------
(***************************************************************************)
(* Collecting.                                                             *)
(***************************************************************************)

\* What copying the files of the script adds to the run directory.
LEMMA CopyTreeAdds ==
    ASSUME SweInv, SourceIsSummed, SummaryHasResults, NEW job, CopyTree(job)
    PROVE  /\ ~job.copied \/ InRuns
                => \A f \in File : source[f] # NoFile => runs'[f] = source[f]
           /\ runs = source \/ (runs = NoFiles /\ ~job.copied) => runs' = source
           /\ Results(runs') = {} => runsSum' = NoSummary
           /\ script.pc = "dead" /\ runs = source /\ runsSum = Summarise(runs)
                => runsSum' = Summarise(runs')
<1>0. source \in Files /\ runs \in Files
  BY DEF SweInv, TypeOK
<1>1. CASE Copied(job)
  <2>1. /\ runs' = [f \in File |-> IF source[f] # NoFile THEN source[f] ELSE runs[f]]
        /\ runsSum' = IF sourceSum # NoSummary THEN sourceSum ELSE runsSum
    BY <1>1 DEF CopyTree
  <2>2. \A f \in File : source[f] # NoFile => runs'[f] = source[f]
    BY <2>1
  <2>3. runs = source \/ runs = NoFiles => runs' = source
    BY <1>0, <2>1 DEF Files, NoFiles
  <2>4. Results(source) \subseteq Results(runs') /\ Results(runs) \subseteq Results(runs')
    BY <2>1 DEF Results
  <2>5. Results(runs') = {} => runsSum' = NoSummary
    BY <2>1, <2>4, NoResults DEF SourceIsSummed, SummaryHasResults
  <2>6. ASSUME script.pc = "dead", runs = source, runsSum = Summarise(runs)
        PROVE  runsSum' = Summarise(runs')
    <3>1. runs' = runs
      BY <2>3, <2>6
    <3>2. runsSum' = runsSum
      BY <2>1, <2>6 DEF SourceIsSummed
    <3> QED
      BY <2>6, <3>1, <3>2
  <2> QED
    BY <2>2, <2>3, <2>5, <2>6
<1>2. CASE ~Copied(job)
  <2>1. UNCHANGED <<runs, runsSum>>
    BY <1>2 DEF CopyTree
  <2>2. ~job.copied => source = NoFiles
    BY <1>2 DEF Copied
  <2> QED
    BY <2>1, <2>2 DEF InRuns, SummaryHasResults, NoFiles
<1> QED
  BY <1>1, <1>2

\* The first step of collecting, for the worker or a request.
Copies(a) ==
    /\ a.pc = "collect" /\ CopyTree(a.job) /\ UNCHANGED tmp
    /\ a' = [a EXCEPT !.job.copied = @ \/ Copied(a.job), !.mem = Summarise(runs'),
                      !.pc = IF Summarise(runs') = NoSummary THEN "found" ELSE "write"]
Writes(a) ==
    /\ a.pc = "write" /\ tmp' = a.mem /\ UNCHANGED <<runs, runsSum>>
    /\ a' = [a EXCEPT !.pc = "replace", !.mem = NoSummary]
Replaces(a) ==
    /\ a.pc = "replace" /\ tmp # NoSummary
    /\ runsSum' = tmp /\ tmp' = NoSummary /\ UNCHANGED runs
    /\ a' = [a EXCEPT !.pc = "found"]

LEMMA CollectIsOne ==
    /\ Collect(worker) => Copies(worker) \/ Writes(worker) \/ Replaces(worker)
    /\ Collect(reader) => Copies(reader) \/ Writes(reader) \/ Replaces(reader)
BY DEF Collect, Copies, Writes, Replaces

LEMMA WorkerCollectsSummary ==
    ASSUME SweInv, CalmInv, Collect(worker),
           UNCHANGED <<script, source, sourceSum, reader, record>>
    PROVE  CalmInv'
<1>1. worker \in WorkerType /\ worker.pc \in Collecting /\ script.pc = "dead"
  BY TypesNow, WorkerCollectTypes DEF SweInv, EndInOrder, Collecting
<1>2. reader.pc \notin Collecting /\ Holds(reader)' /\ OneCollects' /\ SourceIsSummed'
  BY <1>1 DEF CalmInv, OneCollects, Holds, Collecting, SourceIsSummed
<1>3. CASE Copies(worker)
  <2> DEFINE mem == Summarise(runs')
             copied == worker.job.copied \/ Copied(worker.job)
  <2>1. /\ worker'.pc = IF mem = NoSummary THEN "found" ELSE "write"
        /\ worker'.mem = mem
        /\ worker'.job.copied = copied
    <3>1. worker' = [worker EXCEPT !.job.copied = copied, !.mem = mem,
                                   !.pc = IF mem = NoSummary THEN "found" ELSE "write"]
      BY <1>3 DEF Copies
    <3> HIDE DEF mem, copied
    <3> QED
      BY <1>1, <3>1 DEF WorkerType, Job
  <2>2. ~worker.job.copied \/ InRuns
    BY DEF CalmInv, WorkerHasCopied
  <2>3. InRuns'
    BY <1>3, <2>2, CopyTreeAdds DEF CalmInv, Copies, InRuns
  <2>4. SummaryHasResults'
    BY <1>3, CopyTreeAdds DEF CalmInv, Copies, SummaryHasResults
  <2>5. WorkerHasCopied'
    BY <2>1, <2>3 DEF WorkerHasCopied
  <2>6. ReaderCopiesOnce'
    <3> SUFFICES ASSUME reader.pc = "idle" /\ ~record.found PROVE runs' = source
      BY <1>2, <2>1 DEF ReaderCopiesOnce, Collecting
    <3>1. runs = NoFiles \/ runs = source
      BY DEF CalmInv, ReaderCopiesOnce
    <3>2. runs = NoFiles /\ worker.job.copied => runs = source
      BY <2>2 DEF InRuns, NoFiles, SweInv, TypeOK, Files
    <3> QED
      BY <1>3, <3>1, <3>2, CopyTreeAdds DEF CalmInv, Copies
  <2>7. IsSummed'
    BY <2>1, <2>4, NoResults DEF IsSummed, SummaryHasResults
  <2>8. Holds(worker)'
    BY <2>1 DEF Holds
  <2> QED
    BY <1>2, <2>4, <2>5, <2>6, <2>7, <2>8 DEF CalmInv
<1>4. CASE Writes(worker) \/ Replaces(worker)
  <2>1. /\ worker'.job = worker.job /\ worker.pc \in {"write", "replace"}
        /\ worker'.pc \in {"replace", "found"} /\ runs' = runs
    BY <1>1, <1>4 DEF Writes, Replaces, WorkerType
  <2>2. /\ worker'.pc = "replace" => tmp' = Summarise(runs) /\ tmp' # NoSummary /\ runsSum' = runsSum
        /\ worker'.pc = "found" => runsSum' = Summarise(runs)
    BY <1>1, <1>4 DEF Writes, Replaces, WorkerType, CalmInv, Holds
  <2>3. SummaryHasResults'
    BY <2>1, <2>2, NoResults DEF CalmInv, SummaryHasResults
  <2>4. WorkerHasCopied'
    BY <2>1 DEF CalmInv, WorkerHasCopied, InRuns
  <2>5. ReaderCopiesOnce'
    BY <2>1 DEF CalmInv, ReaderCopiesOnce
  <2>6. Holds(worker)' /\ IsSummed'
    BY <2>1, <2>2 DEF Holds, IsSummed
  <2> QED
    BY <1>2, <2>3, <2>4, <2>5, <2>6 DEF CalmInv
<1> QED
  BY <1>3, <1>4, CollectIsOne

LEMMA ReaderCollectsSummary ==
    ASSUME SweInv, CalmInv, Collect(reader),
           UNCHANGED <<script, source, sourceSum, worker, record>>
    PROVE  CalmInv'
<1>1. reader \in ReaderType
  BY TypesNow
<1>2. /\ reader.pc \in Collecting /\ worker.pc \notin Collecting
      /\ SourceIsSummed' /\ Holds(worker)' /\ OneCollects'
  BY CollectIsOne
  DEF Copies, Writes, Replaces, CalmInv, SourceIsSummed, OneCollects, Holds, Collecting
<1>3. worker.pc \in {"wait", "found", "done"} /\ (worker.pc # "wait" => script.pc = "dead" /\ InRuns)
  BY <1>2, TypesNow DEF WorkerType, CalmInv, WorkerHasCopied, SweInv, EndInOrder
<1>4. CASE Copies(reader)
  <2> DEFINE mem == Summarise(runs')
             copied == reader.job.copied \/ Copied(reader.job)
  <2>1. /\ reader'.pc = IF mem = NoSummary THEN "found" ELSE "write"
        /\ reader'.mem = mem
    <3>1. reader' = [reader EXCEPT !.job.copied = copied, !.mem = mem,
                                   !.pc = IF mem = NoSummary THEN "found" ELSE "write"]
      BY <1>4 DEF Copies
    <3> HIDE DEF mem, copied
    <3> QED
      BY <1>1, <3>1 DEF ReaderType
  <2>2. SummaryHasResults'
    BY <1>4, CopyTreeAdds DEF CalmInv, Copies, SummaryHasResults
  <2>3. CASE worker.pc = "wait"
    BY <1>2, <2>1, <2>2, <2>3 DEF CalmInv, WorkerHasCopied, ReaderCopiesOnce, IsSummed, Holds
  <2>4. CASE worker.pc # "wait"
    <3>1. runs = source
      <4>1. runs = NoFiles => source = NoFiles
        BY <1>3, <2>4 DEF InRuns, NoFiles, SweInv, TypeOK, Files
      <4> QED
        BY <1>4, <4>1 DEF CalmInv, ReaderCopiesOnce, Copies
    <3>2. runs' = source /\ InRuns'
      BY <1>4, <3>1, CopyTreeAdds DEF CalmInv, Copies, InRuns
    <3>3. runsSum' = Summarise(runs')
      BY <1>3, <1>4, <2>4, <3>1, CopyTreeAdds DEF CalmInv, Copies, IsSummed
    <3> QED
      BY <1>2, <2>1, <2>2, <3>2, <3>3
      DEF CalmInv, WorkerHasCopied, ReaderCopiesOnce, IsSummed, Holds
  <2> QED
    BY <2>3, <2>4
<1>5. CASE Writes(reader) \/ Replaces(reader)
  <2>1. /\ reader.pc \in {"write", "replace"}
        /\ reader'.pc \in {"replace", "found"} /\ runs' = runs
    BY <1>1, <1>5 DEF Writes, Replaces, ReaderType
  <2>2. /\ reader'.pc = "replace" => tmp' = Summarise(runs) /\ tmp' # NoSummary /\ runsSum' = runsSum
        /\ reader'.pc = "found" => runsSum' = Summarise(runs)
    BY <1>1, <1>5 DEF Writes, Replaces, ReaderType, CalmInv, Holds
  <2>3. SummaryHasResults'
    BY <2>1, <2>2, NoResults DEF CalmInv, SummaryHasResults
  <2>4. WorkerHasCopied' /\ ReaderCopiesOnce'
    BY <2>1 DEF CalmInv, WorkerHasCopied, ReaderCopiesOnce, InRuns
  <2>5. Holds(reader)' /\ IsSummed'
    BY <2>1, <2>2 DEF CalmInv, Holds, IsSummed
  <2> QED
    BY <1>2, <2>3, <2>4, <2>5 DEF CalmInv
<1> QED
  BY <1>4, <1>5, CollectIsOne

\* No thread takes the temporary file of another.
LEMMA NotRobbed == ASSUME CalmInv PROVE ~Robbed(worker) /\ ~Robbed(reader)
BY DEF CalmInv, Holds, Robbed

\* Once calm is over it does not come back.
LEMMA CalmBefore ==
    ASSUME SweInv, SummaryInv, Racing, Calm',
           Worker \/ (UNCHANGED worker /\ (cancel = "killed" => cancel' = "killed"))
    PROVE  Calm
<1>1. ~raced
  BY DEF Racing, Calm
<1>2. CASE Worker
  <2>1. worker.pc # "done" /\ UNCHANGED cancel
    BY <1>2 DEF Worker, WorkerWakes, WorkerCollects, WorkerLooks, WorkerFinishes,
                Collect, Robbed, RestUnchanged
  <2> QED
    BY <1>1, <2>1 DEF SummaryInv, Calm
<1>3. CASE UNCHANGED worker /\ (cancel = "killed" => cancel' = "killed")
  BY <1>1, <1>3 DEF Calm
<1> QED
  BY <1>2, <1>3

LEMMA WorkerKeepsSummary ==
    ASSUME SweInv, SummaryInv, Racing, Worker PROVE SummaryInv'
<1>0. worker \in WorkerType /\ worker.job \in Job /\ reader \in ReaderType
  BY TypesNow DEF WorkerType
<1>1. CASE WorkerWakes
  <2>1. /\ worker.pc = "wait" /\ script.pc = "dead" /\ worker'.pc = "collect"
        /\ worker'.job.status # "interrupted" /\ worker'.job.copied = worker.job.copied
        /\ UNCHANGED <<source, sourceSum, runs, runsSum, tmp, script, reader, record, cancel>>
    BY <1>0, <1>1 DEF WorkerWakes, fileVars, WorkerType, Job
  <2>2. ASSUME Calm' PROVE CalmInv'
    <3>1. CalmInv
      BY <1>1, <2>2, CalmBefore DEF SummaryInv, Worker
    <3>2. OneCollects'
      BY <2>2 DEF Racing, Calm, OneCollects
    <3> QED
      BY <2>1, <3>1, <3>2
      DEF CalmInv, SourceIsSummed, Holds, SummaryHasResults, WorkerHasCopied,
          ReaderCopiesOnce, IsSummed
  <2> QED
    BY <2>1, <2>2 DEF SummaryInv
<1>2. CASE WorkerCollects
  <2>1. /\ UNCHANGED <<script, source, sourceSum, reader, record, cancel>>
        /\ worker.pc # "done"
    BY <1>2 DEF WorkerCollects, ScriptUnchanged, RestUnchanged, Collect, Robbed
  <2>2. worker'.job.status # "interrupted"
    <3>1. worker.job.status # "interrupted"
      BY <2>1 DEF SummaryInv
    <3>2. CASE Copies(worker)
      <4> DEFINE mem == Summarise(runs')
                 copied == worker.job.copied \/ Copied(worker.job)
      <4>1. worker' = [worker EXCEPT !.job.copied = copied, !.mem = mem,
                                     !.pc = IF mem = NoSummary THEN "found" ELSE "write"]
        BY <3>2 DEF Copies
      <4> HIDE DEF mem, copied
      <4> QED
        BY <1>0, <3>1, <4>1 DEF WorkerType, Job
    <3>3. CASE Writes(worker) \/ Replaces(worker)
      BY <1>0, <3>1, <3>3 DEF Writes, Replaces, WorkerType
    <3>4. CASE worker' = IF worker.handling THEN [worker EXCEPT !.pc = "escaped"]
                         ELSE [worker EXCEPT !.pc = "collect", !.handling = TRUE,
                                             !.job.status = "failed"]
      BY <1>0, <3>1, <3>4 DEF WorkerType, Job
    <3> QED
      BY <1>2, <3>2, <3>3, <3>4, CollectIsOne DEF WorkerCollects
  <2>3. ASSUME Calm' PROVE CalmInv'
    <3>1. CalmInv
      BY <1>2, <2>3, CalmBefore DEF SummaryInv, Worker
    <3>2. Collect(worker)
      BY <1>2, <3>1, NotRobbed DEF WorkerCollects
    <3> QED
      BY <2>1, <3>1, <3>2, WorkerCollectsSummary
  <2> QED
    BY <2>2, <2>3 DEF SummaryInv
<1>3. CASE WorkerLooks
  <2>1. Found \in BOOLEAN
    BY DEF Found
  <2>2. /\ worker.pc = "found" /\ worker'.pc = "collect"
        /\ worker'.job.status # "interrupted" /\ worker'.job.copied = worker.job.copied
        /\ UNCHANGED <<source, sourceSum, runs, runsSum, tmp, script, reader, record, cancel>>
    BY <1>0, <1>3, <2>1 DEF WorkerLooks, fileVars, WorkerType, Job
  <2>3. ASSUME Calm' PROVE CalmInv'
    <3>1. CalmInv
      BY <1>3, <2>3, CalmBefore DEF SummaryInv, Worker
    <3>2. OneCollects'
      BY <2>3 DEF Racing, Calm, OneCollects
    <3>3. WorkerHasCopied'
      BY <2>2, <3>1 DEF CalmInv, WorkerHasCopied, InRuns
    <3> QED
      BY <2>2, <3>1, <3>2, <3>3
      DEF CalmInv, SourceIsSummed, Holds, SummaryHasResults, ReaderCopiesOnce, IsSummed
  <2> QED
    BY <2>2, <2>3 DEF SummaryInv
<1>4. CASE WorkerFinishes
  <2>1. /\ worker'.pc = "done" /\ worker'.job = record'
        /\ record' = [worker.job EXCEPT !.found = IF worker.pc = "found" THEN Found ELSE @]
        /\ worker.pc \in {"found", "escaped"}
        /\ UNCHANGED <<source, sourceSum, runs, runsSum, tmp, script, reader, cancel>>
    BY <1>0, <1>4 DEF WorkerFinishes, fileVars, WorkerType
  <2>2. ASSUME Calm' PROVE CalmInv'
    <3>1. CalmInv
      BY <1>4, <2>2, CalmBefore DEF SummaryInv, Worker
    <3>2. worker.pc = "found" /\ InRuns
      BY <2>1, <3>1 DEF CalmInv, WorkerHasCopied
    <3>3. record'.found = Found
      BY <1>0, <2>1, <3>2 DEF Job
    <3>4. ReaderCopiesOnce'
      BY <2>1, <3>1, <3>2, <3>3 DEF CalmInv, ReaderCopiesOnce, Found
    <3>5. WorkerHasCopied' /\ IsSummed'
      BY <2>1, <3>1, <3>2 DEF CalmInv, WorkerHasCopied, InRuns, IsSummed
    <3> QED
      BY <2>1, <3>1, <3>4, <3>5
      DEF CalmInv, SourceIsSummed, OneCollects, Holds, SummaryHasResults, Collecting
  <2> QED
    BY <2>1, <2>2 DEF SummaryInv
<1> QED
  BY <1>1, <1>2, <1>3, <1>4 DEF Worker

LEMMA ReaderKeepsSummary ==
    ASSUME SweInv, SummaryInv, Racing, Reader PROVE SummaryInv'
<1>0. reader \in ReaderType /\ record \in Job /\ worker \in WorkerType
  BY TypesNow
<1>1. UNCHANGED <<script, source, sourceSum, worker, cancel>>
  BY DEF Reader, ReadRecord, ReaderCollects, ReaderFails, StoreRecord, fileVars,
         ScriptUnchanged, RestUnchanged
<1> SUFFICES ASSUME Calm' PROVE CalmInv'
  BY <1>1 DEF SummaryInv
<1>2. CalmInv
  BY <1>1, CalmBefore DEF SummaryInv
<1>3. OneCollects'
  BY DEF Racing, Calm, OneCollects
<1>4. IdleReader.pc = "idle"
  BY DEF IdleReader
<1>5. CASE ReadRecord
  <2>1. /\ reader.pc = "idle" /\ reader'.pc = "collect" /\ ~record.found
        /\ UNCHANGED <<runs, runsSum, tmp, record>>
    BY <1>0, <1>5 DEF ReadRecord, fileVars, ReaderType
  <2> QED
    BY <1>1, <1>2, <1>3, <2>1
    DEF CalmInv, SourceIsSummed, Holds, SummaryHasResults, WorkerHasCopied, InRuns,
        ReaderCopiesOnce, IsSummed
<1>6. CASE ReaderCollects
  <2>1. Collect(reader) /\ UNCHANGED record
    BY <1>2, <1>6, NotRobbed DEF ReaderCollects, RestUnchanged
  <2> QED
    BY <1>1, <1>2, <2>1, ReaderCollectsSummary
<1>7. CASE ReaderFails
  <2>1. /\ reader.pc = "collect" /\ reader'.pc = "idle"
        /\ UNCHANGED <<runs, runsSum, tmp, record>>
    BY <1>4, <1>7 DEF ReaderFails, fileVars
  <2> QED
    BY <1>1, <1>2, <1>3, <2>1
    DEF CalmInv, SourceIsSummed, Holds, SummaryHasResults, WorkerHasCopied, InRuns,
        ReaderCopiesOnce, IsSummed
<1>8. CASE StoreRecord
  <2>1. /\ reader.pc = "found" /\ reader'.pc = "idle"
        /\ UNCHANGED <<runs, runsSum, tmp>>
        /\ Found => record'.found
    BY <1>0, <1>4, <1>8 DEF StoreRecord, fileVars, ReaderType, Job
  <2> QED
    BY <1>1, <1>2, <1>3, <2>1
    DEF CalmInv, SourceIsSummed, Holds, SummaryHasResults, WorkerHasCopied, InRuns,
        ReaderCopiesOnce, IsSummed, Found
<1> QED
  BY <1>5, <1>6, <1>7, <1>8 DEF Reader

LEMMA NextKeepsSummary ==
    ASSUME SweInv, SummaryInv, [Next]_vars PROVE SummaryInv'
<1>1. CASE (Script \/ WriteResult \/ Trap) /\ Racing
  <2>1. UNCHANGED worker /\ UNCHANGED cancel
    BY <1>1 DEF Script, NextTask, Complete, BoxExits, CandidateIdle, DrainTimeout,
                WriteFinal, WriteResult, Trap, ScriptOnly, jobVars
  <2>2. ASSUME Calm' PROVE CalmInv'
    <3>1. Calm /\ CalmInv
      BY <1>1, <2>1, <2>2, CalmBefore DEF SummaryInv
    <3> QED
      BY <1>1, <3>1, ScriptWritesOnly, ScriptKeepsSummary DEF CalmInv
  <2> QED
    BY <2>1, <2>2 DEF SummaryInv
<1>2. CASE Worker /\ Racing
  BY <1>2, WorkerKeepsSummary
<1>3. CASE Reader /\ Racing
  BY <1>3, ReaderKeepsSummary
<1>4. CASE (ContainerStep \/ HostStep \/ CancelJob \/ ListContainers) /\ Racing
  <2>1. /\ UNCHANGED <<source, sourceSum, runs, runsSum, tmp, worker, reader>>
        /\ script' = script /\ record'.found = record.found
        /\ cancel = "killed" => cancel' = "killed"
    BY <1>4, TypesNow DEF ContainerStep, HostStep, CancelJob, ListContainers, fileVars,
                          jobVars, Job
  <2>2. ASSUME Calm' PROVE CalmInv'
    BY <1>4, <2>1, <2>2, CalmBefore, RestKeepsSummary DEF SummaryInv
  <2> QED
    BY <2>1, <2>2 DEF SummaryInv
<1>5. CASE Kill /\ Racing
  BY <1>5 DEF Kill, SummaryInv, Calm
<1>6. CASE Restart /\ Racing
  BY <1>6 DEF Restart, SummaryInv, Calm
<1>7. CASE UNCHANGED vars
  <2>1. /\ UNCHANGED <<source, sourceSum, runs, runsSum, tmp, worker, reader>>
        /\ UNCHANGED <<script, record, cancel, raced>>
    BY <1>7 DEF vars, fileVars, jobVars
  <2> QED
    BY <2>1, RestKeepsSummary DEF SummaryInv, Calm
<1> QED
  BY <1>1, <1>2, <1>3, <1>4, <1>5, <1>6, <1>7 DEF Next, Container, Cancellation, Done

LEMMA InitSummary == Init => SummaryInv
<1> SUFFICES ASSUME Init PROVE SummaryInv
  OBVIOUS
<1>1. /\ worker.pc = "wait" /\ worker.job = NewJob /\ reader.pc = "idle"
      /\ script.pc = "next" /\ source = NoFiles /\ sourceSum = NoSummary
      /\ runs = NoFiles /\ runsSum = NoSummary
  BY DEF Init, IdleReader
<1> QED
  BY <1>1
  DEF SummaryInv, CalmInv, SourceIsSummed, OneCollects, Holds, SummaryHasResults,
      WorkerHasCopied, ReaderCopiesOnce, IsSummed, Collecting, NewJob

\* The tasks that passed are counted through their files.
LEMMA PassesAreCounted ==
    ASSUME NEW files \in Files
    PROVE  Summarise(files).passed = Cardinality({t \in Tasks : files[Final(t)] = "pass"})
<1> DEFINE S == {t \in Tasks : files[Final(t)] = "pass"}
           R == {f \in Results(files) : files[f] = "pass"}
           path == [t \in S |-> Final(t)]
<1>1. IsFiniteSet(S)
  <2>1. IsFiniteSet(1..NTasks)
    BY Numbers, FS_Interval
  <2> QED
    BY <2>1, FS_Subset DEF Tasks
<1>2. path \in Bijection(S, R)
  <2>1. path \in [S -> R]
    BY Paths DEF Results, NoFile, Final
  <2>2. \A t, u \in S : path[t] = path[u] => t = u
    BY Paths
  <2>3. \A f \in R : \E t \in S : path[t] = f
    <3> SUFFICES ASSUME NEW f \in R PROVE \E t \in S : path[t] = f
      OBVIOUS
    <3>1. PICK t \in Tasks : f = Final(t)
      BY DEF Results, File, Final
    <3> QED
      BY <3>1
  <2> QED
    BY <2>1, <2>2, <2>3 DEF Bijection, Injection, Surjection, IsInjective
<1>3. Cardinality(S) = Cardinality(R)
  <2>1. ExistsBijection(S, R)
    BY <1>2 DEF ExistsBijection
  <2> HIDE DEF S, R
  <2> QED
    BY <1>1, <2>1, FS_Bijection
<1> QED
  BY <1>3 DEF Summarise

\* When the worker is done its summary has every result of the script, and the
\* number that passed, for any number of tasks and attempts, whatever a request
\* for the leaderboard copied while the script moved its files.
THEOREM SummariesAreWhole == Spec => []SummaryIsWhole
<1>1. ASSUME SweInv, SummaryInv PROVE SummaryIsWhole
  <2> SUFFICES ASSUME worker.pc = "done", Calm
               PROVE  /\ \A t \in Tasks : source[Final(t)] # NoFile => Final(t) \in runsSum.results
                      /\ runsSum.passed = Cardinality({t \in Tasks : runs[Final(t)] = "pass"})
    BY DEF SummaryIsWhole, Calm
  <2>1. InRuns /\ runsSum = Summarise(runs) /\ runs \in Files
    BY <1>1 DEF SummaryInv, CalmInv, WorkerHasCopied, IsSummed, SweInv, TypeOK
  <2>2. runsSum.results = Results(runs)
    BY <2>1 DEF Summarise
  <2>3. ASSUME NEW t \in Tasks, source[Final(t)] # NoFile
        PROVE  Final(t) \in Results(runs)
    BY <2>1, <2>3, Paths DEF InRuns, Results, Final
  <2> QED
    BY <2>1, <2>2, <2>3, PassesAreCounted
<1>2. SweInv /\ SummaryInv /\ [Next]_vars => SummaryInv'
  BY NextKeepsSummary
<1> QED
  BY <1>1, <1>2, InitSummary, SweInvariant, PTL DEF Spec
=============================================================================
