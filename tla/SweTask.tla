-------------------------------- MODULE SweTask --------------------------------
(***************************************************************************)
(* One attempt at one SWE Mini task: the container in which pi-bench lets  *)
(* an agent work with the candidate model and then asks a judge, with the  *)
(* handoff of the pin between the two models that run-swe-mini.sh patches  *)
(* into it (run-swe-mini.sh:311-649).  The container runs beside the       *)
(* script that started it and can be removed at any step.                  *)
(*                                                                         *)
(* pi-bench itself and Lemonade are not part of the repository: what the   *)
(* agent, the judge and the host answer is any of the outcomes that the    *)
(* patched code tells apart.                                               *)
(***************************************************************************)
EXTENDS Naturals, FiniteSets

CONSTANTS
    Candidate, Judge,  \* models
    MaxLoaded,         \* max_loaded_models of the host
    Modes              \* bound: the modes that are looked at

\* "plain": the host has no lifecycle endpoints.  "same": the candidate judges
\* itself.  "handoff": the pin goes to the judge and back.
Mode == {"plain", "same", "handoff"}

ASSUME ModelsAssumption ==
    Candidate # Judge /\ MaxLoaded \in Nat \ {0} /\ Modes \subseteq Mode

VARIABLES
    mode,    \* what swe_mini_model_lifecycle_env and the job's options say
    box,     \* what the container does
    verdict, \* what the attempt has come to so far
    code,    \* the exit of the container, with its log
    pins,    \* models pinned at the host
    busy,    \* requests that were given up and that the host still works on
    unsure   \* the candidate was not given its pin back, as far as pi-bench
             \* could tell: history, not in the code

taskVars == <<mode, box, verdict, code, pins, busy, unsure>>

Box == {"none", "agent", "drain", "unpin", "load", "judge", "judged",
        "restore", "report", "exited"}
Verdict == {"pass", "zero"}
\* An exit with a result; with another status than 0 and 2 and a line about the
\* handoff in the log; with 2 and a line about a timeout; with any other status,
\* or without a result.
Codes == {"result", "handoff", "timeout", "fatal"}

TaskTypeOK ==
    /\ mode \in Mode
    /\ box \in Box
    /\ verdict \in Verdict
    /\ code \in Codes
    /\ pins \subseteq {Candidate, Judge}
    /\ busy \subseteq {"agent", "judge"}
    /\ unsure \in BOOLEAN

JudgeModel == IF mode = "handoff" THEN Judge ELSE Candidate
Idle(model) ==
    /\ "agent" \in busy => model # Candidate
    /\ "judge" \in busy => model # JudgeModel

\* The worker has loaded and pinned the candidate, where the host can.
TaskInit ==
    /\ mode \in Modes
    /\ box = "none"
    /\ verdict = "zero"
    /\ code = "result"
    /\ pins = IF mode = "plain" THEN {} ELSE {Candidate}
    /\ busy = {}
    /\ unsure = FALSE

-----------------------------------------------------------------------------
Go(next) == box' = next /\ UNCHANGED <<mode, code>>
Exit(c) == box' = "exited" /\ code' = c /\ UNCHANGED mode
HostUnchanged == UNCHANGED <<pins, busy, unsure>>

\* The agent has finished; a host without a handoff judges at once.
AgentFinishes ==
    /\ box = "agent"
    /\ Go(IF mode = "handoff" THEN "drain" ELSE "judge")
    /\ HostUnchanged /\ UNCHANGED verdict

\* The candidate cannot be reached, or a request to it times out and is given
\* up while the host goes on with it; or pi-bench fails in another way.
AgentFails ==
    /\ box = "agent"
    /\ \/ Exit("timeout") /\ busy' = busy \cup {"agent"}
       \/ (Exit("handoff") \/ Exit("fatal")) /\ UNCHANGED busy
    /\ UNCHANGED <<pins, unsure, verdict>>

\* The judge cannot be had: the task is scored zero and the run goes on.
Zero(next) == verdict' = "zero" /\ Go(next)
\* The same, and nothing gives the candidate its pin back.
Abandon == Zero("report") /\ unsure' = TRUE

\* switchPinnedCandidateToJudge: the candidate is idle, or the wait runs out
\* and the error leaves before anything has changed.
Drain ==
    /\ box = "drain"
    /\ \/ Idle(Candidate) /\ Go("unpin") /\ UNCHANGED verdict
       \/ Zero("report")
    /\ HostUnchanged

\* The candidate is unpinned outside the try block: when this fails, or when
\* its answer is lost, nothing is restored.
Unpin ==
    /\ box = "unpin"
    /\ pins' \in {pins, pins \ {Candidate}}
    /\ \/ Candidate \notin pins' /\ Go("load") /\ UNCHANGED <<verdict, unsure>>
       \/ Abandon
    /\ UNCHANGED busy

\* The host loads a model and pins it if its pinned models leave room.
LoadAndPin(pinned, model) ==
    /\ model \notin pinned => Cardinality(pinned) < MaxLoaded
    /\ pins' = pinned \cup {model}

\* Mutant: a judge that did not load is not waited for, and the candidate keeps
\* no pin.
Load_NoRestore ==
    /\ box = "load"
    /\ \/ LoadAndPin(pins, Judge) /\ Go("judge") /\ UNCHANGED verdict
       \/ (LoadAndPin(pins, Judge) \/ UNCHANGED pins) /\ Zero("report")
    /\ UNCHANGED <<busy, unsure>>
\* loadAndConfirmPinnedModel(judge): confirmed, whatever the request answered;
\* or not confirmed, loaded or not, and the candidate is to be restored.
Load ==
    /\ box = "load"
    /\ \/ LoadAndPin(pins, Judge) /\ Go("judge") /\ UNCHANGED verdict
       \/ (LoadAndPin(pins, Judge) \/ UNCHANGED pins) /\ Zero("judged")
    /\ UNCHANGED <<busy, unsure>>

\* The judge answers; or its stream fails, or times out and is given up.
JudgeAnswers ==
    /\ box = "judge"
    /\ verdict' \in {"pass", "zero"}
    /\ busy' \in {busy} \cup (IF verdict' = "zero" THEN {busy \cup {"judge"}} ELSE {})
    /\ Go(IF mode = "handoff" THEN "judged" ELSE "report")
    /\ UNCHANGED <<pins, unsure>>

\* pinCandidateAfterJudge, after a judgement or a load that failed: the judge
\* is idle, or the wait runs out.
AwaitJudge ==
    /\ box = "judged"
    /\ \/ Idle(Judge) /\ Go("restore") /\ UNCHANGED <<verdict, unsure>>
       \/ Abandon
    /\ UNCHANGED <<pins, busy>>

\* bestEffortUnpinModel(judge), whose failure is ignored, and
\* loadAndConfirmPinnedModel(candidate).
Restore ==
    /\ box = "restore"
    /\ \E left \in {pins, pins \ {Judge}} :
         \/ /\ LoadAndPin(left, Candidate)
            /\ \/ Go("report") /\ unsure' = FALSE /\ UNCHANGED verdict
               \/ Abandon
         \/ pins' = left /\ Abandon
    /\ UNCHANGED busy

\* The host finishes a request that was given up.
RequestEnds ==
    /\ \E r \in busy : busy' = busy \ {r}
    /\ UNCHANGED <<mode, box, verdict, code, pins, unsure>>

\* All steps of the container but the one that writes the result.
BoxStep ==
    \/ AgentFinishes \/ AgentFails \/ Drain \/ Unpin \/ Load \/ JudgeAnswers
    \/ AwaitJudge \/ Restore
===============================================================================
