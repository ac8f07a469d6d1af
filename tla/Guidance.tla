------------------------------ MODULE Guidance ------------------------------
(***************************************************************************)
(* The stages of an upgrade that OperationsService.get_guidance shows an   *)
(* operator (_guidance_stages in operations/application/service.py),       *)
(* derived from the run's snapshot alone.                                  *)
(***************************************************************************)
EXTENDS SandboxUpgrade

\* The code also names compensated and compensation_failed, which no step is in.
FailureStates == {"failed", "manual_intervention", "result_unknown"}

\* The states of the steps that use one of the tools.
StatesOf(tools) == {step[s] : s \in {u \in Steps : Tool["forward"][u] \in tools}}

EffectStates == StatesOf({"migrate", "deploy"})

VerificationStates == StatesOf({"validate"})

PrecheckStage ==
    CASE StatesOf({"precheck"}) = {"succeeded"}             -> "complete"
      [] StatesOf({"precheck"}) \cap FailureStates # {}     -> "attention"
      [] OTHER                                              -> "current"

\* Mutant: a step that is only ready counts as started.
PostApprovalStartedWhenReady ==
    (EffectStates \cup VerificationStates) \ {"pending"} # {}

PostApprovalStarted ==
    (EffectStates \cup VerificationStates) \ {"pending", "ready"} # {}

ApprovalStage ==
    IF \E i \in DOMAIN approvals : approvals[i].status = "pending" THEN "current"
    ELSE IF run = "cancelled" THEN "attention"
    ELSE IF PostApprovalStarted THEN "complete"
    ELSE "pending"

ExecutionStage ==
    IF EffectStates \cap FailureStates # {} THEN "attention"
    ELSE IF EffectStates = {"succeeded"} THEN "complete"
    ELSE IF ApprovalStage = "complete" THEN "current"
    ELSE "pending"

VerificationStage ==
    IF VerificationStates = {"succeeded"} THEN "complete"
    ELSE IF VerificationStates \cap FailureStates # {} THEN "attention"
    ELSE IF ExecutionStage = "complete" THEN "current"
    ELSE "pending"

OutcomeStage ==
    IF run \in TerminalRunStates \/ "result_unknown" \in EffectStates THEN "attention"
    ELSE IF "current" \in {ExecutionStage, VerificationStage} THEN "current"
    ELSE "pending"

\* The stages after "request" and "plan", which are always complete.
Stages ==
    IF run = "succeeded" THEN [i \in 1..5 |-> "complete"]
    ELSE <<PrecheckStage, ApprovalStage, ExecutionStage, VerificationStage, OutcomeStage>>

(***************************************************************************)
(* An operator is never shown progress that was not made: a stage is past  *)
(* "pending" only when every stage before it is complete or asks for       *)
(* attention, and an approval is shown as complete only if it was granted. *)
(***************************************************************************)
StagesAreTrue ==
    /\ \A i, j \in 2..4 :
          i < j /\ Stages[i] \in {"pending", "current"} => Stages[j] = "pending"
    /\ Stages[2] # "pending" => Stages[1] = "complete" \/ run \in TerminalRunStates
    /\ Stages[2] = "complete" => \E i \in DOMAIN approvals :
                                    approvals[i].status \in {"approved", "invalidated"}
=============================================================================
