--------------------------- MODULE RunRefinement ---------------------------
(***************************************************************************)
(* WorkflowRuntime as an implementation of RunContract: the run as         *)
(* QueryService.get_run reads it from the database.                        *)
(***************************************************************************)
EXTENDS WorkflowRuntime

RunAsSeen ==
    [state   |-> run,
     running |-> \/ \E s \in Steps : step[s] = "running"
                 \/ \E s \in Steps : \E r \in Refs(s) : StatusOf(r) = "running",
     unknown |-> \E s \in Steps : step[s] = "result_unknown",
     owed    |-> PendingCompensations(step, attempts) # {},
     granted |-> \E i \in DOMAIN approvals : approvals[i].status = "approved"]

Contract == INSTANCE RunContract WITH view <- RunAsSeen

(***************************************************************************)
(* The runtime keeps its contract with the callers of QueryService: an     *)
(* outcome, a decision, a cancellation or a recovery changes the run only  *)
(* as RunView allows, through every crash, retry and lost reply.           *)
(***************************************************************************)
KeepsContract == Contract!Spec
=============================================================================
