-------------------------- MODULE MCWorkflowRuntime --------------------------
(***************************************************************************)
(* Small workflows for WorkflowRuntime.                                    *)
(***************************************************************************)
EXTENDS RunRefinement

\* migrate <- deploy <- verify: the shape of the order-service upgrade.
Chain == [s \in Steps |-> {u \in Steps : u = s - 1}]

\* Two steps run side by side, and a third waits for both.
Join == [s \in Steps |-> IF s <= 2 THEN {} ELSE {1, 2}]

\* One step waits for the first while another runs on the side.
Side == [s \in Steps |-> IF s = 3 THEN {1} ELSE {}]

AllProbed == Steps \X Phases

NotProbed2 == (Steps \X Phases) \ {<<2, "forward">>}

Once == [s \in Steps |-> 1]

Twice == [s \in Steps |-> 2]
=============================================================================
