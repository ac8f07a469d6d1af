--------------------------- MODULE WorkflowStates ---------------------------
(***************************************************************************)
(* The state machines of a workflow run and of a step run:                 *)
(* workflow/domain/states.py and the transition tables of                  *)
(* workflow/domain/runs.py.  WorkflowRun.transition and StepRun.transition *)
(* raise InvalidTransition when the target is not in the table, which      *)
(* rolls back the unit of work they run in; a step of the model that needs *)
(* a transition therefore has RunCan or StepCan among its guards.          *)
(***************************************************************************)

RunStates == {"pending", "running", "waiting_approval", "succeeded", "failed",
              "compensating", "compensated", "cancelled", "manual_intervention"}

StepStates == {"pending", "ready", "running", "retry_wait", "succeeded",
               "failed", "result_unknown", "manual_intervention"}

TerminalRunStates == {"succeeded", "failed", "compensated", "cancelled",
                      "manual_intervention"}

ForwardRunStates == {"pending", "running"}

RunTransitions ==
    [r \in RunStates |->
        CASE r = "pending"          -> {"running", "waiting_approval", "cancelled"}
          [] r = "running"          -> {"cancelled", "waiting_approval", "succeeded",
                                        "failed", "compensating",
                                        "manual_intervention"}
          [] r = "waiting_approval" -> {"running", "cancelled", "compensating",
                                        "manual_intervention"}
          [] r = "compensating"     -> {"compensated", "manual_intervention"}
          [] OTHER                  -> {}]

StepTransitions ==
    [q \in StepStates |->
        CASE q = "pending"        -> {"ready"}
          [] q = "ready"          -> {"running"}
          [] q = "running"        -> {"ready", "retry_wait", "succeeded", "failed",
                                      "result_unknown", "manual_intervention"}
          [] q = "retry_wait"     -> {"ready"}
          [] q = "result_unknown" -> {"ready", "succeeded", "manual_intervention"}
          [] OTHER                -> {}]

RunCan(from, to) == to \in RunTransitions[from]

StepCan(from, to) == to \in StepTransitions[from]
=============================================================================
