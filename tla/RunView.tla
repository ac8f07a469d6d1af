------------------------------ MODULE RunView ------------------------------
(***************************************************************************)
(* A workflow run as its callers see it through QueryService.get_run       *)
(* (workflow/application/services.py), and the changes of it they may rely *)
(* on: what the coordinator, an operator and recovery may each make of a   *)
(* run seen as a, as relations between a and the run seen afterwards, b.   *)
(***************************************************************************)
EXTENDS WorkflowStates

Views == [state   : RunStates,
          running : BOOLEAN,    \* a step or an attempt is running
          unknown : BOOLEAN,    \* a step is in result_unknown
          owed    : BOOLEAN,    \* an effect is still to be compensated
          granted : BOOLEAN]    \* an approval is in force

Created == [state |-> "pending", running |-> FALSE, unknown |-> FALSE,
            owed |-> FALSE, granted |-> FALSE]

Settled(a) == ~a.running /\ ~a.unknown

\* The coordinator commits the start of an attempt, or of a compensation.
MayDispatch(a) ==
    \/ a.state \in ForwardRunStates /\ ~a.unknown
    \/ a.state = "compensating" /\ Settled(a) /\ a.owed

Dispatched(a) ==
    [a EXCEPT !.state = IF @ = "compensating" THEN @ ELSE "running", !.running = TRUE]

Dispatches(a, b) == MayDispatch(a) /\ b = Dispatched(a)

\* What the state of a run may become when an outcome of it is persisted.
Outcome(a, b) ==
    \/ b.state = a.state
    \/ a.state = "running" /\ b.state = "succeeded" /\ Settled(b)
    \/ a.state = "running" /\ b.state = "failed" /\ ~b.owed
    \/ a.state = "running" /\ b.state = "compensating" /\ b.owed
    \/ a.state = "compensating" /\ b.state = "compensated" /\ ~b.owed /\ Settled(b)
    \/ a.state = "compensating" /\ b.state = "manual_intervention"

\* The coordinator persists the outcome of an attempt it started.
Reports(a, b) ==
    /\ a.running
    /\ a.unknown => b.unknown
    /\ a.owed => b.owed \/ a.state = "compensating"
    /\ b.granted = a.granted
    /\ Outcome(a, b)

\* The executor refuses an attempt just started, and that is persisted.
Refused(a, b) ==
    /\ MayDispatch(a)
    /\ Reports(Dispatched(a), b)
    /\ b.running = a.running
    /\ b.unknown = a.unknown
    /\ b.state # "succeeded"

\* The coordinator asks for an approval with nothing of the run in flight, and
\* invalidates the approvals that do not bind what it is about to execute.
AsksApproval(a, b) ==
    /\ a.state \in ForwardRunStates \cup {"waiting_approval"}
    /\ Settled(a)
    /\ b = [a EXCEPT !.state = "waiting_approval", !.granted = FALSE]

Coordinated(a, b) ==
    Dispatches(a, b) \/ Reports(a, b) \/ Refused(a, b) \/ AsksApproval(a, b)

\* An operator decides the approval the run is waiting for.
Decided(a, b) ==
    /\ a.state = "waiting_approval"
    /\ Settled(a)
    /\ \/ b = [a EXCEPT !.state = "running", !.granted = TRUE]
       \/ \E target \in {"cancelled", "compensating", "manual_intervention"} :
            /\ target = "compensating" => a.owed
            /\ b = [a EXCEPT !.state = target]

Cancelled(a, b) ==
    RunCan(a.state, "cancelled") /\ b = [a EXCEPT !.state = "cancelled"]

\* Recovery resolves an attempt nobody completed, or gives the run to an operator.
Recovered(a, b) ==
    /\ ~Settled(a)
    /\ a.state \notin TerminalRunStates \/ b.state = a.state
    /\ ~a.running => ~b.running
    /\ ~a.unknown => ~b.unknown
    /\ a.owed => b.owed \/ a.state = "compensating"
    /\ b.granted = a.granted
    /\ \/ b.state = a.state
       \/ b.state = "manual_intervention"
       \/ a.state = "running" /\ b.state = "succeeded" /\ Settled(b)
       \/ a.state = "compensating" /\ b.state = "compensated" /\ ~b.owed
=============================================================================
