----------------------------- MODULE Operations -----------------------------
(***************************************************************************)
(* OperationsService (operations/application/service.py): change requests, *)
(* the manifest they are kept in, and the commands that drive their runs.  *)
(*                                                                         *)
(* Every operation holds the service's lock, so there is one at a time; it *)
(* is cut where the process may die or an exception leave it.  A run is    *)
(* what RunView says of it, which RunRefinement shows of WorkflowRuntime.  *)
(* `requests', `runtimes' and `op' live in the process.                    *)
(***************************************************************************)
EXTENDS RunView, Naturals

CONSTANTS
    Requests,   \* the request ids uuid4 draws
    Usable,     \* those whose fields are complete and name a supported change
    Limit,      \* bound: cycles of a run_until loop, 400 in the code
    MaxFaults   \* bound: crashes, failed writes and exceptions of run_once

\* DemoScenario; a readiness check goes the way of an upgrade that asks for
\* no approval.
Scenarios == {"upgrade", "compensation", "recovery"}

ASSUME OperationsAssumption ==
    /\ Usable \subseteq Requests
    /\ Limit \in Nat
    /\ MaxFaults \in Nat

VARIABLES
    scenario,   \* the scenario each usable request names
    manifest,   \* operations.json: the status of each stored request
    requests,   \* _requests: the same in memory
    runs,       \* the run of each request that has one, in its own database
    runtimes,   \* _runtimes: whether the driver of each one has been started
    op,         \* the operation that holds the lock, and how far it is
    unsaved,    \* requests whose manifest could not be written
    faults      \* faults so far

opsVars == <<scenario, manifest, requests, runs, runtimes, op, unsaved, faults>>

Statuses == {"clarification_required", "rejected", "plan_ready"}

\* What a run_until loop waits for: run states, or a step in result_unknown.
Goals == RunStates \cup {"result_unknown"}

NoOp == [kind |-> "none", at |-> "idle"]

OpsTypeOK ==
    /\ scenario \in [Usable -> Scenarios]
    /\ DOMAIN manifest \cup DOMAIN requests \cup DOMAIN runs \subseteq Requests
    /\ \A r \in DOMAIN manifest : manifest[r] \in Statuses
    /\ \A r \in DOMAIN requests : requests[r] \in Statuses
    /\ \A r \in DOMAIN runs : runs[r] \in Views
    /\ DOMAIN runtimes \subseteq DOMAIN runs
    /\ \A r \in DOMAIN runtimes : runtimes[r] \in BOOLEAN
    /\ op # NoOp => /\ op.kind \in {"submit", "decide", "recover", "close"}
                    /\ op.want \subseteq Goals
                    /\ op.cycles \in 0..Limit
                    /\ op.seen \in Views
    /\ unsaved \subseteq Requests
    /\ faults \in 0..MaxFaults

Nothing == [r \in {} |-> "none"]

OpsInit ==
    /\ scenario \in [Usable -> Scenarios]
    /\ manifest = Nothing
    /\ requests = Nothing
    /\ runs = Nothing
    /\ runtimes = Nothing
    /\ op = NoOp
    /\ unsaved = {}
    /\ faults = 0

-----------------------------------------------------------------------------
With(f, r, v) == [q \in DOMAIN f \cup {r} |-> IF q = r THEN v ELSE f[q]]

Without(f, r) == [q \in DOMAIN f \ {r} |-> f[q]]

Idle == op = NoOp

Known(r) == r \in DOMAIN requests /\ requests[r] = "plan_ready"

Begin(kind, r, at, want, seen) ==
    op' = [kind |-> kind, req |-> r, at |-> at, want |-> want, cycles |-> 0,
           seen |-> seen]

Fault == faults < MaxFaults /\ faults' = faults + 1

\* Mutant: the manifest is not written.
StoreInMemory(r, status) ==
    /\ requests' = With(requests, r, status)
    /\ UNCHANGED <<manifest, unsaved, faults>>

(***************************************************************************)
(* _store: memory first, then the whole manifest, replaced in one step.  A *)
(* write that fails leaves the request in memory only, until a later one   *)
(* writes all of them.                                                     *)
(***************************************************************************)
Store(r, status) ==
    /\ requests' = With(requests, r, status)
    /\ \/ /\ manifest' = requests'
          /\ unsaved' = unsaved \ DOMAIN requests'
          /\ UNCHANGED faults
       \/ Fault /\ unsaved' = unsaved \cup {r} /\ UNCHANGED manifest

\* What the run of the operation becomes.
RunBecomes(b) == runs' = [runs EXCEPT ![op.req] = b]

-----------------------------------------------------------------------------
(* submit_request                                                          *)

Fresh(r) == r \notin DOMAIN requests \cup DOMAIN manifest \cup DOMAIN runs

\* A field is missing, or _validate_supported_change finds errors.
SubmitUnusable(r) ==
    /\ Idle
    /\ Fresh(r)
    /\ r \notin Usable
    /\ \E status \in {"clarification_required", "rejected"} : Store(r, status)
    /\ UNCHANGED <<scenario, runs, runtimes, op>>

\* A runtime of its own, driver.start on its empty database, and plan_change.
BeginSubmit(r) ==
    /\ Idle
    /\ Fresh(r)
    /\ r \in Usable
    /\ Begin("submit", r, "plan", {}, Created)
    /\ UNCHANGED <<scenario, manifest, requests, runs, runtimes, unsaved, faults>>

\* Planning prepared nothing: it asks for clarification or reports errors.
PlanNotPrepared ==
    /\ op.at = "plan"
    /\ \E status \in {"clarification_required", "rejected"} : Store(op.req, status)
    /\ op' = NoOp
    /\ UNCHANGED <<scenario, runs, runtimes>>

\* Planning raises: the runtime is closed and nothing stored.
PlanningRaises ==
    /\ op.at = "plan"
    /\ Fault
    /\ op' = NoOp
    /\ UNCHANGED <<scenario, manifest, requests, runs, runtimes, unsaved>>

\* Mutant: the request is stored as soon as its run exists.
CreateRunAndStore ==
    /\ op.at = "plan"
    /\ runs' = With(runs, op.req, Created)
    /\ op' = [op EXCEPT !.at = "drive", !.want = TerminalRunStates \cup {"waiting_approval"}]
    /\ Store(op.req, "plan_ready")
    /\ UNCHANGED <<scenario, runtimes>>

CreateRun ==
    /\ op.at = "plan"
    /\ runs' = With(runs, op.req, Created)
    /\ op' = [op EXCEPT !.at = "drive", !.want = TerminalRunStates \cup {"waiting_approval"}]
    /\ UNCHANGED <<scenario, manifest, requests, runtimes, unsaved, faults>>

-----------------------------------------------------------------------------
(* run_until, run_until_any and run_until_step                             *)

Reached(a, want) ==
    a.state \in want \/ ("result_unknown" \in want /\ a.unknown)

Driving == op.at = "drive"

\* Mutant: the loop has no limit.
RunOnceForEver ==
    /\ Driving
    /\ ~Reached(runs[op.req], op.want)
    /\ UNCHANGED <<scenario, op, runs, manifest, requests, runtimes, unsaved, faults>>

\* A cycle, in which run_once does one thing or finds nothing to do.
RunOnce ==
    /\ Driving
    /\ ~Reached(runs[op.req], op.want)
    /\ op.cycles < Limit
    /\ op' = [op EXCEPT !.cycles = @ + 1]
    /\ \/ \E b \in Views : Coordinated(runs[op.req], b) /\ RunBecomes(b)
       \/ UNCHANGED runs
    /\ UNCHANGED <<scenario, manifest, requests, runtimes, unsaved, faults>>

\* The loop is out of cycles, or run_once raises.  submit closes its runtime.
DriveFails ==
    /\ Driving
    /\ ~Reached(runs[op.req], op.want)
    /\ \/ op.cycles = Limit /\ UNCHANGED faults
       \/ Fault
    /\ op' = IF op.kind = "submit" THEN [op EXCEPT !.at = "close"] ELSE NoOp
    /\ UNCHANGED <<scenario, manifest, requests, runs, runtimes, unsaved>>

SubmitEnds ==
    /\ Driving
    /\ op.kind = "submit"
    /\ Reached(runs[op.req], op.want)
    /\ runtimes' = With(runtimes, op.req, TRUE)
    /\ Store(op.req, "plan_ready")
    /\ op' = NoOp
    /\ UNCHANGED <<scenario, runs>>

\* The snapshot is returned; in the recovery scenario the runtime is closed.
CommandEnds ==
    /\ Driving
    /\ op.kind # "submit"
    /\ Reached(runs[op.req], op.want)
    /\ op' = IF "result_unknown" \in op.want THEN [op EXCEPT !.at = "close"] ELSE NoOp
    /\ UNCHANGED <<scenario, manifest, requests, runs, runtimes, unsaved, faults>>

\* Coordinator.close(wait=True) of the operation's runtime: the outcomes of
\* the attempts it started are persisted first.
CloseRuntime ==
    LET pending == /\ runs[op.req].running
                   /\ op.req \in DOMAIN runtimes => runtimes[op.req]
    IN  /\ op.at = "close"
        /\ \/ /\ pending
              /\ \E b \in Views : /\ Reports(runs[op.req], b)
                                 /\ ~b.running
                                 /\ RunBecomes(b)
              /\ UNCHANGED <<op, runtimes>>
           \/ /\ ~pending
              /\ op' = NoOp
              /\ runtimes' = Without(runtimes, op.req)
              /\ UNCHANGED runs
        /\ UNCHANGED <<scenario, manifest, requests, unsaved, faults>>

\* OperationsService.close, one runtime after the other.
BeginClose(r) ==
    /\ Idle
    /\ r \in DOMAIN runtimes
    /\ Begin("close", r, "close", {}, runs[r])
    /\ UNCHANGED <<scenario, manifest, requests, runs, runtimes, unsaved, faults>>

-----------------------------------------------------------------------------
(* decide_approval and recover                                             *)

\* _runtime_for: the runtime of a known run, built but not started if new.
RuntimeFor(r) ==
    runtimes' = IF r \in DOMAIN runtimes THEN runtimes ELSE With(runtimes, r, FALSE)

BeginDecide(r) ==
    /\ Idle
    /\ Known(r)
    /\ RuntimeFor(r)
    /\ Begin("decide", r, "start", {}, runs[r])
    /\ UNCHANGED <<scenario, manifest, requests, runs, unsaved, faults>>

\* What recovery finds to do in a run.
Unresolved(a) == a.state \notin TerminalRunStates /\ ~Settled(a)

\* Mutant: driver.start comes before the checks.
BeginRecoverUnchecked(r) ==
    /\ Idle
    /\ Known(r)
    /\ RuntimeFor(r)
    /\ \/ /\ runs[r].unknown
          /\ Begin("recover", r, "start", {"succeeded"}, runs[r])
          /\ UNCHANGED runs
       \/ \E b \in Views : /\ Unresolved(runs[r])
                           /\ Recovered(runs[r], b)
                           /\ runs' = [runs EXCEPT ![r] = b]
                           /\ Begin("recover", r, "conflict", {}, runs[r])
    /\ UNCHANGED <<scenario, manifest, requests, unsaved, faults>>

\* A revision that changed, or no step in result_unknown, is a conflict.
BeginRecover(r) ==
    /\ Idle
    /\ Known(r)
    /\ RuntimeFor(r)
    /\ \/ runs[r].unknown /\ Begin("recover", r, "start", {"succeeded"}, runs[r])
       \/ Begin("recover", r, "conflict", {}, runs[r])
    /\ UNCHANGED <<scenario, manifest, requests, runs, unsaved, faults>>

\* driver.start(): recovery of whatever the database shows as unresolved, be
\* it left by an earlier process or in flight in this one.
DriverStarts ==
    /\ op.at = "start"
    /\ \/ ~Unresolved(runs[op.req]) /\ UNCHANGED runs
       \/ \E b \in Views : /\ Unresolved(runs[op.req])
                           /\ Recovered(runs[op.req], b)
                           /\ ~Unresolved(b)
                           /\ RunBecomes(b)
    /\ runtimes' = With(runtimes, op.req, TRUE)
    /\ op' = IF op.kind = "decide" THEN [op EXCEPT !.at = "check"]
             ELSE [op EXCEPT !.at = "drive", !.seen = Created]
    /\ UNCHANGED <<scenario, manifest, requests, unsaved, faults>>

\* driver.start raises after it resolved some of the attempts.
DriverStartRaises ==
    /\ op.at = "start"
    /\ Fault
    /\ \/ UNCHANGED runs
       \/ \E b \in Views : /\ Unresolved(runs[op.req])
                           /\ Recovered(runs[op.req], b)
                           /\ RunBecomes(b)
    /\ op' = NoOp
    /\ UNCHANGED <<scenario, manifest, requests, runtimes, unsaved>>

\* No approval is pending, or the command names an older version of it.
RefuseDecision ==
    /\ op.at = "check"
    /\ op' = [op EXCEPT !.at = "conflict"]
    /\ UNCHANGED <<scenario, manifest, requests, runs, runtimes, unsaved, faults>>

\* What the loop after a decision waits for.
DecisionGoal(b) ==
    IF ~b.granted THEN {"cancelled"}
    ELSE CASE scenario[op.req] = "compensation" -> {"compensated"}
           [] scenario[op.req] = "recovery"     -> {"result_unknown"}
           [] OTHER                             -> {"succeeded"}

TakeDecision ==
    /\ op.at = "check"
    /\ \E b \in Views :
          /\ Decided(runs[op.req], b)
          /\ RunBecomes(b)
          /\ op' = [op EXCEPT !.at = "drive", !.want = DecisionGoal(b),
                               !.seen = Created]
    /\ UNCHANGED <<scenario, manifest, requests, runtimes, unsaved, faults>>

\* OperationsConflictError or ApprovalConflict reaches the caller.
Conflict ==
    /\ op.at = "conflict"
    /\ op' = NoOp
    /\ UNCHANGED <<scenario, manifest, requests, runs, runtimes, unsaved, faults>>

-----------------------------------------------------------------------------
\* get_snapshot, get_guidance, get_plan, get_events, list_runs, render_report.
Read(r) ==
    /\ Idle
    /\ Known(r)
    /\ r \notin DOMAIN runtimes
    /\ RuntimeFor(r)
    /\ UNCHANGED <<scenario, manifest, requests, runs, op, unsaved, faults>>

\* The process dies and the service is started again: _load_manifest.
CrashAndRestart ==
    /\ Fault
    /\ requests' = manifest
    /\ runtimes' = Nothing
    /\ op' = NoOp
    /\ UNCHANGED <<scenario, manifest, runs, unsaved>>

Operate ==
    \/ PlanNotPrepared \/ PlanningRaises \/ CreateRun
    \/ RunOnce \/ DriveFails \/ SubmitEnds \/ CommandEnds \/ CloseRuntime
    \/ DriverStarts \/ DriverStartRaises
    \/ RefuseDecision \/ TakeDecision \/ Conflict

OpsNext ==
    \/ \E r \in Requests : SubmitUnusable(r) \/ BeginSubmit(r)
    \/ \E r \in Requests : BeginDecide(r) \/ BeginRecover(r)
    \/ \E r \in Requests : Read(r) \/ BeginClose(r)
    \/ Operate
    \/ CrashAndRestart

OpsSpec == OpsInit /\ [][OpsNext]_opsVars

\* A thread that holds the lock goes on until it releases it.
OpsLiveSpec == OpsSpec /\ WF_opsVars(Operate)

-----------------------------------------------------------------------------
(***************************************************************************)
(* A request the manifest calls plan_ready has a run, and that run has     *)
(* been driven to its approval or its end: it is never found in a state no *)
(* command leads out of because submit_request died half way.              *)
(***************************************************************************)
PlanReadyWasDriven ==
    \A r \in DOMAIN manifest : manifest[r] = "plan_ready" =>
        /\ r \in DOMAIN runs
        /\ \/ runs[r].granted
           \/ runs[r].state \in TerminalRunStates \cup {"waiting_approval", "compensating"}

(***************************************************************************)
(* A run that a crash between create_run and _store left without a request *)
(* has nothing approved: only a run some operator can find has been        *)
(* approved, unless its manifest could not be written.                     *)
(***************************************************************************)
ApprovedIsKnown ==
    \A r \in DOMAIN runs : runs[r].granted => r \in DOMAIN requests \cup unsaved

(***************************************************************************)
(* A recovery command that is refused leaves the run as the operator saw   *)
(* it.                                                                     *)
(***************************************************************************)
RefusedRecoveryChangesNothing ==
    (op.at = "conflict" /\ op.kind = "recover") => runs[op.req] = op.seen

(***************************************************************************)
(* Every operation releases the lock, also when the run never reaches the  *)
(* state its loop waits for.                                               *)
(***************************************************************************)
OperationsEnd == op.at # "idle" ~> op.at = "idle"

(***************************************************************************)
(* A command that ends in a conflict leaves the run as it was.             *)
(***************************************************************************)
ConflictsChangeNothing == op.at = "conflict" => runs[op.req] = op.seen
=============================================================================
