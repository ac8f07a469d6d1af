--------------------------- MODULE SandboxUpgrade ---------------------------
(***************************************************************************)
(* The order-service upgrade of sandbox/application/runtime.py: a workflow *)
(* run whose steps are executed by the sandbox's tools.  The runtime is    *)
(* that of WorkflowRuntime, the tools are those of Sandbox.  The program   *)
(* counter of a tool call is the stage of its thread, so it dies with the  *)
(* process, and `effects', which recovery probes, are the rows of the      *)
(* sandbox's own ledgers, no longer the outside world itself.              *)
(***************************************************************************)
EXTENDS WorkflowRuntime

CONSTANTS
    Tool,      \* the tool of each phase and step, "none" where there is none
    Clients    \* the priorities of the orders clients create

VARIABLES service, schema, layout, orders

SB == INSTANCE Sandbox

ASSUME ToolAssumption ==
    /\ Tool \in [Phases -> [Steps -> SB!SandboxTools \cup {"none"}]]
    /\ Clients \subseteq SB!Priorities

sandbox == <<service, schema, layout, orders>>
upgradeVars == <<vars, sandbox>>

CallOf(t) == [stage |-> t.stage, out |-> t.out]

UpgradeInit == Init /\ SB!SandboxInit

UpgradeTypeOK ==
    /\ SB!SandboxTypeOK
    /\ effects \in [Phases -> [Steps -> {0, 1}]]
    /\ \A t \in threads : CallOf(t) \in SB!Call

\* The thread t after its tool call became d.
Advance(t, d) ==
    /\ IF d.stage = "done"
       THEN EndThread(t, d.out)
       ELSE threads' = (threads \ {t}) \cup {[t EXCEPT !.stage = d.stage, !.out = d.out]}
    /\ UNCHANGED <<database, binding, pc, started, batch, rq>>

ToolRuns(t) ==
    \E d \in SB!Call :
        /\ SB!Execute(Tool[t.phase][t.step], <<t.phase, t.step>>, CallOf(t), d)
        /\ Advance(t, d)
        /\ UNCHANGED faults

ToolReports(t) ==
    /\ t.stage = "landed"
    /\ Advance(t, [stage |-> "done", out |-> t.out])
    /\ UNCHANGED <<sandbox, effects, faults>>

ToolFaults(t) ==
    \E d \in SB!Call :
        /\ faults < MaxFaults
        /\ \/ SB!InjectedFault(CallOf(t), d)
           \/ SB!DatabaseRaises(Tool[t.phase][t.step], CallOf(t), d)
        /\ Advance(t, d)
        /\ faults' = faults + 1

(***************************************************************************)
(* A client creates an order.  Nothing in the repository does so while a   *)
(* tool is in the middle of a call, where the copy made by the rollback    *)
(* script would miss the order.                                            *)
(***************************************************************************)
ClientCreatesOrder(priority) ==
    /\ \A t \in threads : t.stage \notin SB!Midway
    /\ SB!CreateOrder(priority)
    /\ UNCHANGED <<database, binding, threads, pc, started, batch, rq, faults>>

Runtime ==
    /\ RunOnce \/ Operators \/ Recovery \/ Process \/ RunTerminal
    /\ UNCHANGED sandbox

UpgradeNext ==
    \/ \E t \in threads : ToolRuns(t) \/ ToolReports(t) \/ ToolFaults(t)
    \/ \E p \in Clients : ClientCreatesOrder(p)
    \/ Runtime

UpgradeSpec == UpgradeInit /\ [][UpgradeNext]_upgradeVars

(***************************************************************************)
(* The workflow of order_upgrade_sandbox_definition from its precheck on:  *)
(* pos orders the steps, each depending on the one before; m migrates the  *)
(* schema, the one high-risk step, and d, the next one, deploys service    *)
(* v2; only these two are compensated, every other step only reads.        *)
(***************************************************************************)
IsUpgrade(pos, m, d) ==
    /\ \A s, u \in Steps : pos[s] = pos[u] => s = u
    /\ \A s \in Steps : pos[s] = 0 \/ \E v \in DependsOn[s] : pos[v] = pos[s] - 1
    /\ pos[m] > 0
    /\ pos[d] = pos[m] + 1
    /\ Protected = {m}
    /\ Compensable = {m, d}
    /\ Tool["forward"][m] = "migrate" /\ Tool["compensation"][m] = "rollback"
    /\ Tool["forward"][d] = "deploy" /\ Tool["compensation"][d] = "restore"
    /\ \A s \in Steps :
          /\ pos[s] < pos[m] => Tool["forward"][s] = "precheck"
          /\ pos[s] > pos[d] => Tool["forward"][s] = "validate"

-----------------------------------------------------------------------------
(***************************************************************************)
(* Service v2 never runs on a database it cannot use, whatever is lost or  *)
(* repeated: deploy-v2 checks the schema, rollback checks the service, and *)
(* compensation restores the service before it rolls the schema back.      *)
(***************************************************************************)
ServiceNeverAheadOfSchema ==
    service = "v2" => schema = "v2" /\ layout # "plain" /\ layout # "dropped"

(***************************************************************************)
(* A compensated upgrade left the sandbox as it was before the upgrade.    *)
(***************************************************************************)
CompensatedRestoresBaseline ==
    run = "compensated" => service = "v1" /\ schema = "v1" /\ layout = "plain"

(***************************************************************************)
(* A succeeded upgrade runs service v2 on schema v2, and both effects are  *)
(* in the ledgers.                                                         *)
(***************************************************************************)
SucceededIsUpgraded ==
    run = "succeeded" =>
        /\ service = "v2" /\ schema = "v2" /\ layout = "wide"
        /\ \A s \in Compensable : effects["forward"][s] > 0

(***************************************************************************)
(* What the ledgers hold is true of the sandbox: a recorded migration that *)
(* no rollback touched left schema v2, and a recorded rollback schema v1.  *)
(***************************************************************************)
LedgerTellsTheWorld ==
    \A s \in Steps :
        Tool["forward"][s] = "migrate" =>
            /\ (effects["forward"][s] > 0 /\ attempts["compensation"][s] = <<>>) =>
                   schema = "v2" /\ layout = "wide"
            /\ effects["compensation"][s] > 0 => schema = "v1" /\ layout = "plain"

(***************************************************************************)
(* The priority of an order, which only schema v2 can hold, is never       *)
(* discarded by a rollback.                                                *)
(***************************************************************************)
PrioritiesKept == [][orders \subseteq orders']_upgradeVars

(***************************************************************************)
(* A rejected upgrade ends as cancelled, never in compensation or manual   *)
(* intervention: OperationsService.decide_approval waits for nothing else  *)
(* after a rejection, also when the approval had been given, invalidated   *)
(* by a redeployment and asked for again.                                  *)
(***************************************************************************)
RejectedIsCancelled ==
    (\E i \in DOMAIN approvals : approvals[i].status = "rejected") => run = "cancelled"

(***************************************************************************)
(* When recovery learns that a tool's effect was not found, the effect is  *)
(* not there: the sandbox is as before the call.                           *)
(***************************************************************************)
Untouched(tool) ==
    CASE tool = "migrate"  -> layout = "plain"
      [] tool = "deploy"   -> service = "v1"
      [] tool = "restore"  -> service = "v2"
      [] tool = "rollback" -> schema = "v2" /\ layout = "wide"
      [] OTHER             -> TRUE

NotFoundMeansNoEffect ==
    \A r \in rq :
        "not_applied" \in Decisions(r) => Untouched(Tool[r.phase][r.step])
=============================================================================
