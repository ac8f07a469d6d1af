-------------------------- MODULE MCPlanValidation --------------------------
(***************************************************************************)
(* Drafts of three steps: a plain one, a migration the policies govern and *)
(* a check.  The second catalogue is stricter about the check.             *)
(***************************************************************************)
EXTENDS PlanValidation, TLC

Claim(tool, risk, asks, undo, cites, fit) ==
    [tool |-> tool, risk |-> risk, asks |-> asks, undo |-> undo,
     intends |-> undo # NoTool, cites |-> cites, argumentsFit |-> fit]

\* It names a compensation tool and no intent.
Unintended == [Claim("migrate", 0, FALSE, "rollback", {"runbook"}, TRUE) EXCEPT !.intends = FALSE]

MCClaims ==
    (1 :> {Claim("inspect", 0, FALSE, NoTool, {}, TRUE),
           Claim("nowhere", 1, TRUE, NoTool, {"gone"}, TRUE),
           Claim("inspect", 0, FALSE, "nowhere", {"note"}, TRUE)}
  @@ 2 :> {Claim("migrate", 0, FALSE, "rollback", {"runbook"}, TRUE),
           Claim("migrate", 2, FALSE, "rollback", {"runbook"}, FALSE),
           Claim("migrate", 1, FALSE, "nowhere", {"runbook"}, TRUE),
           Claim("migrate", 0, TRUE, "rollback", {"note"}, TRUE),
           Claim("migrate", 0, TRUE, "rollback", {"rival", "gone"}, TRUE),
           Claim("migrate", 2, FALSE, NoTool, {"runbook"}, TRUE),
           Unintended}
  @@ 3 :> {Claim("check", 0, FALSE, NoTool, {"runbook"}, TRUE)})

MCTools == {"inspect", "migrate", "rollback", "check"}

MCDescriptorRisk ==
    [t \in MCTools |-> IF t = "rollback" THEN 2 ELSE IF t = "migrate" THEN 1 ELSE 0]

MigratePolicy ==
    "migrate" :> [minimumRisk |-> 2, sideEffecting |-> TRUE, compensationRequired |-> TRUE]

CheckPolicy ==
    "check" :> [minimumRisk |-> 1, sideEffecting |-> FALSE, compensationRequired |-> FALSE]

MCPolicies == "v1" :> MigratePolicy @@ "v2" :> (MigratePolicy @@ CheckPolicy)

=============================================================================
