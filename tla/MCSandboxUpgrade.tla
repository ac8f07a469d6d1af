-------------------------- MODULE MCSandboxUpgrade --------------------------
(***************************************************************************)
(* The upgrade as a chain of four steps: upgrade.precheck, schema.migrate, *)
(* service.deploy-v2 and one validation step.                              *)
(***************************************************************************)
EXTENDS Guidance

Chain == [s \in Steps |-> {u \in Steps : u = s - 1}]

UpgradeTool ==
    [forward      |-> <<"precheck", "migrate", "deploy", "validate">>,
     compensation |-> <<"none", "rollback", "restore", "none">>]

Once == [s \in Steps |-> 1]

\* The instance is the upgrade the theorems of UpgradeProofs are about.
ASSUME InstanceAssumption ==
    \E pos \in [Steps -> 0..Cardinality(Steps)] : IsUpgrade(pos, 2, 3)

\* Inspections declare ToolIdempotency.NONE.
EffectsProbed == {2, 3} \X Phases
=============================================================================
