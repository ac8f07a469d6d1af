------------------------------- MODULE Sandbox -------------------------------
(***************************************************************************)
(* The change execution sandbox: the order service and its SQLite          *)
(* database, and the registered tools that upgrade and restore them        *)
(* (sandbox/adapters/tools.py, sandbox/adapters/sqlite.py,                 *)
(* sandbox/application/manager.py, orders.py and faults.py).               *)
(*                                                                         *)
(* A tool call is cut where it commits.  ALTER TABLE, and each statement   *)
(* of an executescript, commits on its own; the switch of the service      *)
(* version is a file replaced before the effect is recorded in the         *)
(* database.  A call is described by its stage and what it will report;    *)
(* "open" is a call that has not changed anything, "landed" one that has   *)
(* only to return, "done" one that has returned or raised.                 *)
(***************************************************************************)
EXTENDS Integers

VARIABLES
    service,   \* service_version in sandbox.json
    schema,    \* schema_version in sandbox_metadata
    layout,    \* the tables: orders as in v1 ("plain") or with priority
               \* ("wide"), with an orders_v1 beside it that is empty
               \* ("created") or filled ("copied"), or orders_v1 alone ("dropped")
    orders,    \* kinds of orders clients added to the baseline
    effects    \* rows of migration_ledger and tool_effects by phase and step,
               \* which make up the logical idempotency key

world == <<service, schema, layout, orders>>

Versions == {"v1", "v2"}

Priorities == {"standard", "express"}

SandboxTools == {"precheck", "migrate", "deploy", "validate", "restore", "rollback"}

Midway == {"altered", "switched", "created", "copied", "dropped", "renamed", "versioned"}

Stages == {"open", "landed", "done"} \cup Midway

Call == [stage : Stages, out : {"none", "effect", "noop", "permanent", "result_unknown",
                                "retryable"}]

SandboxTypeOK ==
    /\ service \in Versions
    /\ schema \in Versions
    /\ layout \in {"plain", "wide", "created", "copied", "dropped"}
    /\ orders \subseteq Priorities

\* SandboxManager.create, and initialize_v1.
SandboxInit ==
    /\ service = "v1"
    /\ schema = "v1"
    /\ layout = "plain"
    /\ orders = {}

-----------------------------------------------------------------------------
\* inspect() reads orders, and its priority in schema v2.
Inspectable == layout # "dropped" /\ (schema = "v2" => layout # "plain")

\* The database_fingerprint the plan was made for: version, columns and orders.
FingerprintExpected == schema = "v1" /\ layout = "plain" /\ orders = {}

\* OrderService.health
Healthy == service = "v2" => schema = "v2"

Recorded(key) == effects[key[1]][key[2]] > 0

Record(key) == effects' = [effects EXCEPT ![key[1]][key[2]] = 1]

Opened == [stage |-> "open", out |-> "none"]

At(stage, out) == [stage |-> stage, out |-> out]

Raised == At("done", "permanent")

(***************************************************************************)
(* upgrade.precheck, and service.health-check with service.smoke-test.     *)
(* Both only read; the smoke test lists orders, which inspect() read too.  *)
(***************************************************************************)
Reads(c, d, accepts) ==
    /\ c = Opened
    /\ d = IF accepts THEN At("done", "noop") ELSE Raised
    /\ UNCHANGED <<world, effects>>

Precheck(c, d) == Reads(c, d, Inspectable /\ service = "v1" /\ schema = "v1")

Validate(c, d) == Reads(c, d, Inspectable /\ Healthy)

(***************************************************************************)
(* A call that changes nothing: it returns what the ledger holds for its   *)
(* key, without an effect, or raises.  `reads' is what has to succeed      *)
(* before the ledger is looked at.                                         *)
(***************************************************************************)
Declines(key, reads, c, d) ==
    /\ c = Opened
    /\ d = IF reads /\ Recorded(key) THEN At("landed", "noop") ELSE Raised
    /\ UNCHANGED <<world, effects>>

MayMigrate(key) == Inspectable /\ ~Recorded(key) /\ FingerprintExpected

\* Mutant: the version is committed with the column, before the ledger row.
MigrateUnrecorded(key, c, d) ==
    \/ ~MayMigrate(key) /\ Declines(key, Inspectable, c, d)
    \/ /\ c = Opened
       /\ MayMigrate(key)
       /\ layout' = "wide"
       /\ schema' = "v2"
       /\ d = At("landed", "effect")
       /\ UNCHANGED <<service, orders, effects>>

\* Mutant: the ledger row is committed before the change it stands for.
MigrateRecordsFirst(key, c, d) ==
    \/ ~MayMigrate(key) /\ Declines(key, Inspectable, c, d)
    \/ /\ c = Opened
       /\ MayMigrate(key)
       /\ Record(key)
       /\ d = At("altered", "effect")
       /\ UNCHANGED world
    \/ /\ c = At("altered", "effect")
       /\ layout' = "wide"
       /\ schema' = "v2"
       /\ d = At("landed", "effect")
       /\ UNCHANGED <<service, orders, effects>>

(***************************************************************************)
(* schema.migrate: migrate_v1_to_v2 returns what the ledger holds for the  *)
(* key, requires schema v1 and the expected fingerprint, adds the column,  *)
(* and then commits the new version together with the ledger row.          *)
(***************************************************************************)
Migrate(key, c, d) ==
    \/ ~MayMigrate(key) /\ Declines(key, Inspectable, c, d)
    \/ /\ c = Opened
       /\ MayMigrate(key)
       /\ layout' = "wide"
       /\ d = At("altered", "effect")
       /\ UNCHANGED <<service, schema, orders, effects>>
    \/ /\ c = At("altered", "effect")
       /\ schema' = "v2"
       /\ Record(key)
       /\ d = At("landed", "effect")
       /\ UNCHANGED <<service, layout, orders>>

MaySwitch(key, target) ==
    /\ Inspectable
    /\ ~Recorded(key)
    /\ target = "v2" => schema = "v2"

(***************************************************************************)
(* service.deploy-v2 and service.restore: the service version is written   *)
(* first and the effect recorded afterwards, already_applied if the        *)
(* service was at the target before.                                       *)
(***************************************************************************)
SetService(key, target, c, d) ==
    \/ ~MaySwitch(key, target) /\ Declines(key, TRUE, c, d)
    \/ /\ c = Opened
       /\ MaySwitch(key, target)
       /\ service' = target
       /\ d = At("switched", IF service = target THEN "noop" ELSE "effect")
       /\ UNCHANGED <<schema, layout, orders, effects>>
    \/ /\ c.stage = "switched"
       /\ Record(key)
       /\ d = At("landed", c.out)
       /\ UNCHANGED world

\* Mutant: the service may still be at v2.
RollbackUnderV2(key) ==
    /\ Inspectable /\ ~Recorded(key)
    /\ schema = "v2"
    /\ "express" \notin orders
    /\ layout = "wide"

\* Mutant: orders with a priority of their own are not looked for.
RollbackUnchecked(key) ==
    /\ Inspectable /\ ~Recorded(key)
    /\ service = "v1" /\ schema = "v2"
    /\ layout = "wide"

\* What schema.rollback requires; CREATE TABLE fails if orders_v1 exists.
MayRollBack(key) ==
    /\ Inspectable /\ ~Recorded(key)
    /\ service = "v1" /\ schema = "v2"
    /\ "express" \notin orders
    /\ layout = "wide"

(***************************************************************************)
(* schema.rollback: the script rebuilds orders without its priority, one   *)
(* commit per statement, and the ledger row follows in a transaction of    *)
(* its own.                                                                *)
(***************************************************************************)
RollBack(key, c, d) ==
    \/ ~MayRollBack(key) /\ Declines(key, Inspectable /\ service = "v1", c, d)
    \/ /\ c = Opened
       /\ MayRollBack(key)
       /\ layout' = "created"
       /\ d = At("created", "effect")
       /\ UNCHANGED <<service, schema, orders, effects>>
    \/ /\ c = At("created", "effect")
       /\ layout' = "copied"
       /\ d = At("copied", "effect")
       /\ UNCHANGED <<service, schema, orders, effects>>
    \/ /\ c = At("copied", "effect")
       /\ layout' = "dropped"
       /\ d = At("dropped", "effect")
       /\ UNCHANGED <<service, schema, orders, effects>>
    \/ /\ c = At("dropped", "effect")
       /\ layout' = "plain"
       /\ orders' = orders \ {"express"}
       /\ d = At("renamed", "effect")
       /\ UNCHANGED <<service, schema, effects>>
    \/ /\ c = At("renamed", "effect")
       /\ schema' = "v1"
       /\ d = At("versioned", "effect")
       /\ UNCHANGED <<service, layout, orders, effects>>
    \/ /\ c = At("versioned", "effect")
       /\ Record(key)
       /\ d = At("landed", "effect")
       /\ UNCHANGED world

\* One step of the call c of a tool under a key, which makes it d.
Execute(tool, key, c, d) ==
    \/ tool = "precheck" /\ Precheck(c, d)
    \/ tool = "migrate"  /\ Migrate(key, c, d)
    \/ tool = "deploy"   /\ SetService(key, "v2", c, d)
    \/ tool = "validate" /\ Validate(c, d)
    \/ tool = "restore"  /\ SetService(key, "v1", c, d)
    \/ tool = "rollback" /\ RollBack(key, c, d)

(***************************************************************************)
(* FaultInjectingTool: a configured fault before the effect, after it, or  *)
(* instead of it.  Which call of which tool fails is read from             *)
(* faults.json; any choice is possible here.                               *)
(***************************************************************************)
InjectedFault(c, d) ==
    /\ \/ c = Opened /\ d = At("done", "result_unknown")
       \/ c = Opened /\ d = Raised
       \/ c.stage = "landed" /\ d = At("done", "result_unknown")
    /\ UNCHANGED <<world, effects>>

(***************************************************************************)
(* The database raises in the middle of a call, or when migrate and        *)
(* rollback inspect the sandbox once more: a permanent failure.            *)
(***************************************************************************)
DatabaseRaises(tool, c, d) ==
    /\ \/ c.stage \in Midway
       \/ c.stage = "landed" /\ tool \in {"migrate", "rollback"}
    /\ d = Raised
    /\ UNCHANGED <<world, effects>>

\* OrderService.create_order of a client: only service v2 takes a priority.
CreateOrder(priority) ==
    /\ Inspectable /\ Healthy
    /\ priority = "express" => service = "v2"
    /\ orders' = orders \cup {priority}
    /\ UNCHANGED <<service, schema, layout, effects>>
=============================================================================
