# A formal model of ChangePilot

ChangePilot plans a change to a small order service, runs it as a workflow of
tool calls, asks for approval before risky steps, survives crashes, and undoes
what it did when a step fails. This directory holds TLA+ modules that model its
planner, its workflow runtime, the sandbox it works on and the operations
service around them, the TLC configurations that check them, and TLAPS proofs. Paths below
are relative to `src/changepilot/` unless they start with `docs/`.

Contents: [1 Inventory](#1-inventory), [2 Plan](#2-plan),
[3 Modules and code](#3-modules-and-code), [4 Runs](#4-runs),
[5 Findings](#5-findings), [6 Proofs](#6-proofs),
[7 What is not modelled](#7-what-is-not-modelled).

## 1 Inventory

| component | state it keeps | operations | what makes it correct |
|---|---|---|---|
| `workflow/domain/states.py`, `runs.py` | state and revision of a run and of each step | `transition` | only transitions of the two tables happen |
| `workflow/application/scheduler.py` | none | `ready_steps`, `compensation_order` | dependencies first; compensation in reverse |
| `workflow/application/coordinator.py` | futures of tool calls; the database through units of work | `run_once`, `close` | one attempt at a time, outcomes recorded once, barrier before risky steps, compensation of everything done |
| `workflow/application/recovery.py` | the database | `recover_nonterminal_runs` | every unresolved attempt is decided, no effect happens twice |
| `workflow/application/approvals.py` | approval requests | `decide`, matching, invalidation | an approval authorises exactly what is executed; a rejection undoes what was done |
| `workflow/application/services.py` | whether the driver has started | `create_run`, `cancel_run`, `WorkflowDriver.start/run_once`, queries | recovery before dispatch |
| `workflow/adapters/persistence/` | tables, revisions, event sequences | snapshot units of work, in SQLite and in memory | lost updates are refused; event sequences are contiguous |
| `workflow/adapters/tools/fake.py`, `ports/tools.py`, `application/tooling.py` | a ledger of effects by idempotency key | `execute`, `probe`, `compensate` as an execution phase | a replay has no second effect |
| `workflow/domain/definitions.py`, `validation.py` | none | parse, digest, validate, `find_cycle` | accepted definitions are acyclic |
| `sandbox/` | the order database, deployed service, tool ledger, fault script | `migrate`, `rollback`, `deploy`, `restore`, `run_until` loops | the service never runs ahead of its database; what a ledger and a run say is true of the sandbox |
| `operations/` | a manifest of requests, one live runtime per run | `submit_request`, `decide_approval`, `recover`, reports | every run an operator acted on stays known; a refused command changes nothing; every operation ends |
| `planning/` | sessions, plans, retrieved knowledge, budgets | graph nodes, model gateway, tool calling, ingestion, retrieval | budgets hold, at most one repair, the validator and the definitions agree, only the latest validated plan of fresh knowledge is prepared |
| `evaluation/`, `console/`, `alembic/` | none of the program's core state | | not modelled |

**How they interact.** A caller (`sandbox/application/runtime.py: run_until`,
driven by the operations service) repeats `driver.run_once()`. Each call
collects finished futures, then makes a forward pass (promote retries, promote
steps whose dependencies succeeded, select, start attempts) or one compensation
step. Tool calls run in the coordinator's thread pool. Every read and write of
the database is a unit of work; between two of them anything else may happen.
Operators decide approvals and cancel runs through their own units of work. A
new process runs recovery (`driver.start()`) before its first `run_once`; the
operations service also calls `driver.start()` on a live runtime.

**What is hard.** Tool threads finish, fail, pass their deadline or take effect
late, in any order; the process may die or be closed between any two units of
work; an approval is checked in one unit of work and used in another; recovery
acts on a database several earlier processes left behind, while an abandoned
tool thread may still be running; forward and compensation attempts share their
numbers. Sandbox tools commit in several steps, some of them implicitly; the
operations service may die between a run and its manifest; planning tasks read
their numbers before they await the model and write them afterwards.
`PROJECT.json` lists these hazards line by line, with the properties
aimed at each.

## 2 Plan

| order | module | about | status |
|---|---|---|---|
| 1 | `WorkflowStates`, `Scheduler` | transition tables; the pure scheduling functions | done |
| 2 | `WorkflowRuntime`, `MCWorkflowRuntime` | coordinator, tools, recovery, approvals, process | done |
| 3 | `WorkflowRuntimeProofs` | types, dependency order, approvals | done |
| 4 | `UnitOfWork`, `MCUnitOfWork`, `UnitOfWorkProofs` | snapshot reads, optimistic revisions, commit, event sequences, for both adapters | done |
| 5 | `RunView`, `RunContract`, `RunRefinement` | what the callers of a run may rely on, implemented by `WorkflowRuntime` | done |
| 6 | `Sandbox`, `SandboxUpgrade`, `Guidance` | the sandbox's tools commit by commit, composed with the runtime; the stages shown to an operator | done |
| 7 | `Operations` | manifest, live runtimes, submit, decide and recover, over runs that keep `RunContract` | done |
| 8 | `PlanValidation`, `PlanValidationProofs` | `find_cycle`, the plan validator, the mapping to a definition | done |
| 9 | `Planning`, `PlanningProofs` | nodes, one repair, budgets, tool rounds, session and plan tables, two tasks at once | done |
| 10 | `AttemptProofs`, `EffectProofs` | attempts and futures, the approval barrier; effects in the outside world, the order of compensation, the refinement of `RunContract`, what the final states promise | done |
| 11 | `UpgradeProofs` | the upgrade on the sandbox's own tools, for any number of reading steps, faults and retries | done |
| 12 | `OperationsProofs` | the manifest and the runs of the operations service | done |

```
 Operations ──(runs are views)── RunView ── RunContract
                                    ▲  refined by RunRefinement
 Guidance ── SandboxUpgrade ── WorkflowRuntime ── Scheduler, WorkflowStates
                  │                 │ units of work are atomic
               Sandbox          UnitOfWork
 Planning ──(a draft is good, refused or malformed)── PlanValidation
```

Nothing is left on this plan. Section 6 lists what is proved, and the few
properties that stay with TLC.

## 3 Modules and code

**`WorkflowStates`** holds the two transition tables. A transition outside the
table raises `InvalidTransition`, which abandons the unit of work; in the model
the action that needs it is disabled, or an action of its own describes what the
exception leaves behind (`EndBatch`, `RecoveryRaises`, the second branch of
`EstablishApprovalBarrier`).

**`Scheduler`** translates `ready_steps` and `compensation_order` for any finite
acyclic dependency relation. Step ids are numbers, so that sorting by id is `<`,
and `definition.steps` is taken to be in the order of the ids.
`CompensationOrder` is a recursive function, not a RECURSIVE operator, so that
modules with theorems may use it.

**`WorkflowRuntime`** models one run. Its variables:

| variable | code |
|---|---|
| `run`, `step`, `seq` | `WorkflowRun.state`, `StepRun.state`, `StepRun.completion_sequence` (0 for `None`) |
| `attempts` | `StepAttempt` rows by phase, step and `attempt_no` (status, `effect_applied`, `error_class`) |
| `approvals` | `ApprovalRequest` rows in order of creation; the binding digest is a number |
| `binding` | the digest the current registry computes; a restart may change it |
| `threads` | `_owned_futures`, with how far the tool call has got; `persisted` is `outcome_persisted`, `orphan` a future of a closed coordinator |
| `effects` | the outside world: how often each phase of each step took effect |
| `pc`, `batch`, `rq` | where the process is: inside `run_once` with prepared attempts, inside recovery with unresolved attempts, idle, closing, down |
| `started` | `WorkflowDriver._started` |
| `faults` | bound on deadlines passed, replies lost, closes and crashes |

Its actions are the units of work of the code: `Collect` and `Expire`
(`_collect_outcomes`), `PromoteDueRetries`, `PromoteDependencyReadySteps`,
`SelectUnprotected`, `BarrierBlocks`, `SelectApproved`,
`EstablishApprovalBarrier`, `StartAttempt`, `SubmissionFails`, `EndBatch`
(`run_once`), `StartCompensation`,
`CompensationSubmissionFails` (`_run_compensation_once`), `Decide`, `CancelRun`,
`StartRecovery`, `RecoverApplied`, `RecoverNotApplied`, `RecoverManually`,
`RecoveryRaises`, `FinishRecovery` (`recovery.py`, `WorkflowDriver.start`),
`StartDriverAgain` (`operations/application/service.py: decide_approval`), `CloseWaiting`, `BeginClose`, `CloseOutcome`, `FinishClose` (`close`), and
`Crash` and `Restart`. Persisting an outcome is one operator,
`PersistOutcome`, with the code's lookup of the attempt by number alone.

Tools are modelled from `ports/tools.py`, `fake.py` and the way the coordinator
calls them: a call takes effect at some moment and returns later, or fails
before any effect, or its reply is lost. A tool that can be probed keeps a
ledger, so a replay of its key succeeds with `effect_applied` False.

Abstractions worth knowing:

- A unit of work is atomic: it reads and writes in one step. `UnitOfWork` is what
  this rests on: the rows a commit writes are still the ones it read. Rows that
  are only read may have changed. The one pair this concerns is `cancel_run`
  against a unit of work that reads the run and writes steps (starting an attempt
  of a running run, promoting steps); `cancel_run` reads no step, so the outcome
  is that of the other unit of work going first.
- With SQLite, `EstablishApprovalBarrier` raises when the request it replaces is
  still pending (section 5); the model follows the memory adapter, which replaces
  it.
- Time is choice: a backoff is over, or a deadline has passed, whenever the
  model says so. Deadlines count as faults to keep the model finite.
- A future still waiting in the executor's queue is an `open` thread that has
  not taken effect; `close(wait=False)` may cancel it.
- When `_persist_outcome` raises, the code also stops the forward pass
  (`collection_failed`). The model lets the pass go on, which allows more. In
  the runs below no outcome fails to be persisted: `OutcomeFindsItsAttempt` was
  checked on the instances of `chain` and `side` as well.
- `_handle_approval_barrier` and `_establish_approval_barrier` read the database
  several times; only a cancellation can come between, and the model has it come
  before or after.
- `LiveRecovery` allows `driver.start()` in a process that coordinates the run.
  The operations service does so in `recover`, for a run with a step in
  `result_unknown` (`StartRecovery`), and in `decide_approval`, for any run, also one
  whose loop gave up with a future in flight (`StartDriverAgain`). The runs switch
  it on for sequential workflows, the only ones that service has. After
  `StartDriverAgain` nobody collects the abandoned future: the service refuses the
  decision, since nothing waits for approval, and drives the run no further. The
  model lets the loop go on, which allows more. If `close()` later persists the
  outcome of such a future, the transition table refuses it for a forward attempt;
  for a compensation attempt it may write the outcome again, which is not modelled.

**`UnitOfWork`** models the persistence contract, with a constant that chooses
the adapter. Units of work are used once. Its variables:

| variable | code |
|---|---|
| `db` | the rows of the five tables of `schema.py` or the dictionaries of `MemoryStore`; a row is its revision, the units of work whose changes it contains, and whether it is a pending request |
| `log`, `lastSeq` | `audit_events` and `workflow_runs.last_event_sequence` (`MemoryStore.events`, `event_sequences`) |
| `phase`, `why` | `_committed`, `_rolled_back`, and the error a refused commit raised |
| `read`, `seen`, `base`, `loaded` | the `_Snapshot` as it was read, and how far the reading has got |
| `staged`, `new`, `dirty`, `appended` | the changed records, `new_*_keys`, `dirty_*_keys`, `pending_events` |
| `ops` | bound on repository calls |

`OpenMemory` copies the store under its lock. `LoadTable` is one of the seven
SELECTs of `_Snapshot.from_connection`: Python's `sqlite3` opens no transaction
for a SELECT, so other commits come between them, and a snapshot may hold a run
without its definition or a step newer than its run. (A driver that did read in
one transaction would only have fewer behaviours.) Each repository call is an
action; a call that raises changes nothing and is followed by `Exit`. `Commit`
is one step because it holds the write lock from `BEGIN IMMEDIATE` on;
`CommitRefused` and `CommitBusy` are its failures. The two adapters differ in
the snapshot, in repeated saves, in foreign keys and in how a second pending
request is found. An expected revision is the one that was read, as all callers
in `workflow/application/` pass it, and a saved request is no longer pending.
`Parent` gives steps, attempts and approvals the run or step they refer to; a run
has no foreign key to its definition, in the schema as in the model.
The primary key of `audit_events` is not a further objection because
`EventsContiguous` shows that it is never violated; the foreign key of an event
to its step is left out because callers only name steps of the run.

**`RunView`, `RunContract`, `RunRefinement`**. `RunView` describes a run as
`QueryService.get_run` shows it: its state, whether something is running or
unknown, whether an effect is still owed a compensation, whether an approval is in
force; and, as relations between two views, what the coordinator, an operator
and recovery may make of it. `RunContract` is the specification whose steps
are these relations. `RunRefinement` maps the state of `WorkflowRuntime` to a
view, and `KeepsContract` says that the runtime implements the contract.
`Operations` uses the same relations for the runs it drives, so it rests on
what the refinement shows.

**`Sandbox`** has the order database and the service file as variables
(`schema` is the stored version, `layout` the shape of the table, `orders` the
priorities of the orders clients created) and a tool call as a pair of stage and
result. `Execute` takes one call one commit further: `ALTER TABLE` in
`migrate_v1_to_v2` commits before the transaction of the version and the ledger
row, because Python's `sqlite3` opens a transaction for the `UPDATE` only;
`executescript` in `rollback_v2_to_v1` commits statement by statement;
`_ServiceVersionTool` writes a file and then the ledger. `layout` "dropped" is
the moment in which there is no table `orders`. `InjectedFault` is
`FaultInjectingTool` with every choice of `faults.json`; `DatabaseRaises` an
error in the middle.

**`SandboxUpgrade`** composes it with `WorkflowRuntime`: the tools of the runtime
are the sandbox's, a thread carries the stage of its call and dies with the
process, and `effects` are the rows of the ledgers, which probes read. The steps
are precheck, migrate-schema (high-risk), deploy-v2 and one validation standing
for health-check and smoke-test, which only read; the two parallel inspections
before the precheck only read as well and are folded into it. `IsUpgrade` states
the shape of the workflow that the theorems of section 6 need, with any number of
reading steps before the migration and after the deployment; `InstanceAssumption`
of `MCSandboxUpgrade` shows that the checked instance has it. The seed orders are left out of
`orders`; they all have the default priority. **`Guidance`** translates
`_guidance_stages` on the same state.

**`Operations`** holds one operation at a time, as the service's lock does.

| variable | code |
|---|---|
| `manifest`, `requests` | `operations.json` and `_requests` |
| `runs` | the run of each request, in its own database, as a `RunView` |
| `runtimes` | `_runtimes`: which runs have a live runtime, and whether its driver was started |
| `op` | the operation under the lock, how far it is, what its `run_until` loop waits for and in which cycle it is, and the run as the command found it |
| `scenario`, `unsaved`, `faults` | what each request asks for; requests whose manifest could not be written; bound on crashes, failed writes and exceptions |

`submit_request` is `SubmitUnusable` or `BeginSubmit`, then `PlanNotPrepared`,
`PlanningRaises` or `CreateRun`, the loop, `SubmitEnds`; `decide_approval` is
`BeginDecide`, `DriverStarts`, then `RefuseDecision` or `TakeDecision`, the loop,
`CommandEnds`; `recover` is `BeginRecover` and the same. `DriveFails` is a loop
out of cycles or an exception, `CloseRuntime` collects what is in flight.
`DriverStarts` recovers whatever is unresolved, in a live process too, as
`StartRecovery` and `StartDriverAgain` of `WorkflowRuntime` do.

**`PlanValidation`** is `find_cycle` as a recursive function over the number of
visited steps, compared with `Stuck`, the largest set of steps that wait for each
other, `PlanValidator` with one operator per issue, the catalogue of
policies as a constant by version, `from_mapping` as far as a payload the mapper
builds can fail it, and the coordinator's `_requires_approval` on the result. A
compensation that is required needs both an intent and a registered tool. Its
three actions are the validation in the planning graph, a restart with other
policies, and `WorkflowDefinitionMapper.prepare`.

**`Planning`** is one session with two tasks, each a call of `start` or `answer`
of `AsyncPlanningService`. Tables are sequences by `attempt_no` and `version`; a
digest is the set of documents it was calculated from. A task is cut at every
`await` and between nodes, which the graph runs on executor threads; what the
event loop runs without an await is one step to other tasks, but not to a crash
(`CrashWhileSaving`). The gateway and its budget are shared by the tasks of a
process and lost with it. Its cache is keyed by what the request holds; a repair
adds the invalid payload and its errors, which are told apart by the kind of
draft (`Malformed` has two).

## 4 Runs

`tlc -workers 2 -config X.cfg M`, with the module and configuration
`PROJECT.json` names. The workflows of the runtime have three steps: the chain
has the shape of the order-service upgrade, the join and the side step are the
smallest graphs in which steps run side by side and in which a step becomes
ready while another is in flight. Two faults are enough for a fault during the
recovery from another; two attempts for a retry and the last attempt; one change
of binding for a stale approval.

| run | instance | checks |
|---|---|---|
| `chain` | 1 <- 2 <- 3, step 2 high-risk, two attempts, two faults, live recovery, one redeployment | `TypeOK`; `DependencyOrder`; `OneForwardAttempt`: only the latest attempt of a running step runs, and a running step has one; `CompensatedUndoesAll` and `FailedLeavesNothing`: what `compensated` and `failed` promise about the outside world when steps run one at a time; `KeepsContract`: the runtime implements `RunContract` |
| `join` | {1, 2} <- 3, two workers, step 2 not probeable, late effects | `AtMostOnceEffect`: no tool takes effect twice, late threads included; `OutcomeFindsItsAttempt`: a future to be collected belongs to a running attempt its number leads to; `RecoveryLeavesNothing`: after recovery every running attempt has a future; `CompensationHasWork`: compensating, decided while the other step is in flight, always has an effect to undo |
| `side` | 1 <- 3 with 2 on the side, steps 2 and 3 high-risk, two workers, two attempts, one fault, one redeployment, fair | `ApprovalBarrier`: a waiting run has exactly one request and nothing in flight or unknown, though the barrier of one step invalidates the request of the other, granted or not; `ProtectedStartsApproved`: nor does an approval of one step, or of an old binding, let another start; `DependentsCompensatedFirst`; `AlwaysRests`: again and again the run is over, waits for approval or shows an unknown result |
| `sqlite` | one run with a step, an attempt and two requests, from an empty or a filled database; two units of work of three calls each | `EventsContiguous`; `OnePending`; `EventsListedInOrder`: nothing that was read is numbered like something staged, although the snapshot is torn; `DisjointCommitsMerge`: only a shared row makes commits conflict; `NoLostUpdate` |
| `memory` | the same | `OnePending`, and `PendingIsReplaced`: a commit refused for a second pending request left one alone that it had read, added two itself, or was overtaken by another change of the requests |
| `sandbox` | the four steps of the upgrade, two faults, one redeployment, clients with both priorities | `ServiceNeverAheadOfSchema`; `CompensatedRestoresBaseline` and `SucceededIsUpgraded`: what the end of a run says about the sandbox; `LedgerTellsTheWorld`: what recovery will be told is true; `PrioritiesKept`: no rollback discards data; `RejectedIsCancelled`: the only state `decide_approval` waits for after a rejection is the one a rejected upgrade reaches; `StagesAreTrue`: guidance never shows progress that was not made |
| `operations` | a usable and an unusable request, all scenarios, loops of three cycles, two faults, fair | `PlanReadyWasDriven`: a stored plan has a run that reached its approval or its end; `ApprovedIsKnown`: a run with an approval is in the manifest, unless its write failed; `RefusedRecoveryChangesNothing`; `OperationsEnd`: the lock is always given back |
| `validation` | every graph of three steps with dependencies on each other, themselves and a stranger, claims with every disagreement with the policies, two catalogues, at most two edges in a workflow | `CycleFound`: `find_cycle` reports exactly the steps that are on a cycle or behind one; `PreparedIsGoverned`: what is prepared satisfies the policies in force at that moment and asks approval for all of high risk; `ReadyIsPrepared`: a validated plan is refused later only for new policies, the limits of a workflow, or an unregistered compensation tool no policy asked for |
| `planning` | two tasks, a complete and a partial request, three documents of which two conflict, two calls, one token, one retry, one tool round, a crash | `StatusMatchesAttempt`; `EvidenceIsDated`: a plan cites only documents its digest covers; `BudgetKept`; `PreparedIsLatestResult`: only the plan of the latest, ready attempt is ever prepared, with the knowledge it was made from; `PlanningAdvances`: every step of a task lowers what it may still do |

The workflow and sandbox runs check for deadlock: a run that is over, or waits
for an operator, still has steps. The others may stop: a service nobody calls, a
session with all attempts made, a plan that was prepared. The type invariants of
the other modules (`UnitOfWork!TypeOK`, `UpgradeTypeOK`, `OpsTypeOK`,
`ValidationTypeOK`, `PlanningTypeOK`) hold on the same instances; adding them to
a configuration is all it takes to check them.

Bounds. Two units of work are what a conflict takes, and three calls allow a
save, an add and an event in one. Units of work, and planning tasks, are
interchangeable and the properties checked there are safety properties, so
symmetry is sound. Three cycles of a `run_until` loop let it dispatch, collect
and ask for approval, and also let it run out with an attempt in flight; the
code has 400. Two planning tasks are what it takes for one to overtake another;
`plan_change_async` itself makes one gateway and one task per request, and then
calls stay within `max_calls` exactly. With a shared gateway, which
`AsyncPlanningService` permits, calls may exceed it by one less than the tasks,
because a retry is checked before its sleep: `BudgetKept` says no more than
that. `side` keeps `ApprovalBarrier` and `ProtectedStartsApproved` with two faults, and `KeepsContract`
holds on the join with one fault too.

**Fairness.** In `side`: `RunOnce` is weakly fair and collecting is strongly
fair because `run_until` repeats `run_once`, which starts with
`_collect_outcomes`. Promoting each due retry is strongly fair because the clock
passes every backoff. Tool calls end (the tool contract asks for a deadline of
its own), a process that is down is restarted, and a started process finishes
recovery. Nothing is assumed of operators, faults, or late threads. In
`operations`: the thread that holds the lock goes on, that is, the steps of the
current operation are weakly fair. `PlanningAdvances` needs no fairness: it is a
variant, from which termination follows for tasks that take steps.

## 5 Findings

Three runs are expected to find a violation. The design document is
`docs/superpowers/specs/2026-07-16-reliable-workflow-core-design.md`, the core document
`docs/en/architecture/reliable-workflow-core.md`.

| run | what the code does | what is said |
|---|---|---|
| `side_compensated` | recovery that confirms a forward attempt of a compensating run ends the run as compensated (`recovery.py:288`) | design :148, all required compensations succeeded |
| `sandbox_not_found` | a crash after the `ALTER TABLE` of a migration leaves the column without a ledger row; the probe reads the ledger alone and answers not_found (`sandbox/adapters/sqlite.py:179`, `tools.py:199`), and the retry fails on the fingerprint | `docs/en/architecture/change-execution-sandbox.md:90`, recovery uses the actual sandbox state too |
| `operations_conflict` | `decide_approval` runs recovery before it refuses a stale decision (`service.py:347`) | `docs/en/architecture/operations-console-and-evaluation.md:41`, a conflict leaves the state unchanged |

The modules state more of what the documentation says and the code does not
keep. Each has a configuration with the smallest instance on which TLC finds the
violation within seconds: four steps for the first, of which the second and the
fourth have no effect; the chain, the join, one planning task or the instance of
`sqlite` for the others. They are kept beside the runs, for
`MCWorkflowRuntime`, `MCUnitOfWork` and `MCPlanning`.

| configuration and property | what the code does | what is said |
|---|---|---|
| `MCChainOrder.cfg`: `ReverseDependencyOrder` | compensation looks at direct dependents that are left to undo, so a step without an effect hides the order of its neighbours (`scheduler.py:59`); `completion_sequence`, which then decides, is left empty by recovery (`recovery.py:228`) | `scheduler.py:39` and core document :83, reverse dependency order |
| `MCRejection.cfg`: `RejectionCompensates` | `_rejection_target` counts effects of attempts with status "success"; recovery stores "succeeded" (`approvals.py:358`), so the run is cancelled | design :297, a rejection with effects to restore compensates |
| `MCCancelled.cfg`: `CancelledLeavesNothing` | `cancel_run` accepts a run whose steps took effect, and nothing undoes them (`services.py:155`) | design :149, cancelled before side effects |
| `MCJoinFailed.cfg`: `FailedLeavesNothing` | failed is decided while another step is in flight, whose effect is then never undone (`coordinator.py:1041`) | design :146, compensation is not needed or cannot start |
| `MCJoinManual.cfg`: `ManualLeavesNothingUnknown` | the second attempt that cannot be proven makes `start()` raise, because the run is already in `manual_intervention`; its step stays `running` in a run that is over (`recovery.py:354`) | core document :61, what is unknown moves the run and the step to manual intervention |
| `MCSqliteReplaced.cfg`: `PendingIsReplaced` | new requests are inserted before old ones are updated, and the index on pending requests is checked by each INSERT (`workflow/adapters/persistence/sqlite.py:1107`), so a pending request whose binding changed is never replaced; over memory it is | core document :72, a changed binding invalidates the old approval and requires a new request |
| `MCPlanningSnapshot.cfg`: `NoSilentSelection` | a document ingested between the conflict check and the snapshot is in the digest of a plan, and was never checked for conflicts (`retrieval.py:113`) | `docs/en/architecture/agent-planning-and-knowledge.md:93`, conflicting policies produce clarification rather than silent selection |

`KeepsContract` on the side step shows the defect of `side_compensated` once more.

Consequences of assumptions, rather than findings:

- With `LateEffects = TRUE` the chain violates `CompensatedUndoesAll`: an effect
  that lands after a probe answered not-found makes the retry a replay that
  reports no effect (`recovery.py:139`, `fake.py:97`), and compensation ignores the
  step. In the sandbox a late deployment can then put service v2 on schema v1. The
  tool contract asks tools to respect their deadline.
- A crash while an approved run is driven leaves it running; no command continues
  it unless a step is in `result_unknown`.
- A rejected draft is cached, so the same request on the same knowledge gets it
  again; tokens of failed or refused conversations are not counted; a session that
  a crash left in `planning` stays there until the next answer.
- `approval_required` on a step of low risk is lost in the mapping
  (`mapping.py:46`): the runtime asks by risk. `find_cycle` names steps behind a
  cycle too, so the step it blames may not be on one. The validator does not know
  `MAX_STEPS` and `MAX_EDGES`, which `from_mapping` enforces.

## 6 Proofs

`tlapm WorkflowRuntimeProofs.tla` checks three theorems, for every finite
acyclic definition, every number of workers, attempts, faults and redeployments,
from the named assumptions on the constants (`StepsAssumption`,
`DependsOnAssumption`, `CompensableAssumption`, `AcyclicAssumption`,
`ParametersAssumption`), which TLC evaluates in every run.

- **`TypeCorrect`**: `Spec => []TypeOK`. The type invariant is not inductive by
  itself. The next `completion_sequence` is a maximum, which exists because
  sequences are bounded (`SeqBounded`; `BoundedMax` proves that a bounded
  nonempty set of numbers has one). Recovery copies fields of the attempts in its
  queue, so `QueueInv` says that they exist and that the queue is empty outside
  recovery. One lemma per group of actions; `PersistOutcomeType` is shared by
  collecting, expiring and closing.
- **`DependenciesRespected`**: `Spec => []DependencyOrder`. Recovery moves a step
  to `ready` from any state the table allows, `pending` included. `AttemptedInv`
  (a pending step has no attempt) together with `QueueInv` rules that out. Every
  action is shown to be `Orderly`: `succeeded` is final, `pending` is left only
  with met dependencies and never entered.
- **`ApprovalsHold`**: `Spec => ProtectedStartsApproved`, an action property. The
  approval is checked when the batch is chosen and used when the attempt starts.
  `BatchInv` carries it across the units of work between: a batch with a
  high-risk step holds nothing else, its approval still binds the current digest,
  and no step is running or unknown. `NextNumbers` shows that only
  `StartAttempt` and `SubmissionFails` add a forward attempt.

`AttemptProofs` and `EffectProofs` extend it one after the other. Their lemmas are
about `AnySpec`, the runtime with tools that may move the future of a call in any
way its state machine allows; `SpecIsAny` carries them to `Spec`, and `UpgradeIsAny`
(in `UpgradeProofs`) to the composition with the sandbox. Their theorems have two
hypotheses beyond the assumptions on the constants, named in each theorem that
needs them:

- `RecoveryAlone`: recovery runs in a new process, or the steps form a chain.
  `driver.start()` in a process that coordinates the run, as the operations
  service calls it (`StartRecovery`, `StartDriverAgain`), queues every running
  attempt, those of its own futures too. The only runs of that service are
  upgrades, whose steps are done one after the other from the precheck on (the two
  inspections before it only read), so that at most one step has an attempt to
  resolve. The hypothesis cannot be dropped: with
  `LiveRecovery` on, TLC violates `OutcomeFindsItsAttempt` on the join in twelve
  steps, when an attempt that still runs is resolved by recovery.
- `Chained`: the steps form a chain. `KeepsContract` and what the final states
  promise need it; `side_compensated` (section 5) is the counterexample without
  it. `LateEffects = FALSE`, for the final states only, says that a tool call
  keeps its deadline; section 5 says what happens otherwise.

The inductive invariants (`AttemptInv`, `CompletionInv`, `BarrierInv`,
`EffectInv`; on the chain also `AccountInv`, `QuietInv`, `EndInv`) were checked by
TLC on the instances of `chain`, `join` and `side` before they were proved.

- **`OneAttemptAtATime`**: `Spec => []OneForwardAttempt`, and
  **`OutcomesFindAttempts`**: `Spec => []OutcomeFindsItsAttempt`. Neither is
  inductive: a future is collected into the attempt its number leads to, which is
  right only while the attempt of every owned future still runs and no step has
  two (`OwnedInv`), while the queue of recovery holds a step once and never one
  with a future (`RecoverInv`, `ProcessInv`), and while compensations start in a
  drained run, on steps that succeeded (`CompensationInv`). `ChainInv` says what
  makes live recovery safe: before the one step under way all have succeeded.
- **`RecoveryIsComplete`**: `Spec => []RecoveryLeavesNothing`. `CompletionInv` adds
  that every running attempt is owned or still queued: `StartRecovery` takes all
  of them (`RecoveryTakesAll`), and each decision ends the one it dequeues.
- **`BarrierHolds`**: `Spec => []ApprovalBarrier`. `WaitingInv` relates the state of
  the run to the approvals table, with `CycleInv` for what `run_once` has checked
  before it gets to the barrier.
- **`CompensationNeverIdle`**: `Spec => []CompensationHasWork`. Every way into
  `compensating` finds an effect to undo, and the work ends only together with
  the state (`EntryHasWork`, `WorkRemains`).
- **`DependentsAreFirst`**: `Spec => DependentsCompensatedFirst`, for every acyclic
  definition and without further hypotheses: a compensation starts only when every
  effect of a step that depends on it is undone, directly or through steps that
  have effects to undo themselves (`EffectDependents`, the least such set). A dependency
  through a step without such an effect is not covered, and `MCChainOrder.cfg` shows that
  the code does not respect it. `CompensationOrder` is a recursive
  function on sets of steps. `OrderExists` shows that the recursion has a solution
  and `OrderIsGood` that it lists every step, each after those that depend on it;
  both by induction on the size of the set. The induction theorems of the
  library take an operator; `SetInduction`, from `WFMin`, takes a set of numbers
  instead, which the provers can use. `LeavesExist` is where acyclicity enters.
- **`NoEffectTwice`**: `Spec => []AtMostOnceEffect`, with late effects too. A tool
  that can be probed has its ledger. For one that cannot, `UnprobedInv` says that
  a call that may still take effect is the only one of its step, and
  `UnprobedForwardInv` and `UnprobedCompensationInv` that a step which may be
  started again has had no effect and has no thread left anywhere.
- **`ContractKept`**: `Spec => KeepsContract`, the refinement, step by step: every
  action of the runtime maps to a step of `RunContract` or leaves the view as it
  is. `QuietInv` is what a chain adds: a run that failed or compensates has no
  step in flight, effects are undone one after the other.
- **`CompensationUndoes`** and **`FailureLeavesNothing`**:
  `Spec => []CompensatedUndoesAll` and `Spec => []FailedLeavesNothing`. These speak
  of the outside world, the code decides from its records. `AccountInv` relates
  the two through every call, reply, probe and crash: a step not under way has had
  no effect or a recorded one (`NoEffectYet`, `EffectKnown`), a compensation on
  record did undo (`UndoneInv`), and a call in flight is the one the record waits
  for (`ForwardCall`, `CompensationCall`). `EndInv` says that nothing is owed in a
  final state.

`tlapm UpgradeProofs.tla` checks nine theorems about the upgrade on the sandbox's
tools, commit by commit, for any number of faults, attempts, crashes, orders and
reading steps. `Upgrade` is the hypothesis that the workflow has the shape
`IsUpgrade`: a chain in which the migration, the one high-risk step, comes after a
precheck and directly before the deployment, and every other step only reads.
`LateEffects = FALSE` again says that a tool call keeps its deadline; section 5
says what a late deployment does.

The properties relate service, schema and tables, which only tool calls change, to
what the run has on record. The inductive invariant has to follow a call through
its commits:

- `SoleCall`: on a chain one tool call is under way at a time, from `QuietInv` of
  the runtime, and none while recovery decides;
- `CallsInv`: what the call under way has done at each stage (`MigrateCall`,
  `DeployCall`, `RollbackCall`; `ReadCall` has done nothing);
- `WorldInv`: what the ledgers say about service, schema and tables, the
  moments between two commits of a call included;
- `LedgerInv`: what the record of the run says about the ledgers;
- `RunInv`: what the state of the run says about the migration: a pending request
  has it ready, a started one was granted, a compensation follows its success.

TLC checked `UpgradeInv` (the middle three) and `RunInv` on the instance of the run
`sandbox`, and with two attempts and three faults (four million states), before
they were proved.

- **`ServiceFitsSchema`**: `UpgradeSpec => []ServiceNeverAheadOfSchema`. The
  deployment switches the service only after the migration is in the ledger, and
  the rollback starts only after the service was restored.
- **`LedgerIsTrue`**: `UpgradeSpec => []LedgerTellsTheWorld`, the rows recovery
  probes. A row is written in the last commit of its call, so that no
  interrupted call leaves one.
- **`CompensationRestores`**: `UpgradeSpec => []CompensatedRestoresBaseline`. A
  compensated run had a successful migration (`RunInv`); `EndInv` says that it
  was undone, and the ledger of the rollback that the baseline is back.
- **`SuccessUpgrades`**: `UpgradeSpec => []SucceededIsUpgraded`, also when recovery
  established a success by a probe.
- **`RejectionIsFinal`**: `UpgradeSpec => []RejectedIsCancelled`. While the request is
  pending only reading steps have succeeded, so that nothing is to be undone.
- **`GuidanceIsTrue`**: `UpgradeSpec => []StagesAreTrue`, from `ChainInv` and `RunInv`;
  late effects do not matter to it.
- **`PrioritiesSurvive`**: `UpgradeSpec => PrioritiesKept`, for every workflow.
  `PriorityInv` says that a rollback past its first check has found no express
  order and none was created since.
- **`UpgradeKeepsContract`** and **`UpgradeStartsApproved`**:
  `UpgradeSpec => KeepsContract` and `UpgradeSpec => ProtectedStartsApproved`. What
  the runtime promises with the tools of `WorkflowRuntime` it also promises with the
  sandbox's; the second needs no hypothesis.

`tlapm UnitOfWorkProofs.tla` checks six theorems, five of them for either adapter, any tables
and any set of units of work, from `StoreAssumption`. They share the inductive
invariant `IInv`, which TLC confirmed on the instances of `sqlite` and `memory`.

- **`UpdatesKept`**: `Spec => NoLostUpdate`. A commit compares revisions, but what
  has to agree is rows. `ReadIsPast` says that a row that was read is a past row
  of the table, and the present one if the revision is the same; `StagedExtendsRead`
  that a saved row extends the row that was read; `MissingIsEmpty` covers inserts.
  `CommitExtends` puts them together.
- **`SequencesContiguous`**: `Spec => []EventsContiguous`. SQLite inserts a run with
  the sequence of the snapshot, so `SnapshotsLag` and `MissingRunsSilent` are
  needed to know that it is 0. `CommitSequences` computes what a commit publishes.
- **`SinglePending`**: `Spec => []OnePending`. For SQLite from the index on what is
  inserted, and from saved requests not being pending; for memory from the check
  of the merged table.
- **`ListingsOrdered`**: `Spec => []EventsListedInOrder`, from `SeenBeforeBase`,
  which holds because the events are read before the sequences.
- **`RefusalsHaveAuthors`**: `Spec => []DisjointCommitsMerge`. `AuthorInv` adds that
  a row read by a unit of work that has not committed is the present row of the
  table, or another unit of work has committed a change of it since
  (`ReadIsPresent`). A torn snapshot refuses nothing either.

- **`RequestsAreReplaced`**: `Spec => []PendingIsReplaced` for the memory adapter, the
  counterpart of `MCSqliteReplaced.cfg`. `PendingIsOver` says that a unit of work
  refused for it is rolled back and stages nothing more; from `AuthorInv`, a pending request
  it had not read is one another unit of work committed meanwhile.

`tlapm PlanningProofs.tla` checks six theorems about a session, for any finite set
of tasks, any documents, budgets and bounds, from `PlanningAssumption`. Their
invariant `PlanningInv` was confirmed by TLC on the instance of `planning`.

- **`PlanningTyped`**: `PlanningSpec => []PlanningTypeOK`.
- **`BudgetHolds`**: `PlanningSpec => []BudgetKept`. A step of one task is
  `Budgeted`: it starts sleeping, or calls without having slept, only while a call
  is left, and then a task that is awake bounds the sleepers (`SleepersBounded`,
  `SleeperWakes`, from the theorems on cardinalities).
- **`StatusTold`**: `PlanningSpec => []StatusMatchesAttempt`.
- **`EvidenceCovered`**: `PlanningSpec => []EvidenceIsDated`. `Dated` carries what
  was found across the awaits: it is still in the store when the snapshot is taken,
  and covered by the digest afterwards.
- **`PreparedLatest`**: `PlanningSpec => PreparedIsLatestResult`. Numbers are read
  before the model is awaited. `Numbered` says that a task whose attempt number is
  still free has a free version too, so a plan is never skipped for a version
  another task took, and `LatestAgree` that the latest plan is the one the latest
  attempt announced, if it announced that version; a crash between `save_attempt`
  and `save_plan` leaves a version no plan has.
- **`PlanningTerminates`**: `PlanningSpec => PlanningAdvances`. The variant is a
  number whose digits are repair, phase, retries and turns; `RestBounded` shows
  that the lower digits never carry.

`tlapm OperationsProofs.tla` checks four theorems about the operations service, for
any requests, loop limits and number of faults. `OpsInv` was checked by TLC on the
instance of `operations`.

- **`OpsTypeCorrect`**: `OpsSpec => []OpsTypeOK`.
- **`StoredRunsWereDriven`**: `OpsSpec => []PlanReadyWasDriven`, and
  **`ApprovedRunsAreKnown`**: `OpsSpec => []ApprovedIsKnown`. They hold together: a
  `plan_ready` request has a driven run because `submit_request` waited for it
  (`DrivenInv`), what a run was driven to is never taken back by the relations of
  `RunView`, and only a stored request can be decided (`OpInv`).
- **`RefusedRecoveryIsHarmless`**: `OpsSpec => []RefusedRecoveryChangesNothing`.

`tlapm PlanValidationProofs.tla` checks five theorems, for any draft over any
finite set of steps, any tools and any catalogue of policies, from
`ValidationAssumption`. TLC confirmed `ValidationInv` on the instance of
`validation`.

- **`CycleIsStuck`**: `FindCycle(deps) = Stuck(deps)` for any dependencies among
  any finite number of steps. `Explored` is the invariant of the search: the queue
  lists, without repeats, the unvisited steps that wait for no unvisited one,
  `degree` counts what each step still waits for, and no set of steps that wait
  for each other meets what was visited. `VisitExplores` is one turn of the loop,
  `SearchEnds` the induction over the turns, by `SetInduction` as for
  `compensation_order`. When the queue is empty, the steps left wait for each
  other, so they are the largest such set. `OrderedLists` is what `sorted` promises.
- **`CyclesFound`**: `ValidationSpec => []CycleFound`, from it.
- **`PreparedObeys`**: `ValidationSpec => []PreparedIsGoverned`, and
  **`ReadyPlansPrepare`**: `ValidationSpec => ReadyIsPrepared`. `PlanInv` says that
  the claims of a plan were raised from the draft's and obey the catalogue of the
  version the plan carries, which may not be the one in force. `NormalizedObeys`
  is one validation; `ObeysHasNoIssue` is why a second one under the same
  catalogue finds nothing and changes no risk.
- **`ValidationTyped`**: `ValidationSpec => []ValidationTypeOK`.

Proving found CASE expressions in the model whose guards overlapped, which TLC
settles by taking the first and the logic leaves open: the attempts
`Unresolved` returns, the stages of `Guidance` and `DecisionGoal`. They now
say in which order the code decides. `NextCompensation` picks the first pending
element by its index, so that the result of the recursion can be used. And
`ReadyIsPrepared` needed the limits of a workflow as a reason to refuse a plan.

Only model-checked, with the reason:

- `AlwaysRests` and `OperationsEnd`: liveness under fairness is out of the prover's
  reach.

The properties of section 5 are violated, so there is nothing to prove about them.

## 7 What is not modelled

- Several runs at once in one coordinator: futures are keyed by run everywhere,
  and only the capacity of the executor is shared, which futures past their deadline
  of one run can take from another (`coordinator.py:414`).
- The content of audit events, the conversion of records to JSON and back, and
  approval rows of the legacy format.
- Redaction, argument coercion, digests and DTOs: data that no property tells
  apart. A binding digest is a number that changes when the binding changes.
- `SandboxManager.reset` and the checks of paths and sandbox identities; the
  demo script; the HTTP adapter, whose handlers call one operation each.
- Ranking, embedding and chunking of knowledge; the deterministic mock model; the
  planning trace; reports and views other than the guidance stages.
- The synchronous planning service and gateway: the same steps without awaits, so
  their behaviours are those of one task at a time.
- Evaluation, console, migrations and scripts: they measure, display or set up
  what the other parts do.
