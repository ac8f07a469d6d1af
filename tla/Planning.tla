------------------------------ MODULE Planning ------------------------------
(***************************************************************************)
(* One planning session of AsyncPlanningService (planning/application):    *)
(* the graph of planning nodes, the budgeted model gateway and its tool    *)
(* rounds, the session's tables and the knowledge the plans rest on.       *)
(*                                                                         *)
(* A task is one call of `start' or `answer'.  The graph runs its nodes on *)
(* executor threads and awaits the model, so tasks interleave node by node *)
(* and call by call; what the event loop runs without an await (saving and *)
(* preparing) is one step to the other tasks, but not to a crash.          *)
(*                                                                         *)
(* A draft is what PlanValidation makes of it: "good", "refused" by the    *)
(* validator, or malformed for the schema, in one of two ways the request  *)
(* of a repair tells apart.  A digest is the set of documents it was       *)
(* calculated from.                                                        *)
(***************************************************************************)
EXTENDS Naturals, Sequences, FiniteSets

CONSTANTS
    Tasks,         \* the calls of start and answer
    Requests,      \* change requests
    Complete,      \* those with every required field
    Documents,     \* runbooks that may be ingested
    Initial,       \* those ingested before the session
    Rivals,        \* pairs of active documents with different rules for a key
    Costs,         \* tokens a response may take
    MaxCalls,      \* ModelBudget.max_calls
    MaxTokens,     \* ModelBudget.max_total_tokens
    MaxRetries,    \* max_retries of the gateway
    MaxToolRounds, \* max_tool_rounds
    MaxAttempts,   \* bound: attempts a session records
    MaxCrashes     \* bound: crashes of the process

Malformed == {"missing field", "bad field"}
Drafts == {"good", "refused"} \cup Malformed
None == "none"

ASSUME PlanningAssumption ==
    /\ IsFiniteSet(Tasks)
    /\ Complete \subseteq Requests /\ Initial \subseteq Documents
    /\ Rivals \subseteq SUBSET Documents
    /\ Costs \subseteq Nat /\ MaxCalls \in Nat \ {0} /\ MaxTokens \in Nat
    /\ MaxRetries \in Nat /\ MaxToolRounds \in Nat

VARIABLES
    knowledge,  \* the documents of the knowledge store
    session,    \* the session's row: request and status
    attempts,   \* planning_attempts, by attempt_no
    plans,      \* planning_plans, by version
    tasks,      \* where each task is
    gateway,    \* calls, tokens and cache of the process' model gateway
    crashes     \* crashes so far

planningVars == <<knowledge, session, attempts, plans, tasks, gateway, crashes>>

NoTask ==
    [phase |-> "idle", request |-> None, attempt |-> 0, version |-> 0,
     evidence |-> {}, digest |-> {}, repair |-> FALSE, retries |-> 0,
     round |-> 0, draft |-> None, result |-> None]

NewGateway == [calls |-> 0, tokens |-> 0, cache |-> {}]

Kinds == {"clarification_required", "plan_ready", "planning_rejected", "budget_exhausted"}

Init ==
    /\ knowledge = Initial
    /\ session = [request |-> None, status |-> None]
    /\ attempts = <<>>
    /\ plans = <<>>
    /\ tasks = [t \in Tasks |-> NoTask]
    /\ gateway = NewGateway
    /\ crashes = 0

Table == <<session, attempts, plans>>

-----------------------------------------------------------------------------
(***************************************************************************)
(* start and answer, up to the first await of _run_async.                  *)
(***************************************************************************)
Enter(t, r) ==
    tasks' = [tasks EXCEPT ![t] = [NoTask EXCEPT
        !.phase = "checking", !.request = r,
        !.attempt = Len(attempts) + 1, !.version = Len(plans) + 1]]

\* create_session fails on a session id that is taken.
Start(t) ==
    /\ tasks[t].phase = "idle"
    /\ session.status = None
    /\ \E r \in Requests :
           /\ session' = [request |-> r, status |-> "planning"]
           /\ Enter(t, r)
    /\ UNCHANGED <<knowledge, attempts, plans, gateway, crashes>>

Answer(t) ==
    /\ tasks[t].phase = "idle"
    /\ session.status # None
    /\ Len(attempts) < MaxAttempts
    /\ \E r \in Requests :
           /\ session' = [request |-> r, status |-> "planning"]
           /\ Enter(t, r)
    /\ UNCHANGED <<knowledge, attempts, plans, gateway, crashes>>

-----------------------------------------------------------------------------
(***************************************************************************)
(* The nodes of the graph.                                                 *)
(***************************************************************************)
Goes(t, phase) == tasks' = [tasks EXCEPT ![t].phase = phase]

\* A node puts a result into the state, and the graph ends.
Ends(t, kind) == tasks' = [tasks EXCEPT ![t].phase = "saving", ![t].result = kind]

\* normalize_request and check_required_context.
CheckContext(t) ==
    /\ tasks[t].phase = "checking"
    /\ IF tasks[t].request \in Complete THEN Goes(t, "searching")
                                        ELSE Ends(t, "clarification_required")
    /\ UNCHANGED <<knowledge, Table, gateway, crashes>>

\* retrieve_knowledge, first the searches of both indexes.
SearchKnowledge(t) ==
    /\ tasks[t].phase = "searching"
    /\ tasks' = [tasks EXCEPT ![t].phase = "snapshot", ![t].evidence = knowledge]
    /\ UNCHANGED <<knowledge, Table, gateway, crashes>>

Conflict(evidence) == \E pair \in Rivals : pair \subseteq evidence

\* Mutant: the snapshot that is kept is the one of the first ingestion.
TakeFirstSnapshot(t) ==
    /\ tasks[t].phase = "snapshot"
    /\ tasks' = [tasks EXCEPT
           ![t].digest = Initial,
           ![t].phase  = IF Conflict(tasks[t].evidence) THEN "saving" ELSE "generating",
           ![t].result = IF Conflict(tasks[t].evidence) THEN "clarification_required"
                                                        ELSE None]
    /\ UNCHANGED <<knowledge, Table, gateway, crashes>>

\* Then the snapshot of the store; conflicts among what was found are asked about.
TakeSnapshot(t) ==
    /\ tasks[t].phase = "snapshot"
    /\ tasks' = [tasks EXCEPT
           ![t].digest = knowledge,
           ![t].phase  = IF Conflict(tasks[t].evidence) THEN "saving" ELSE "generating",
           ![t].result = IF Conflict(tasks[t].evidence) THEN "clarification_required"
                                                        ELSE None]
    /\ UNCHANGED <<knowledge, Table, gateway, crashes>>

\* validate_plan and validate_repaired_plan: only a schema error is repaired,
\* and only once.
ValidatePayload(t) ==
    /\ tasks[t].phase = "validating"
    /\ \/ tasks[t].draft = "good"    /\ Ends(t, "plan_ready")
       \/ tasks[t].draft = "refused" /\ Ends(t, "planning_rejected")
       \/ /\ tasks[t].draft \in Malformed
          /\ IF tasks[t].repair
             THEN Ends(t, "planning_rejected")
             ELSE tasks' = [tasks EXCEPT ![t].phase = "generating", ![t].repair = TRUE]
    /\ UNCHANGED <<knowledge, Table, gateway, crashes>>

-----------------------------------------------------------------------------
(***************************************************************************)
(* AsyncBudgetedModelGateway.generate, cut at its awaits, around the tool  *)
(* rounds of AsyncToolCallingModelGateway.generate.  The request of a      *)
(* repair quotes the payload that was refused and what was wrong with it.  *)
(***************************************************************************)
CacheKey(t) ==
    [request  |-> tasks[t].request, version |-> tasks[t].version,
     evidence |-> tasks[t].evidence, digest |-> tasks[t].digest,
     invalid  |-> IF tasks[t].repair THEN tasks[t].draft ELSE None]

Cached(t) == {e \in gateway.cache : e.key = CacheKey(t)}

Exhausted == gateway.calls >= MaxCalls

\* The call that is made next: a new conversation, whatever came before.
Calls(t) ==
    /\ gateway' = [gateway EXCEPT !.calls = @ + 1]
    /\ tasks' = [tasks EXCEPT ![t].phase = "calling", ![t].round = 1]

Generate(t) ==
    /\ tasks[t].phase = "generating"
    /\ \/ \E e \in Cached(t) :
              /\ tasks' = [tasks EXCEPT ![t].phase = "validating", ![t].draft = e.draft]
              /\ UNCHANGED gateway
       \/ Cached(t) = {} /\ Exhausted  /\ Ends(t, "budget_exhausted") /\ UNCHANGED gateway
       \/ Cached(t) = {} /\ ~Exhausted /\ Calls(t)
    /\ UNCHANGED <<knowledge, Table, crashes>>

\* The model's turn asks for a tool, which reads and answers; no turn after the
\* last round may ask for another.
UseTool(t) ==
    /\ tasks[t].phase = "calling"
    /\ IF tasks[t].round > MaxToolRounds
       THEN Ends(t, "planning_rejected")
       ELSE tasks' = [tasks EXCEPT ![t].round = @ + 1]
    /\ UNCHANGED <<knowledge, Table, gateway, crashes>>

\* The provider refuses, a tool fails, or the answer is no JSON object.
FailPermanently(t) ==
    /\ tasks[t].phase = "calling"
    /\ Ends(t, "planning_rejected")
    /\ UNCHANGED <<knowledge, Table, gateway, crashes>>

\* Mutant: a retry does not look at the budget.
FailTransientlyUnbudgeted(t) ==
    /\ tasks[t].phase = "calling"
    /\ \/ tasks[t].retries >= MaxRetries /\ Ends(t, "planning_rejected")
       \/ /\ tasks[t].retries < MaxRetries
          /\ tasks' = [tasks EXCEPT ![t].phase = "sleeping", ![t].retries = @ + 1]
    /\ UNCHANGED <<knowledge, Table, gateway, crashes>>

\* Mutant: retries are not counted.
FailTransientlyUncounted(t) ==
    /\ tasks[t].phase = "calling"
    /\ \/ tasks[t].retries >= MaxRetries /\ Ends(t, "planning_rejected")
       \/ tasks[t].retries < MaxRetries /\ Exhausted /\ Ends(t, "budget_exhausted")
       \/ tasks[t].retries < MaxRetries /\ ~Exhausted /\ Goes(t, "sleeping")
    /\ UNCHANGED <<knowledge, Table, gateway, crashes>>

FailTransiently(t) ==
    /\ tasks[t].phase = "calling"
    /\ \/ tasks[t].retries >= MaxRetries /\ Ends(t, "planning_rejected")
       \/ tasks[t].retries < MaxRetries /\ Exhausted /\ Ends(t, "budget_exhausted")
       \/ /\ tasks[t].retries < MaxRetries /\ ~Exhausted
          /\ tasks' = [tasks EXCEPT ![t].phase = "sleeping", ![t].retries = @ + 1]
    /\ UNCHANGED <<knowledge, Table, gateway, crashes>>

\* After the sleep the call is made without looking at the budget again.
Wake(t) ==
    /\ tasks[t].phase = "sleeping"
    /\ Calls(t)
    /\ UNCHANGED <<knowledge, Table, crashes>>

\* The tokens of a response that does not fit are spent and not counted.
Respond(t) ==
    /\ tasks[t].phase = "calling"
    /\ \E cost \in Costs, draft \in Drafts :
           IF gateway.tokens + cost > MaxTokens
           THEN Ends(t, "budget_exhausted") /\ UNCHANGED gateway
           ELSE /\ gateway' = [gateway EXCEPT
                       !.tokens = @ + cost,
                       !.cache = (@ \ Cached(t)) \cup {[key |-> CacheKey(t), draft |-> draft]}]
                /\ tasks' = [tasks EXCEPT ![t].phase = "validating", ![t].draft = draft,
                                          ![t].retries = 0, ![t].round = 0]
    /\ UNCHANGED <<knowledge, Table, crashes>>

-----------------------------------------------------------------------------
(***************************************************************************)
(* The tables: save_attempt and save_plan, prepare_workflow.               *)
(***************************************************************************)
PlanOf(t) ==
    [request |-> tasks[t].request, version |-> tasks[t].version,
     evidence |-> tasks[t].evidence, digest |-> tasks[t].digest]

AttemptOf(t) == [kind |-> tasks[t].result, request |-> tasks[t].request, plan |-> PlanOf(t)]

\* Mutant: attempts are appended whatever number they were given.
AttemptNeverTaken(t) == FALSE

\* attempt_no is part of the primary key.
AttemptTaken(t) == tasks[t].attempt <= Len(attempts)

\* So are plan_id, which is the session's, and version.
PlanTaken(t) == tasks[t].version <= Len(plans)

\* Mutant: the session keeps the request the last answer wrote.
SaveAttemptKeepingRequest(t) ==
    /\ attempts' = Append(attempts, AttemptOf(t))
    /\ session' = [session EXCEPT !.status = tasks[t].result]

SaveAttempt(t) ==
    /\ attempts' = Append(attempts, AttemptOf(t))
    /\ session' = [request |-> tasks[t].request, status |-> tasks[t].result]

SavePlan(t) ==
    plans' = Append([v \in DOMAIN plans |->
                        [plans[v] EXCEPT !.status = IF @ = "ready" THEN "superseded" ELSE @]],
                    [plan |-> PlanOf(t), status |-> "ready"])

Leave(t) == tasks' = [tasks EXCEPT ![t] = NoTask]

Save(t) ==
    /\ tasks[t].phase = "saving"
    /\ ~AttemptTaken(t)
    /\ SaveAttempt(t)
    /\ IF tasks[t].result = "plan_ready" /\ ~PlanTaken(t) THEN SavePlan(t)
                                                        ELSE UNCHANGED plans
    /\ Leave(t)
    /\ UNCHANGED <<knowledge, gateway, crashes>>

\* The insert fails and the task raises.
SaveFails(t) ==
    /\ tasks[t].phase = "saving"
    /\ AttemptTaken(t)
    /\ Leave(t)
    /\ UNCHANGED <<knowledge, Table, gateway, crashes>>

PrepareWorkflow ==
    /\ plans # <<>>
    /\ LET plan   == plans[Len(plans)].plan
           result == attempts[Len(attempts)]
       IN  /\ result.kind = "plan_ready"
           /\ plan.version = result.plan.version
           /\ plan.digest = knowledge
    /\ plans' = [plans EXCEPT ![Len(plans)].status = "prepared"]
    /\ UNCHANGED <<knowledge, session, attempts, tasks, gateway, crashes>>

\* RunbookIngestionService.ingest of a new document; its identity is immutable,
\* so ingesting it again changes nothing.
Ingest ==
    /\ \E d \in Documents \ knowledge : knowledge' = knowledge \cup {d}
    /\ UNCHANGED <<Table, tasks, gateway, crashes>>

-----------------------------------------------------------------------------
Dies ==
    /\ crashes < MaxCrashes
    /\ crashes' = crashes + 1
    /\ tasks' = [t \in Tasks |-> NoTask]
    /\ gateway' = NewGateway

Crash ==
    /\ \E t \in Tasks : tasks[t].phase # "idle"
    /\ Dies
    /\ UNCHANGED <<knowledge, Table>>

\* Between the transactions of save_attempt and save_plan.
CrashWhileSaving(t) ==
    /\ tasks[t].phase = "saving" /\ tasks[t].result = "plan_ready"
    /\ ~AttemptTaken(t)
    /\ SaveAttempt(t)
    /\ Dies
    /\ UNCHANGED <<knowledge, plans>>

TaskStep(t) ==
    \/ CheckContext(t) \/ SearchKnowledge(t) \/ TakeSnapshot(t) \/ ValidatePayload(t)
    \/ Generate(t) \/ UseTool(t) \/ FailPermanently(t) \/ FailTransiently(t) \/ Wake(t)
    \/ Respond(t) \/ Save(t) \/ SaveFails(t)

Next ==
    \/ \E t \in Tasks : Start(t) \/ Answer(t) \/ TaskStep(t) \/ CrashWhileSaving(t)
    \/ PrepareWorkflow \/ Ingest \/ Crash

PlanningSpec == Init /\ [][Next]_planningVars

-----------------------------------------------------------------------------
Phases == {"idle", "checking", "searching", "snapshot", "generating", "calling",
           "sleeping", "validating", "saving"}

\* Type invariant.  A task that is about to save has a result, no other has;
\* attempt_no and version of the rows are their positions, and a conversation
\* takes no more turns than the tool rounds allow.
PlanningTypeOK ==
    /\ knowledge \subseteq Documents
    /\ session.request \in Requests \cup {None}
    /\ session.status \in Kinds \cup {None, "planning"}
    /\ \A t \in Tasks :
           /\ tasks[t].phase \in Phases
           /\ (tasks[t].phase = "saving") = (tasks[t].result \in Kinds)
           /\ tasks[t].retries <= MaxRetries
           /\ tasks[t].round <= MaxToolRounds + 1
    /\ \A v \in DOMAIN plans : plans[v].plan.version = v

\* A session whose status is a result holds that result of its latest attempt
\* and the very request it was made for, although a second answer may have
\* overwritten the request while the attempt was under way.
StatusMatchesAttempt ==
    session.status \in Kinds =>
        /\ attempts # <<>>
        /\ LET latest == attempts[Len(attempts)]
           IN  session.status = latest.kind /\ session.request = latest.request

\* prepare_workflow binds a definition to a plan only if that plan, with its
\* evidence, is the one the latest attempt announced, and the knowledge is the
\* one it was made from: not after a crash lost a newer plan, nor when two
\* answers raced for the same attempt and version.
PreparedIsLatestResult ==
    [][\A v \in DOMAIN plans :
          plans[v].status # "prepared" /\ plans'[v].status = "prepared" =>
              /\ attempts[Len(attempts)].kind = "plan_ready"
              /\ attempts[Len(attempts)].plan = plans[v].plan
              /\ plans[v].plan.digest = knowledge]_planningVars

\* The evidence of a plan is covered by the digest that dates it and is free of
\* conflicts, though documents arrive between the search and the snapshot.
EvidenceIsDated ==
    \A v \in DOMAIN plans :
        /\ plans[v].plan.evidence \subseteq plans[v].plan.digest
        /\ ~Conflict(plans[v].plan.evidence)

\* No plan is prepared from knowledge with conflicting policies: they are asked
\* about, not silently chosen from.
NoSilentSelection ==
    \A v \in DOMAIN plans :
        plans[v].status = "prepared" => ~Conflict(plans[v].plan.digest)

\* Whatever tasks share the gateway, the tokens counted fit the budget and the
\* calls exceed max_calls by no more than the retries that were sleeping when
\* the budget ran out: one for each task but one.
BudgetKept ==
    /\ gateway.tokens <= MaxTokens
    /\ gateway.calls + Cardinality({t \in Tasks : tasks[t].phase = "sleeping"})
           <= MaxCalls + Cardinality(Tasks) - 1

\* What is left to a task: a repair, the phases of the graph, retries, and the
\* turns of the conversation, each outweighing all that comes after it.
Turns == MaxToolRounds + 2
Weight(phase) ==
    CASE phase = "checking"   -> 7
      [] phase = "searching"  -> 6
      [] phase = "snapshot"   -> 5
      [] phase = "generating" -> 4
      [] phase \in {"calling", "sleeping"} -> 3
      [] phase = "validating" -> 2
      [] phase = "saving"     -> 1
      [] phase = "idle"       -> 0

Remaining(w) ==
    LET tries == MaxRetries + 1
    IN  (IF w.repair THEN 0 ELSE 8 * tries * Turns)
        + Weight(w.phase) * tries * Turns
        + (MaxRetries - w.retries) * Turns
        + (IF w.phase = "calling" THEN MaxToolRounds + 1 - w.round
           ELSE IF w.phase = "sleeping" THEN Turns - 1 ELSE 0)

\* Every step a task takes leaves less for it to do, so that retries, tool
\* rounds and the repair together are bounded and each call of start and answer
\* comes to an end.
PlanningAdvances ==
    [][\A t \in Tasks :
          tasks[t].phase # "idle" /\ tasks'[t] # tasks[t] =>
              \/ tasks'[t] = NoTask
              \/ Remaining(tasks'[t]) < Remaining(tasks[t])]_planningVars

=============================================================================
