--------------------------- MODULE PlanningProofs ---------------------------
(***************************************************************************)
(* Proofs about Planning for any finite set of tasks sharing a session and *)
(* a gateway, any knowledge, any budget and any number of crashes.         *)
(*                                                                         *)
(* A task reads its numbers, its evidence and its digest at one moment and *)
(* writes them at another.  TaskInv says what of them is still true in     *)
(* between, whatever the other tasks did.                                  *)
(***************************************************************************)
EXTENDS Planning, FiniteSetTheorems, TLAPS

TaskRecords ==
    [phase : Phases, request : Requests \cup {None}, attempt : Nat, version : Nat,
     evidence : SUBSET Documents, digest : SUBSET Documents, repair : BOOLEAN,
     retries : Nat, round : Nat, draft : Drafts \cup {None}, result : Kinds \cup {None}]

CacheKeys ==
    [request : Requests \cup {None}, version : Nat, evidence : SUBSET Documents,
     digest : SUBSET Documents, invalid : Drafts \cup {None}]

PlanRecords ==
    [request : Requests \cup {None}, version : Nat, evidence : SUBSET Documents,
     digest : SUBSET Documents]

AttemptRecords ==
    [kind : Kinds, request : Requests \cup {None}, plan : PlanRecords]

PlanRows == [plan : PlanRecords, status : {"ready", "superseded", "prepared"}]

Types ==
    /\ knowledge \in SUBSET Documents
    /\ session \in [request : Requests \cup {None}, status : Kinds \cup {None, "planning"}]
    /\ attempts \in Seq(AttemptRecords)
    /\ plans \in Seq(PlanRows)
    /\ tasks \in [Tasks -> TaskRecords]
    /\ gateway \in [calls : Nat, tokens : Nat, cache : SUBSET [key : CacheKeys, draft : Drafts]]

\* The phase, the counters and the result of a task agree.
Phased(w) ==
    /\ (w.phase = "saving") = (w.result \in Kinds)
    /\ w.retries <= MaxRetries
    /\ w.round <= MaxToolRounds + 1

\* What was found is still in the store when the snapshot is taken, and from
\* then on the digest covers it.
Dated(w) ==
    /\ w.phase = "snapshot" => w.evidence \subseteq knowledge
    /\ w.phase \in {"generating", "calling", "sleeping", "validating"}
           \/ w.result = "plan_ready" =>
           w.evidence \subseteq w.digest /\ ~Conflict(w.evidence)

\* A task whose attempt number is still free has a free version as well.
Numbered(w) ==
    w.phase # "idle" /\ Len(attempts) < w.attempt =>
        w.attempt = Len(attempts) + 1 /\ w.version = Len(plans) + 1

TaskInv == \A t \in Tasks : Phased(tasks[t]) /\ Dated(tasks[t]) /\ Numbered(tasks[t])

\* Versions are positions, and every plan was announced by an attempt.
PlanNumbers ==
    /\ \A v \in 1 .. Len(plans) : plans[v].plan.version = v
    /\ Len(plans) <= Len(attempts)

\* The latest plan is the one of the latest attempt, if that is the version the
\* attempt announced.
LatestAgree ==
    plans # <<>> =>
        LET plan   == plans[Len(plans)].plan
            result == attempts[Len(attempts)]
        IN  result.kind = "plan_ready" /\ plan.version = result.plan.version
                => plan = result.plan

PlanningInv ==
    /\ Types
    /\ TaskInv
    /\ PlanNumbers
    /\ LatestAgree
    /\ StatusMatchesAttempt
    /\ EvidenceIsDated
    /\ BudgetKept

-----------------------------------------------------------------------------
(***************************************************************************)
(* Steps that leave the tables alone.                                      *)
(***************************************************************************)

\* A task that starts sleeping had a call left; a call is made by a task that
\* slept or while one was left.
Budgeted(t) ==
    /\ gateway'.tokens <= MaxTokens
    /\ \/ /\ gateway'.calls = gateway.calls
          /\ tasks'[t].phase = "sleeping" => gateway.calls < MaxCalls
       \/ /\ gateway'.calls = gateway.calls + 1
          /\ tasks'[t].phase = "calling"
          /\ tasks[t].phase = "sleeping" \/ gateway.calls < MaxCalls

\* One task moves; the session at most begins another attempt.
Quiet(t) ==
    /\ UNCHANGED <<knowledge, attempts, plans>>
    /\ Types'
    /\ session' = session \/ session'.status = "planning"
    /\ \A u \in Tasks \ {t} : tasks'[u] = tasks[u]
    /\ Phased(tasks'[t]) /\ Dated(tasks'[t]) /\ Numbered(tasks'[t])
    /\ Budgeted(t)

\* The tasks that wait for a retry.
Sleepers == {u \in Tasks : tasks[u].phase = "sleeping"}

\* There are no more sleepers than tasks, and fewer if one is awake.
LEMMA SleepersBounded ==
    /\ Cardinality(Tasks) \in Nat /\ Cardinality(Sleepers) \in Nat
    /\ IsFiniteSet(Sleepers)
    /\ Cardinality(Sleepers) <= Cardinality(Tasks)
    /\ \A t \in Tasks : tasks[t].phase # "sleeping" =>
           Cardinality(Sleepers) <= Cardinality(Tasks) - 1
<1>1. IsFiniteSet(Tasks) /\ Cardinality(Tasks) \in Nat
  BY PlanningAssumption, FS_CardinalityType
<1>2. /\ IsFiniteSet(Sleepers) /\ Cardinality(Sleepers) \in Nat
      /\ Cardinality(Sleepers) <= Cardinality(Tasks)
  <2>1. Sleepers \in SUBSET Tasks
    BY DEF Sleepers
  <2> QED
    BY <1>1, <2>1, FS_Subset, FS_CardinalityType
<1>3. ASSUME NEW t \in Tasks, tasks[t].phase # "sleeping"
      PROVE  Cardinality(Sleepers) <= Cardinality(Tasks) - 1
  <2>1. /\ IsFiniteSet(Tasks \ {t})
        /\ Cardinality(Tasks \ {t}) = Cardinality(Tasks) - 1
    BY <1>1, FS_RemoveElement
  <2>2. Sleepers \in SUBSET (Tasks \ {t})
    BY <1>3 DEF Sleepers
  <2> QED
    BY <2>1, <2>2, FS_Subset
<1> QED
  BY <1>1, <1>2, <1>3

\* A task that sleeps no more leaves the sleepers.
LEMMA SleeperWakes ==
    ASSUME NEW t \in Tasks, \A u \in Tasks \ {t} : tasks'[u] = tasks[u],
           tasks'[t].phase # "sleeping"
    PROVE  /\ Cardinality(Sleepers') \in Nat
           /\ Cardinality(Sleepers') =
                  IF tasks[t].phase = "sleeping" THEN Cardinality(Sleepers) - 1
                                                 ELSE Cardinality(Sleepers)
<1>1. Sleepers' = Sleepers \ {t}
  BY DEF Sleepers
<1>2. t \in Sleepers <=> tasks[t].phase = "sleeping"
  BY DEF Sleepers
<1>3. IsFiniteSet(Sleepers) /\ Cardinality(Sleepers) \in Nat
  BY SleepersBounded
<1>4. /\ IsFiniteSet(Sleepers \ {t})
      /\ Cardinality(Sleepers \ {t}) = IF t \in Sleepers THEN Cardinality(Sleepers) - 1
                                                         ELSE Cardinality(Sleepers)
  BY <1>3, FS_RemoveElement
<1>5. Cardinality(Sleepers \ {t}) \in Nat
  BY <1>4, FS_CardinalityType
<1> QED
  BY <1>1, <1>2, <1>4, <1>5

\* A quiet step keeps the budget.
LEMMA QuietBudget ==
    ASSUME Types, BudgetKept, NEW t \in Tasks, Quiet(t)
    PROVE  BudgetKept'
<1>1. /\ gateway.calls \in Nat /\ gateway'.calls \in Nat
      /\ gateway.calls + Cardinality(Sleepers) <= MaxCalls + Cardinality(Tasks) - 1
  BY DEF Types, Quiet, BudgetKept, Sleepers
<1>2. SUFFICES gateway'.calls + Cardinality(Sleepers') <= MaxCalls + Cardinality(Tasks) - 1
  BY DEF Quiet, Budgeted, BudgetKept, Sleepers
<1>3. \A u \in Tasks \ {t} : tasks'[u] = tasks[u]
  BY DEF Quiet
<1>4. MaxCalls \in Nat
  BY PlanningAssumption
<1>5. CASE tasks'[t].phase = "sleeping"
  <2>1. gateway'.calls = gateway.calls /\ gateway.calls < MaxCalls
    BY <1>5 DEF Quiet, Budgeted
  <2>2. /\ Cardinality(Sleepers') \in Nat /\ Cardinality(Tasks) \in Nat
        /\ Cardinality(Sleepers') <= Cardinality(Tasks)
    <3>1. IsFiniteSet(Tasks) /\ Sleepers' \in SUBSET Tasks
      BY PlanningAssumption DEF Sleepers
    <3> QED
      BY <3>1, FS_Subset, FS_CardinalityType
  <2> QED
    BY <1>1, <1>4, <2>1, <2>2
<1>6. CASE tasks'[t].phase # "sleeping"
  <2>1. /\ Cardinality(Sleepers') \in Nat
        /\ Cardinality(Sleepers') =
               IF tasks[t].phase = "sleeping" THEN Cardinality(Sleepers) - 1
                                              ELSE Cardinality(Sleepers)
    BY <1>3, <1>6, SleeperWakes
  <2>2. /\ Cardinality(Tasks) \in Nat /\ Cardinality(Sleepers) \in Nat
        /\ tasks[t].phase # "sleeping" => Cardinality(Sleepers) <= Cardinality(Tasks) - 1
    BY SleepersBounded
  <2>3. CASE gateway'.calls = gateway.calls
    BY <1>1, <1>4, <2>1, <2>2, <2>3
  <2>4. CASE /\ gateway'.calls = gateway.calls + 1
             /\ tasks[t].phase = "sleeping" \/ gateway.calls < MaxCalls
    BY <1>1, <1>4, <2>1, <2>2, <2>4
  <2> QED
    BY <2>3, <2>4 DEF Quiet, Budgeted
<1> QED
  BY <1>5, <1>6

\* A quiet step keeps the invariant.
LEMMA QuietKeeps ==
    ASSUME PlanningInv, NEW t \in Tasks, Quiet(t)
    PROVE  PlanningInv'
<1>1. Types'
  BY DEF Quiet
<1>2. TaskInv'
  <2> SUFFICES ASSUME NEW u \in Tasks
               PROVE  (Phased(tasks[u]) /\ Dated(tasks[u]) /\ Numbered(tasks[u]))'
    BY DEF TaskInv
  <2>1. Phased(tasks'[u]) /\ Dated(tasks'[u]) /\ Numbered(tasks'[u])
    BY DEF PlanningInv, TaskInv, Quiet
  <2> QED
    BY <2>1 DEF Quiet, Phased, Dated, Numbered
<1>3. PlanNumbers' /\ LatestAgree' /\ EvidenceIsDated'
  BY DEF PlanningInv, Quiet, PlanNumbers, LatestAgree, EvidenceIsDated
<1>4. StatusMatchesAttempt'
  BY DEF PlanningInv, Quiet, StatusMatchesAttempt, Kinds
<1>5. BudgetKept'
  BY QuietBudget DEF PlanningInv
<1> QED
  BY <1>1, <1>2, <1>3, <1>4, <1>5 DEF PlanningInv

Sessions == [request : Requests \cup {None}, status : Kinds \cup {None, "planning"}]

Gateways == [calls : Nat, tokens : Nat, cache : SUBSET [key : CacheKeys, draft : Drafts]]

\* A step that gives a task a new state w without calling the model is quiet.
LEMMA MoveQuiet ==
    ASSUME PlanningInv, NEW t \in Tasks, NEW w \in TaskRecords,
           tasks' = [tasks EXCEPT ![t] = w],
           Phased(w), Dated(w), Numbered(w),
           w.phase = "sleeping" => gateway.calls < MaxCalls,
           UNCHANGED <<knowledge, attempts, plans, gateway>>,
           session' \in Sessions, session' = session \/ session'.status = "planning"
    PROVE  Quiet(t)
<1>1. tasks' \in [Tasks -> TaskRecords] /\ tasks'[t] = w
      /\ \A u \in Tasks \ {t} : tasks'[u] = tasks[u]
  BY DEF PlanningInv, Types
<1>2. Types'
  BY <1>1 DEF PlanningInv, Types, Sessions
<1>3. Budgeted(t)
  BY <1>1 DEF PlanningInv, BudgetKept, Budgeted
<1> QED
  BY <1>1, <1>2, <1>3 DEF Quiet

\* A task that is not there has the type of tasks.
LEMMA NoTaskTyped == NoTask \in TaskRecords
BY DEF NoTask, TaskRecords, Phases

\* A task that enters has the type of tasks.
LEMMA EnteredTyped ==
    ASSUME NEW r \in Requests, NEW a \in Nat, NEW v \in Nat
    PROVE  [NoTask EXCEPT !.phase = "checking", !.request = r, !.attempt = a, !.version = v]
               \in TaskRecords
BY NoTaskTyped DEF TaskRecords, Phases

\* A task that retries has the type of tasks.
LEMMA RetryTyped ==
    ASSUME NEW w \in TaskRecords, NEW n \in Nat
    PROVE  [w EXCEPT !.phase = "sleeping", !.retries = n] \in TaskRecords
BY DEF TaskRecords, Phases

\* start and answer take free numbers.
LEMMA EnterQuiet ==
    ASSUME PlanningInv, NEW t \in Tasks, Start(t) \/ Answer(t)
    PROVE  Quiet(t)
<1>1. PICK r \in Requests :
          session' = [request |-> r, status |-> "planning"] /\ Enter(t, r)
  BY DEF Start, Answer
<1> DEFINE w == [NoTask EXCEPT !.phase = "checking", !.request = r,
                               !.attempt = Len(attempts) + 1, !.version = Len(plans) + 1]
<1>2. Len(attempts) \in Nat /\ Len(plans) \in Nat
  BY DEF PlanningInv, Types
<1>3. w \in TaskRecords
  <2>1. Len(attempts) + 1 \in Nat /\ Len(plans) + 1 \in Nat
    BY <1>2
  <2> QED
    BY <2>1, EnteredTyped
<1>4. Phased(w) /\ Dated(w) /\ Numbered(w)
  <2>1. /\ w.phase = "checking" /\ w.result = None /\ w.retries = 0 /\ w.round = 0
        /\ w.attempt = Len(attempts) + 1 /\ w.version = Len(plans) + 1
    BY DEF NoTask
  <2> HIDE DEF w
  <2> QED
    BY <2>1, PlanningAssumption DEF Phased, Dated, Numbered, Kinds, None
<1>5. session' \in Sessions /\ session'.status = "planning"
  BY <1>1 DEF Sessions
<1>6. tasks' = [tasks EXCEPT ![t] = w] /\ w.phase = "checking"
  BY <1>1 DEF Enter, NoTask
<1>7. UNCHANGED <<knowledge, attempts, plans, gateway>>
  BY DEF Start, Answer
<1> HIDE DEF w
<1> QED
  BY <1>3, <1>4, <1>5, <1>6, <1>7, MoveQuiet

\* What MoveQuiet needs to know about the task that moves.
LEMMA TaskFacts ==
    ASSUME PlanningInv, NEW t \in Tasks
    PROVE  /\ tasks[t] \in TaskRecords /\ tasks \in [Tasks -> TaskRecords]
           /\ Phased(tasks[t]) /\ Dated(tasks[t]) /\ Numbered(tasks[t])
           /\ knowledge \in SUBSET Documents
           /\ session \in Sessions
           /\ gateway \in Gateways
BY DEF PlanningInv, Types, TaskInv, Sessions, Gateways

Untouched == UNCHANGED <<knowledge, session, attempts, plans, gateway>>

\* A task may go on to a phase that asks no more of it than the present one.
LEMMA GoesQuiet ==
    ASSUME PlanningInv, NEW t \in Tasks, NEW p \in Phases, Goes(t, p), Untouched,
           tasks[t].phase \notin {"idle", "saving"},
           p \notin {"saving", "snapshot", "sleeping"},
           p = "searching" \/ tasks[t].phase \in {"calling", "sleeping", "validating"}
    PROVE  Quiet(t)
<1> DEFINE w == [tasks[t] EXCEPT !.phase = p]
<1>1. /\ w \in TaskRecords /\ w.phase = p
      /\ w.evidence = tasks[t].evidence /\ w.digest = tasks[t].digest
      /\ w.retries = tasks[t].retries /\ w.round = tasks[t].round
      /\ w.attempt = tasks[t].attempt /\ w.version = tasks[t].version
      /\ w.result = tasks[t].result
  BY TaskFacts DEF TaskRecords
<1>2. tasks' = [tasks EXCEPT ![t] = w]
  BY TaskFacts DEF Goes
<1> HIDE DEF w
<1>3. Phased(w) /\ Dated(w) /\ Numbered(w)
  BY <1>1, TaskFacts DEF Phased, Dated, Numbered, Kinds
<1> QED
  BY <1>1, <1>2, <1>3, TaskFacts, MoveQuiet DEF Untouched

\* A node may end with any result, but only the validator with a plan.
LEMMA EndsQuiet ==
    ASSUME PlanningInv, NEW t \in Tasks, NEW kind \in Kinds, Ends(t, kind), Untouched,
           tasks[t].phase # "idle",
           kind = "plan_ready" => tasks[t].phase = "validating"
    PROVE  Quiet(t)
<1> DEFINE w == [tasks[t] EXCEPT !.phase = "saving", !.result = kind]
<1>1. /\ w \in TaskRecords /\ w.phase = "saving" /\ w.result = kind
      /\ w.evidence = tasks[t].evidence /\ w.digest = tasks[t].digest
      /\ w.retries = tasks[t].retries /\ w.round = tasks[t].round
      /\ w.attempt = tasks[t].attempt /\ w.version = tasks[t].version
  BY TaskFacts DEF TaskRecords, Phases
<1>2. tasks' = [tasks EXCEPT ![t] = w]
  BY TaskFacts DEF Ends
<1> HIDE DEF w
<1>3. Phased(w) /\ Dated(w) /\ Numbered(w)
  BY <1>1, TaskFacts DEF Phased, Dated, Numbered
<1> QED
  BY <1>1, <1>2, <1>3, TaskFacts, MoveQuiet DEF Untouched

\* The nodes before generation.
LEMMA NodesQuiet ==
    ASSUME PlanningInv, NEW t \in Tasks,
           CheckContext(t) \/ SearchKnowledge(t) \/ TakeSnapshot(t)
    PROVE  Quiet(t)
<1>1. /\ tasks[t] \in TaskRecords /\ tasks \in [Tasks -> TaskRecords]
      /\ Phased(tasks[t]) /\ Dated(tasks[t]) /\ Numbered(tasks[t])
      /\ knowledge \in SUBSET Documents
      /\ session \in Sessions
  BY TaskFacts
<1>2. Untouched /\ UNCHANGED <<knowledge, attempts, plans, gateway, session>>
  BY DEF CheckContext, SearchKnowledge, TakeSnapshot, Table, Untouched
<1>3. CASE CheckContext(t)
  <2>1. CASE Goes(t, "searching")
    BY <1>2, <1>3, <2>1, GoesQuiet DEF CheckContext, Phases
  <2>2. CASE Ends(t, "clarification_required")
    BY <1>2, <1>3, <2>2, EndsQuiet DEF CheckContext, Kinds
  <2> QED
    BY <1>3, <2>1, <2>2 DEF CheckContext
<1>4. CASE SearchKnowledge(t)
  <2> DEFINE w == [tasks[t] EXCEPT !.phase = "snapshot", !.evidence = knowledge]
  <2>1. /\ w \in TaskRecords /\ w.phase = "snapshot" /\ w.evidence = knowledge
        /\ w.result = tasks[t].result
        /\ w.retries = tasks[t].retries /\ w.round = tasks[t].round
        /\ w.attempt = tasks[t].attempt /\ w.version = tasks[t].version
    BY <1>1 DEF TaskRecords, Phases, Kinds
  <2>2. tasks' = [tasks EXCEPT ![t] = w]
    BY <1>1, <1>4 DEF SearchKnowledge
  <2> HIDE DEF w
  <2>3. Phased(w) /\ Dated(w) /\ Numbered(w)
    BY <1>1, <1>4, <2>1 DEF SearchKnowledge, Phased, Dated, Numbered, Kinds
  <2> QED
    BY <1>1, <1>2, <2>1, <2>2, <2>3, MoveQuiet
<1>5. CASE TakeSnapshot(t)
  <2> DEFINE asked == Conflict(tasks[t].evidence)
             w == [tasks[t] EXCEPT !.digest = knowledge,
                                   !.phase  = IF asked THEN "saving" ELSE "generating",
                                   !.result = IF asked THEN "clarification_required"
                                                       ELSE None]
  <2>1. /\ w \in TaskRecords
        /\ w.phase = IF asked THEN "saving" ELSE "generating"
        /\ w.result = IF asked THEN "clarification_required" ELSE None
        /\ w.digest = knowledge /\ w.evidence = tasks[t].evidence
        /\ w.retries = tasks[t].retries /\ w.round = tasks[t].round
        /\ w.attempt = tasks[t].attempt /\ w.version = tasks[t].version
    BY <1>1 DEF TaskRecords, Phases, Kinds
  <2>2. tasks' = [tasks EXCEPT ![t] = w]
    BY <1>1, <1>5 DEF TakeSnapshot
  <2> HIDE DEF w
  <2>3. Phased(w) /\ Dated(w) /\ Numbered(w)
    BY <1>1, <1>5, <2>1 DEF TakeSnapshot, Phased, Dated, Numbered, Kinds, None
  <2>4. w.phase # "sleeping"
    BY <2>1
  <2> QED
    BY <1>1, <1>2, <2>1, <2>2, <2>3, <2>4, MoveQuiet
<1> QED
  BY <1>3, <1>4, <1>5

\* validate_plan and validate_repaired_plan.
LEMMA ValidateQuiet ==
    ASSUME PlanningInv, NEW t \in Tasks, ValidatePayload(t)
    PROVE  Quiet(t)
<1>1. Untouched /\ tasks[t].phase = "validating"
  BY DEF ValidatePayload, Table, Untouched
<1>2. CASE Ends(t, "plan_ready") \/ Ends(t, "planning_rejected")
  BY <1>1, <1>2, EndsQuiet DEF Kinds
<1>3. CASE tasks' = [tasks EXCEPT ![t].phase = "generating", ![t].repair = TRUE]
  <2> DEFINE w == [tasks[t] EXCEPT !.phase = "generating", !.repair = TRUE]
  <2>1. /\ w \in TaskRecords /\ w.phase = "generating"
        /\ w.evidence = tasks[t].evidence /\ w.digest = tasks[t].digest
        /\ w.retries = tasks[t].retries /\ w.round = tasks[t].round
        /\ w.attempt = tasks[t].attempt /\ w.version = tasks[t].version
        /\ w.result = tasks[t].result
    BY TaskFacts DEF TaskRecords, Phases
  <2>2. tasks' = [tasks EXCEPT ![t] = w]
    BY <1>3, TaskFacts
  <2> HIDE DEF w
  <2>3. Phased(w) /\ Dated(w) /\ Numbered(w)
    BY <1>1, <2>1, TaskFacts DEF Phased, Dated, Numbered, Kinds
  <2> QED
    BY <1>1, <2>1, <2>2, <2>3, TaskFacts, MoveQuiet DEF Untouched
<1> QED
  BY <1>2, <1>3 DEF ValidatePayload

\* A call of the model by a task that slept, or while a call is left.
LEMMA CallsQuiet ==
    ASSUME PlanningInv, NEW t \in Tasks, Calls(t),
           UNCHANGED <<knowledge, session, attempts, plans>>,
           \/ tasks[t].phase = "sleeping"
           \/ tasks[t].phase = "generating" /\ gateway.calls < MaxCalls
    PROVE  Quiet(t)
<1> DEFINE w == [tasks[t] EXCEPT !.phase = "calling", !.round = 1]
<1>1. /\ w \in TaskRecords /\ w.phase = "calling" /\ w.round = 1
      /\ w.evidence = tasks[t].evidence /\ w.digest = tasks[t].digest
      /\ w.retries = tasks[t].retries
      /\ w.attempt = tasks[t].attempt /\ w.version = tasks[t].version
      /\ w.result = tasks[t].result
  BY TaskFacts DEF TaskRecords, Phases
<1>2. tasks' = [tasks EXCEPT ![t] = w]
  BY TaskFacts DEF Calls
<1>3. /\ gateway' \in Gateways /\ gateway'.calls = gateway.calls + 1
      /\ gateway'.tokens = gateway.tokens
  BY TaskFacts DEF Calls, Gateways
<1> HIDE DEF w
<1>4. Phased(w) /\ Dated(w) /\ Numbered(w)
  BY <1>1, TaskFacts, PlanningAssumption DEF Phased, Dated, Numbered, Kinds
<1>5. tasks' \in [Tasks -> TaskRecords] /\ tasks'[t] = w
      /\ \A u \in Tasks \ {t} : tasks'[u] = tasks[u]
  BY <1>1, <1>2, TaskFacts
<1>6. Types'
  BY <1>3, <1>5 DEF PlanningInv, Types, Gateways
<1>7. Budgeted(t)
  BY <1>1, <1>3, <1>5 DEF PlanningInv, BudgetKept, Budgeted
<1> QED
  BY <1>4, <1>5, <1>6, <1>7 DEF Quiet

\* generate, from the cache, with the budget used up, or by a call.
LEMMA GenerateQuiet ==
    ASSUME PlanningInv, NEW t \in Tasks, Generate(t)
    PROVE  Quiet(t)
<1>1. UNCHANGED <<knowledge, session, attempts, plans>> /\ tasks[t].phase = "generating"
  BY DEF Generate, Table
<1>2. CASE \E e \in Cached(t) :
              /\ tasks' = [tasks EXCEPT ![t].phase = "validating", ![t].draft = e.draft]
              /\ UNCHANGED gateway
  <2>1. PICK e \in Cached(t) :
              /\ tasks' = [tasks EXCEPT ![t].phase = "validating", ![t].draft = e.draft]
              /\ UNCHANGED gateway
    BY <1>2
  <2>2. e.draft \in Drafts
    BY TaskFacts DEF Cached, Gateways
  <2> DEFINE w == [tasks[t] EXCEPT !.phase = "validating", !.draft = e.draft]
  <2>3. /\ w \in TaskRecords /\ w.phase = "validating"
        /\ w.evidence = tasks[t].evidence /\ w.digest = tasks[t].digest
        /\ w.retries = tasks[t].retries /\ w.round = tasks[t].round
        /\ w.attempt = tasks[t].attempt /\ w.version = tasks[t].version
        /\ w.result = tasks[t].result
    BY <2>2, TaskFacts DEF TaskRecords, Phases
  <2>4. tasks' = [tasks EXCEPT ![t] = w]
    BY <2>1, TaskFacts
  <2> HIDE DEF w
  <2>5. Phased(w) /\ Dated(w) /\ Numbered(w)
    BY <1>1, <2>3, TaskFacts DEF Phased, Dated, Numbered, Kinds
  <2> QED
    BY <1>1, <2>1, <2>3, <2>4, <2>5, TaskFacts, MoveQuiet
<1>3. CASE Ends(t, "budget_exhausted") /\ UNCHANGED gateway
  BY <1>1, <1>3, EndsQuiet DEF Kinds, Untouched
<1>4. CASE ~Exhausted /\ Calls(t)
  <2>1. gateway.calls < MaxCalls
    BY <1>4, TaskFacts, PlanningAssumption DEF Exhausted, Gateways
  <2> QED
    BY <1>1, <1>4, <2>1, CallsQuiet
<1> QED
  BY <1>2, <1>3, <1>4 DEF Generate

\* A tool round, a failure, a retry.
LEMMA TurnQuiet ==
    ASSUME PlanningInv, NEW t \in Tasks,
           UseTool(t) \/ FailPermanently(t) \/ FailTransiently(t)
    PROVE  Quiet(t)
<1>1. Untouched /\ tasks[t].phase = "calling"
  BY DEF UseTool, FailPermanently, FailTransiently, Table, Untouched
<1>2. CASE Ends(t, "planning_rejected") \/ Ends(t, "budget_exhausted")
  BY <1>1, <1>2, EndsQuiet DEF Kinds
<1>3. CASE /\ tasks[t].round <= MaxToolRounds
           /\ tasks' = [tasks EXCEPT ![t].round = @ + 1]
  <2> DEFINE w == [tasks[t] EXCEPT !.round = @ + 1]
  <2>1. /\ w \in TaskRecords /\ w.phase = "calling" /\ w.round = tasks[t].round + 1
        /\ w.evidence = tasks[t].evidence /\ w.digest = tasks[t].digest
        /\ w.retries = tasks[t].retries
        /\ w.attempt = tasks[t].attempt /\ w.version = tasks[t].version
        /\ w.result = tasks[t].result
    BY <1>1, TaskFacts DEF TaskRecords
  <2>2. tasks' = [tasks EXCEPT ![t] = w] /\ tasks[t].round \in Nat
    BY <1>3, TaskFacts DEF TaskRecords
  <2> HIDE DEF w
  <2>3. Phased(w) /\ Dated(w) /\ Numbered(w)
    BY <1>1, <1>3, <2>1, <2>2, TaskFacts, PlanningAssumption
    DEF Phased, Dated, Numbered, Kinds
  <2> QED
    BY <1>1, <2>1, <2>2, <2>3, TaskFacts, MoveQuiet DEF Untouched
<1>4. CASE /\ tasks[t].retries < MaxRetries /\ ~Exhausted
           /\ tasks' = [tasks EXCEPT ![t].phase = "sleeping", ![t].retries = @ + 1]
  <2> DEFINE w == [tasks[t] EXCEPT !.phase = "sleeping", !.retries = tasks[t].retries + 1]
  <2>1. tasks[t].retries \in Nat
    BY TaskFacts DEF TaskRecords
  <2>2. w \in TaskRecords
    <3>1. tasks[t].retries + 1 \in Nat
      BY <2>1
    <3> QED
      BY <3>1, TaskFacts, RetryTyped
  <2>3. /\ w.phase = "sleeping" /\ w.retries = tasks[t].retries + 1
        /\ w.evidence = tasks[t].evidence /\ w.digest = tasks[t].digest
        /\ w.round = tasks[t].round
        /\ w.attempt = tasks[t].attempt /\ w.version = tasks[t].version
        /\ w.result = tasks[t].result
    BY TaskFacts DEF TaskRecords, Phases
  <2>4. tasks' = [tasks EXCEPT ![t] = w]
    BY <1>4, TaskFacts
  <2> HIDE DEF w
  <2>5. Phased(w) /\ Dated(w) /\ Numbered(w)
    BY <1>1, <1>4, <2>1, <2>3, TaskFacts, PlanningAssumption
    DEF Phased, Dated, Numbered, Kinds
  <2>6. gateway.calls < MaxCalls
    BY <1>4, TaskFacts, PlanningAssumption DEF Exhausted, Gateways
  <2> QED
    BY <1>1, <2>3, <2>4, <2>5, <2>6, <2>2, TaskFacts, MoveQuiet DEF Untouched
<1>5. tasks[t].round \in Nat /\ MaxToolRounds \in Nat
  BY TaskFacts, PlanningAssumption DEF TaskRecords
<1> QED
  BY <1>2, <1>3, <1>4, <1>5 DEF UseTool, FailPermanently, FailTransiently

\* A response is counted and cached, or does not fit.
LEMMA RespondQuiet ==
    ASSUME PlanningInv, NEW t \in Tasks, Respond(t)
    PROVE  Quiet(t)
<1>1. UNCHANGED <<knowledge, session, attempts, plans>> /\ tasks[t].phase = "calling"
  BY DEF Respond, Table
<1>2. PICK cost \in Costs, draft \in Drafts :
          IF gateway.tokens + cost > MaxTokens
          THEN Ends(t, "budget_exhausted") /\ UNCHANGED gateway
          ELSE /\ gateway' = [gateway EXCEPT
                      !.tokens = @ + cost,
                      !.cache = (@ \ Cached(t)) \cup {[key |-> CacheKey(t), draft |-> draft]}]
               /\ tasks' = [tasks EXCEPT ![t].phase = "validating", ![t].draft = draft,
                                         ![t].retries = 0, ![t].round = 0]
  BY DEF Respond
<1>3. CASE gateway.tokens + cost > MaxTokens
  BY <1>1, <1>2, <1>3, EndsQuiet DEF Kinds, Untouched
<1>4. CASE ~(gateway.tokens + cost > MaxTokens)
  <2> DEFINE w == [tasks[t] EXCEPT !.phase = "validating", !.draft = draft,
                                   !.retries = 0, !.round = 0]
  <2>1. /\ w \in TaskRecords /\ w.phase = "validating" /\ w.retries = 0 /\ w.round = 0
        /\ w.evidence = tasks[t].evidence /\ w.digest = tasks[t].digest
        /\ w.attempt = tasks[t].attempt /\ w.version = tasks[t].version
        /\ w.result = tasks[t].result
    BY TaskFacts DEF TaskRecords, Phases
  <2>2. tasks' = [tasks EXCEPT ![t] = w]
    BY <1>2, <1>4, TaskFacts
  <2> HIDE DEF w
  <2>3. Phased(w) /\ Dated(w) /\ Numbered(w)
    BY <1>1, <2>1, TaskFacts, PlanningAssumption DEF Phased, Dated, Numbered, Kinds
  <2>4. tasks' \in [Tasks -> TaskRecords] /\ tasks'[t] = w
        /\ \A u \in Tasks \ {t} : tasks'[u] = tasks[u]
    BY <2>1, <2>2, TaskFacts
  <2>5. /\ gateway' \in Gateways /\ gateway'.calls = gateway.calls
        /\ gateway'.tokens <= MaxTokens
    <3>1. gateway.tokens \in Nat /\ cost \in Nat /\ MaxTokens \in Nat
      BY TaskFacts, PlanningAssumption DEF Gateways
    <3>2. gateway.tokens + cost \in Nat /\ gateway.tokens + cost <= MaxTokens
      BY <1>4, <3>1
    <3>3. [key |-> CacheKey(t), draft |-> draft] \in [key : CacheKeys, draft : Drafts]
      BY TaskFacts DEF CacheKey, CacheKeys, TaskRecords
    <3> DEFINE tokens == gateway.tokens + cost
               cache == (gateway.cache \ Cached(t))
                            \cup {[key |-> CacheKey(t), draft |-> draft]}
    <3>4. cache \in SUBSET [key : CacheKeys, draft : Drafts]
      BY <3>3, TaskFacts DEF Gateways
    <3>5. gateway' = [gateway EXCEPT !.tokens = tokens, !.cache = cache]
      BY <1>2, <1>4
    <3>6. tokens \in Nat /\ tokens <= MaxTokens
      BY <3>2
    <3> HIDE DEF tokens, cache
    <3> QED
      BY <3>4, <3>5, <3>6, TaskFacts DEF Gateways
  <2>6. Types'
    BY <1>1, <2>4, <2>5 DEF PlanningInv, Types, Gateways
  <2>7. Budgeted(t)
    BY <2>1, <2>4, <2>5 DEF Budgeted
  <2> QED
    BY <1>1, <2>3, <2>4, <2>6, <2>7 DEF Quiet
<1> QED
  BY <1>3, <1>4

\* A task that is not there has nothing to keep.
LEMMA NoTaskGood ==
    /\ Phased(NoTask) /\ Dated(NoTask) /\ Numbered(NoTask)
    /\ NoTask.phase = "idle"
<1>1. /\ NoTask.phase = "idle" /\ NoTask.result = None
      /\ NoTask.retries = 0 /\ NoTask.round = 0
  BY DEF NoTask
<1> QED
  BY <1>1, PlanningAssumption DEF Phased, Dated, Numbered, Kinds, None

\* The insert fails and the task raises.
LEMMA SaveFailsQuiet ==
    ASSUME PlanningInv, NEW t \in Tasks, SaveFails(t)
    PROVE  Quiet(t)
<1>1. UNCHANGED <<knowledge, session, attempts, plans, gateway>>
      /\ tasks' = [tasks EXCEPT ![t] = NoTask]
  BY DEF SaveFails, Table, Leave
<1> QED
  BY <1>1, NoTaskGood, NoTaskTyped, TaskFacts, MoveQuiet

-----------------------------------------------------------------------------
(***************************************************************************)
(* Steps that write the tables.                                            *)
(***************************************************************************)

\* What is saved has the type of the rows.
LEMMA SavedRecords ==
    ASSUME PlanningInv, NEW t \in Tasks, tasks[t].phase = "saving"
    PROVE  /\ PlanOf(t) \in PlanRecords
           /\ AttemptOf(t) \in AttemptRecords
<1>1. tasks[t] \in TaskRecords /\ tasks[t].result \in Kinds
  BY TaskFacts DEF Phased
<1>2. PlanOf(t) \in PlanRecords
  BY <1>1 DEF PlanOf, PlanRecords, TaskRecords
<1> QED
  BY <1>1, <1>2 DEF AttemptOf, AttemptRecords, TaskRecords

\* save_attempt leaves the session with the result of the latest attempt.
LEMMA SaveAttemptKeeps ==
    ASSUME PlanningInv, NEW t \in Tasks, tasks[t].phase = "saving", SaveAttempt(t)
    PROVE  /\ session' \in Sessions
           /\ attempts' \in Seq(AttemptRecords)
           /\ Len(attempts') = Len(attempts) + 1
           /\ attempts'[Len(attempts')] = AttemptOf(t)
           /\ StatusMatchesAttempt'
<1>1. AttemptOf(t) \in AttemptRecords /\ attempts \in Seq(AttemptRecords)
  BY SavedRecords DEF PlanningInv, Types
<1>2. attempts' = Append(attempts, AttemptOf(t))
  BY DEF SaveAttempt
<1>3. /\ attempts' \in Seq(AttemptRecords)
      /\ Len(attempts') = Len(attempts) + 1
      /\ attempts'[Len(attempts')] = AttemptOf(t)
  BY <1>1, <1>2
<1>4. session' \in Sessions
  BY TaskFacts DEF SaveAttempt, Sessions, TaskRecords, Phased
<1>5. StatusMatchesAttempt'
  <2>1. attempts' # <<>>
    BY <1>1, <1>3
  <2>2. /\ session'.status = tasks[t].result /\ session'.request = tasks[t].request
        /\ AttemptOf(t).kind = tasks[t].result /\ AttemptOf(t).request = tasks[t].request
    BY DEF SaveAttempt, AttemptOf
  <2> QED
    BY <1>3, <2>1, <2>2 DEF StatusMatchesAttempt
<1> QED
  BY <1>3, <1>4, <1>5

\* save_plan appends the plan and changes no other but in its status.
LEMMA SavePlanKeeps ==
    ASSUME PlanningInv, NEW t \in Tasks, tasks[t].phase = "saving", SavePlan(t)
    PROVE  /\ plans' \in Seq(PlanRows)
           /\ Len(plans') = Len(plans) + 1
           /\ plans'[Len(plans')].plan = PlanOf(t)
           /\ \A v \in 1 .. Len(plans) :
                  /\ plans'[v].plan = plans[v].plan
                  /\ plans'[v].status = "prepared" => plans[v].status = "prepared"
<1> DEFINE old == [v \in DOMAIN plans |->
                      [plans[v] EXCEPT !.status = IF @ = "ready" THEN "superseded" ELSE @]]
           row == [plan |-> PlanOf(t), status |-> "ready"]
<1>1. plans \in Seq(PlanRows) /\ row \in PlanRows
  BY SavedRecords DEF PlanningInv, Types, PlanRows
<1>2. Len(plans) \in Nat /\ DOMAIN plans = 1 .. Len(plans)
      /\ \A v \in 1 .. Len(plans) : plans[v] \in PlanRows
  BY <1>1
<1>3. \A v \in 1 .. Len(plans) :
          /\ old[v] \in PlanRows
          /\ old[v].plan = plans[v].plan
          /\ old[v].status = "prepared" => plans[v].status = "prepared"
  BY <1>2 DEF PlanRows
<1>4. old \in Seq(PlanRows) /\ Len(old) = Len(plans)
  <2>1. DOMAIN old = 1 .. Len(plans)
    BY <1>2
  <2>2. old \in [1 .. Len(plans) -> PlanRows]
    BY <1>2, <1>3, <2>1
  <2> HIDE DEF old
  <2>3. old \in Seq(PlanRows)
    BY <1>2, <2>2
  <2> QED
    BY <1>2, <2>1, <2>3
<1>5. plans' = Append(old, row) /\ row.plan = PlanOf(t)
  BY DEF SavePlan
<1> HIDE DEF old, row
<1> QED
  BY <1>1, <1>2, <1>3, <1>4, <1>5

\* When a task leaves after its attempt was saved, no other task has the number.
LEMMA LeaveKeepsTasks ==
    ASSUME PlanningInv, NEW t \in Tasks, tasks[t].phase = "saving", SaveAttempt(t), Leave(t),
           UNCHANGED <<knowledge, gateway>>
    PROVE  tasks' \in [Tasks -> TaskRecords] /\ TaskInv' /\ BudgetKept'
<1>1. /\ tasks' \in [Tasks -> TaskRecords] /\ tasks'[t] = NoTask
      /\ \A u \in Tasks \ {t} : tasks'[u] = tasks[u]
  BY NoTaskTyped, TaskFacts DEF Leave
<1>2. Len(attempts') = Len(attempts) + 1 /\ Len(attempts) \in Nat
  BY SaveAttemptKeeps DEF PlanningInv, Types
<1>3. TaskInv'
  <2> SUFFICES ASSUME NEW u \in Tasks
               PROVE  (Phased(tasks[u]) /\ Dated(tasks[u]) /\ Numbered(tasks[u]))'
    BY DEF TaskInv
  <2>1. CASE u = t
    <3>1. /\ tasks'[u].phase = "idle" /\ tasks'[u].result = None
          /\ tasks'[u].retries = 0 /\ tasks'[u].round = 0
      BY <1>1, <2>1 DEF NoTask
    <3> QED
      BY <3>1, PlanningAssumption DEF Phased, Dated, Numbered, Kinds, None
  <2>2. CASE u # t
    <3>1. tasks'[u] = tasks[u] /\ tasks[u].attempt \in Nat
      BY <1>1, <2>2, TaskFacts DEF TaskRecords
    <3>2. Phased(tasks[u]) /\ Dated(tasks[u]) /\ Numbered(tasks[u])
      BY TaskFacts
    <3>3. Phased(tasks[u])' /\ Dated(tasks[u])'
      BY <3>1, <3>2 DEF Phased, Dated
    <3>4. Numbered(tasks[u])'
      BY <1>2, <3>1, <3>2 DEF Numbered
    <3> QED
      BY <3>3, <3>4
  <2> QED
    BY <2>1, <2>2
<1>4. BudgetKept'
  <2>1. Cardinality(Sleepers') = Cardinality(Sleepers)
    BY <1>1, NoTaskGood, SleeperWakes
  <2> QED
    BY <2>1 DEF PlanningInv, BudgetKept, Sleepers
<1> QED
  BY <1>1, <1>3, <1>4

\* save_attempt and save_plan keep the invariant.
LEMMA SaveKeeps ==
    ASSUME PlanningInv, NEW t \in Tasks, Save(t)
    PROVE  PlanningInv'
<1>1. /\ tasks[t].phase = "saving" /\ SaveAttempt(t) /\ Leave(t)
      /\ UNCHANGED <<knowledge, gateway>>
  BY DEF Save
<1>2. tasks' \in [Tasks -> TaskRecords] /\ TaskInv' /\ BudgetKept'
  BY <1>1, LeaveKeepsTasks
<1>3. /\ session' \in Sessions /\ StatusMatchesAttempt'
      /\ attempts' \in Seq(AttemptRecords)
      /\ Len(attempts') = Len(attempts) + 1
      /\ attempts'[Len(attempts')] = AttemptOf(t)
  BY <1>1, SaveAttemptKeeps
<1>4. /\ Len(attempts) \in Nat /\ Len(plans) \in Nat /\ plans \in Seq(PlanRows)
      /\ tasks[t].attempt \in Nat /\ tasks[t].version \in Nat
  BY TaskFacts DEF PlanningInv, Types, TaskRecords
<1>5. tasks[t].version = Len(plans) + 1
  BY <1>1, <1>4, TaskFacts DEF Save, AttemptTaken, Numbered
<1>6. AttemptOf(t).kind = tasks[t].result /\ AttemptOf(t).plan = PlanOf(t)
      /\ PlanOf(t).version = tasks[t].version
      /\ PlanOf(t).evidence = tasks[t].evidence /\ PlanOf(t).digest = tasks[t].digest
  BY DEF AttemptOf, PlanOf
<1>7. CASE SavePlan(t) /\ tasks[t].result = "plan_ready"
  <2>1. /\ plans' \in Seq(PlanRows)
        /\ Len(plans') = Len(plans) + 1
        /\ plans'[Len(plans')].plan = PlanOf(t)
        /\ \A v \in 1 .. Len(plans) : plans'[v].plan = plans[v].plan
    BY <1>1, <1>7, SavePlanKeeps
  <2>2. Types'
    BY <1>1, <1>2, <1>3, <2>1 DEF PlanningInv, Types, Sessions
  <2>3. PlanNumbers'
    BY <1>3, <1>4, <1>5, <1>6, <2>1 DEF PlanningInv, PlanNumbers
  <2>4. LatestAgree'
    BY <1>3, <1>6, <2>1 DEF LatestAgree
  <2>5. EvidenceIsDated'
    <3>1. DOMAIN plans' = 1 .. Len(plans) + 1 /\ DOMAIN plans = 1 .. Len(plans)
      BY <1>4, <2>1
    <3>2. tasks[t].evidence \subseteq tasks[t].digest /\ ~Conflict(tasks[t].evidence)
      BY <1>7, TaskFacts DEF Dated
    <3>3. \A v \in 1 .. Len(plans) :
              /\ plans[v].plan.evidence \subseteq plans[v].plan.digest
              /\ ~Conflict(plans[v].plan.evidence)
      BY <3>1 DEF PlanningInv, EvidenceIsDated
    <3>4. \A v \in 1 .. Len(plans) + 1 :
              /\ plans'[v].plan.evidence \subseteq plans'[v].plan.digest
              /\ ~Conflict(plans'[v].plan.evidence)
      BY <1>4, <1>6, <2>1, <3>2, <3>3
    <3> QED
      BY <3>1, <3>4 DEF EvidenceIsDated, Conflict
  <2> QED
    BY <1>2, <1>3, <2>2, <2>3, <2>4, <2>5 DEF PlanningInv
<1>8. CASE UNCHANGED plans /\ tasks[t].result # "plan_ready"
  <2>1. Types'
    BY <1>1, <1>2, <1>3, <1>8 DEF PlanningInv, Types, Sessions
  <2>2. PlanNumbers' /\ EvidenceIsDated'
    BY <1>3, <1>4, <1>8 DEF PlanningInv, PlanNumbers, EvidenceIsDated
  <2>3. LatestAgree'
    BY <1>3, <1>6, <1>8 DEF LatestAgree
  <2> QED
    BY <1>2, <1>3, <2>1, <2>2, <2>3 DEF PlanningInv
<1> QED
  BY <1>4, <1>5, <1>7, <1>8 DEF Save, PlanTaken

\* A crash takes the tasks and the gateway with it.
LEMMA DiesKeeps ==
    ASSUME Dies, NEW t \in Tasks
    PROVE  /\ tasks' \in [Tasks -> TaskRecords] /\ TaskInv'
           /\ gateway' \in Gateways /\ BudgetKept'
<1>1. tasks' = [u \in Tasks |-> NoTask] /\ gateway' = NewGateway
  BY DEF Dies
<1>2. tasks' \in [Tasks -> TaskRecords]
  BY <1>1, NoTaskTyped
<1>3. gateway' \in Gateways /\ gateway'.calls = 0 /\ gateway'.tokens = 0
  BY <1>1 DEF NewGateway, Gateways
<1>4. TaskInv'
  <2> SUFFICES ASSUME NEW u \in Tasks
               PROVE  (Phased(tasks[u]) /\ Dated(tasks[u]) /\ Numbered(tasks[u]))'
    BY DEF TaskInv
  <2>1. /\ tasks'[u].phase = "idle" /\ tasks'[u].result = None
        /\ tasks'[u].retries = 0 /\ tasks'[u].round = 0
    BY <1>1 DEF NoTask
  <2> QED
    BY <2>1, PlanningAssumption DEF Phased, Dated, Numbered, Kinds, None
<1>5. BudgetKept'
  <2>1. Sleepers' = {}
    BY <1>1, NoTaskGood DEF Sleepers
  <2>2. Cardinality(Sleepers') = 0
    BY <2>1, FS_EmptySet
  <2>3. Cardinality(Tasks) \in Nat /\ MaxCalls \in Nat \ {0} /\ MaxTokens \in Nat
    BY SleepersBounded, PlanningAssumption
  <2> QED
    BY <1>3, <2>2, <2>3 DEF BudgetKept, Sleepers
<1> QED
  BY <1>2, <1>3, <1>4, <1>5

\* Neither a crash nor one between save_attempt and save_plan breaks it.
LEMMA CrashKeeps ==
    ASSUME PlanningInv, Crash \/ \E t \in Tasks : CrashWhileSaving(t)
    PROVE  PlanningInv'
<1>1. PICK t \in Tasks : (Crash /\ tasks[t].phase # "idle") \/ CrashWhileSaving(t)
  BY DEF Crash
<1>2. Dies /\ UNCHANGED <<knowledge, plans>>
  BY <1>1 DEF Crash, CrashWhileSaving, Table
<1>3. /\ tasks' \in [Tasks -> TaskRecords] /\ TaskInv'
      /\ gateway' \in Gateways /\ BudgetKept'
  BY <1>2, DiesKeeps
<1>4. CASE Crash
  <2>1. UNCHANGED <<session, attempts>>
    BY <1>4 DEF Crash, Table
  <2>2. Types'
    BY <1>2, <1>3, <2>1 DEF PlanningInv, Types, Gateways
  <2>3. PlanNumbers' /\ LatestAgree' /\ StatusMatchesAttempt' /\ EvidenceIsDated'
    BY <1>2, <2>1
    DEF PlanningInv, PlanNumbers, LatestAgree, StatusMatchesAttempt, EvidenceIsDated
  <2> QED
    BY <1>3, <2>2, <2>3 DEF PlanningInv
<1>5. CASE CrashWhileSaving(t)
  <2>1. tasks[t].phase = "saving" /\ SaveAttempt(t) /\ ~AttemptTaken(t)
    BY <1>5 DEF CrashWhileSaving
  <2>2. /\ session' \in Sessions /\ StatusMatchesAttempt'
        /\ attempts' \in Seq(AttemptRecords)
        /\ Len(attempts') = Len(attempts) + 1
        /\ attempts'[Len(attempts')] = AttemptOf(t)
    BY <2>1, SaveAttemptKeeps
  <2>3. /\ Len(attempts) \in Nat /\ Len(plans) \in Nat /\ plans \in Seq(PlanRows)
        /\ tasks[t].attempt \in Nat /\ tasks[t].version \in Nat
    BY TaskFacts DEF PlanningInv, Types, TaskRecords
  <2>4. AttemptOf(t).plan.version = Len(plans) + 1
    BY <2>1, <2>3, TaskFacts DEF AttemptTaken, Numbered, AttemptOf, PlanOf
  <2>5. Types'
    BY <1>2, <1>3, <2>2 DEF PlanningInv, Types, Gateways, Sessions
  <2>6. PlanNumbers' /\ EvidenceIsDated'
    BY <1>2, <2>2, <2>3 DEF PlanningInv, PlanNumbers, EvidenceIsDated
  <2>7. LatestAgree'
    <3>1. plans # <<>> => plans[Len(plans)].plan.version = Len(plans)
      BY <2>3 DEF PlanningInv, PlanNumbers
    <3> QED
      BY <1>2, <2>2, <2>3, <2>4, <3>1 DEF LatestAgree
  <2> QED
    BY <1>3, <2>2, <2>5, <2>6, <2>7 DEF PlanningInv
<1> QED
  BY <1>1, <1>4, <1>5

\* prepare_workflow changes the status of the latest plan only.
LEMMA PrepareKeeps ==
    ASSUME PlanningInv, PrepareWorkflow
    PROVE  PlanningInv'
<1>1. UNCHANGED <<knowledge, session, attempts, tasks, gateway>>
  BY DEF PrepareWorkflow
<1>2. plans \in Seq(PlanRows) /\ Len(plans) \in Nat /\ plans # <<>>
  BY DEF PrepareWorkflow, PlanningInv, Types
<1>3. /\ plans' \in Seq(PlanRows) /\ Len(plans') = Len(plans)
      /\ \A v \in 1 .. Len(plans) : plans'[v].plan = plans[v].plan
  <2> DEFINE row == [plans[Len(plans)] EXCEPT !.status = "prepared"]
  <2>1. Len(plans) \in 1 .. Len(plans)
    BY <1>2
  <2>2. plans[Len(plans)] \in PlanRows
    BY <1>2, <2>1
  <2>3. row \in PlanRows /\ row.plan = plans[Len(plans)].plan
    BY <2>2 DEF PlanRows
  <2>4. plans' = [plans EXCEPT ![Len(plans)] = row]
    BY <1>2 DEF PrepareWorkflow
  <2> HIDE DEF row
  <2> QED
    BY <1>2, <2>1, <2>3, <2>4
<1>4. DOMAIN plans = 1 .. Len(plans) /\ DOMAIN plans' = 1 .. Len(plans)
  BY <1>2, <1>3
<1>5. Types'
  BY <1>1, <1>3 DEF PlanningInv, Types
<1>6. TaskInv'
  BY <1>1, <1>3 DEF PlanningInv, TaskInv, Phased, Dated, Numbered
<1>7. PlanNumbers' /\ LatestAgree'
  BY <1>1, <1>2, <1>3 DEF PlanningInv, PlanNumbers, LatestAgree
<1>8. StatusMatchesAttempt' /\ BudgetKept'
  BY <1>1 DEF PlanningInv, StatusMatchesAttempt, BudgetKept
<1>9. EvidenceIsDated'
  BY <1>3, <1>4 DEF PlanningInv, EvidenceIsDated, Conflict
<1> QED
  BY <1>5, <1>6, <1>7, <1>8, <1>9 DEF PlanningInv

\* The knowledge only grows.
LEMMA IngestKeeps ==
    ASSUME PlanningInv, Ingest
    PROVE  PlanningInv'
<1>1. /\ UNCHANGED <<session, attempts, plans, tasks, gateway>>
      /\ knowledge \subseteq knowledge' /\ knowledge' \in SUBSET Documents
  BY DEF Ingest, Table, PlanningInv, Types
<1>2. TaskInv'
  BY <1>1 DEF PlanningInv, TaskInv, Phased, Dated, Numbered
<1> QED
  BY <1>1, <1>2
  DEF PlanningInv, Types, PlanNumbers, LatestAgree, StatusMatchesAttempt,
      EvidenceIsDated, BudgetKept

-----------------------------------------------------------------------------
(***************************************************************************)
(* The theorems.                                                           *)
(***************************************************************************)
\* A session that was not started satisfies the invariant.
LEMMA InitEstablishes == Init => PlanningInv
<1> SUFFICES ASSUME Init PROVE PlanningInv
  OBVIOUS
<1>1. /\ tasks = [t \in Tasks |-> NoTask] /\ gateway = NewGateway
      /\ attempts = <<>> /\ plans = <<>> /\ knowledge = Initial
      /\ session = [request |-> None, status |-> None]
  BY DEF Init
<1>2. Types
  <2>1. tasks \in [Tasks -> TaskRecords]
    BY <1>1, NoTaskTyped
  <2>2. gateway \in Gateways
    BY <1>1 DEF NewGateway, Gateways
  <2>3. attempts \in Seq(AttemptRecords) /\ plans \in Seq(PlanRows)
    BY <1>1
  <2>4. session \in Sessions
    BY <1>1 DEF Sessions
  <2> QED
    BY <1>1, <2>1, <2>2, <2>3, <2>4, PlanningAssumption DEF Types, Gateways, Sessions
<1>3. TaskInv
  BY <1>1, NoTaskGood DEF TaskInv
<1>4. PlanNumbers /\ LatestAgree /\ EvidenceIsDated
  BY <1>1 DEF PlanNumbers, LatestAgree, EvidenceIsDated
<1>5. StatusMatchesAttempt
  BY <1>1 DEF StatusMatchesAttempt, Kinds, None
<1>6. BudgetKept
  <2>1. Sleepers = {}
    BY <1>1, NoTaskGood DEF Sleepers
  <2>2. Cardinality(Sleepers) = 0
    BY <2>1, FS_EmptySet
  <2>3. Cardinality(Tasks) \in Nat /\ MaxCalls \in Nat \ {0} /\ MaxTokens \in Nat
    BY SleepersBounded, PlanningAssumption
  <2> QED
    BY <1>1, <2>2, <2>3 DEF BudgetKept, Sleepers, NewGateway
<1> QED
  BY <1>2, <1>3, <1>4, <1>5, <1>6 DEF PlanningInv

\* Every step of a task but saving is quiet.
LEMMA TaskStepsQuiet ==
    ASSUME PlanningInv, NEW t \in Tasks, Start(t) \/ Answer(t) \/ TaskStep(t), ~Save(t)
    PROVE  Quiet(t)
<1>1. ASSUME Wake(t) PROVE Quiet(t)
  BY <1>1, CallsQuiet DEF Wake, Table
<1> QED
  BY <1>1, EnterQuiet, NodesQuiet, ValidateQuiet, GenerateQuiet, TurnQuiet, RespondQuiet,
     SaveFailsQuiet
  DEF TaskStep

\* Every step keeps the invariant.
LEMMA NextKeeps == PlanningInv /\ [Next]_planningVars => PlanningInv'
<1> SUFFICES ASSUME PlanningInv, [Next]_planningVars PROVE PlanningInv'
  OBVIOUS
<1>1. ASSUME NEW t \in Tasks, Start(t) \/ Answer(t) \/ TaskStep(t) PROVE PlanningInv'
  <2>1. CASE Save(t)
    BY <2>1, SaveKeeps
  <2>2. CASE ~Save(t)
    BY <1>1, <2>2, TaskStepsQuiet, QuietKeeps
  <2> QED
    BY <2>1, <2>2
<1>2. CASE UNCHANGED planningVars
  BY <1>2
  DEF planningVars, PlanningInv, Types, TaskInv, Phased, Dated, Numbered, PlanNumbers,
      LatestAgree, StatusMatchesAttempt, EvidenceIsDated, BudgetKept
<1> QED
  BY <1>1, <1>2, CrashKeeps, PrepareKeeps, IngestKeeps DEF Next

\* The invariant of the session, from which the theorems follow.
LEMMA Invariance == PlanningSpec => []PlanningInv
BY InitEstablishes, NextKeeps, PTL DEF PlanningSpec

\* Types of the session's rows, numbers and counters, for any bounds.
THEOREM PlanningTyped == PlanningSpec => []PlanningTypeOK
<1>1. PlanningInv => PlanningTypeOK
  <2> SUFFICES ASSUME PlanningInv PROVE PlanningTypeOK
    OBVIOUS
  <2>1. \A t \in Tasks : tasks[t].phase \in Phases /\ Phased(tasks[t])
    BY TaskFacts DEF TaskRecords
  <2>2. DOMAIN plans = 1 .. Len(plans)
    BY DEF PlanningInv, Types
  <2>3. /\ knowledge \subseteq Documents
        /\ session.request \in Requests \cup {None}
        /\ session.status \in Kinds \cup {None, "planning"}
    BY DEF PlanningInv, Types
  <2> QED
    BY <2>1, <2>2, <2>3 DEF PlanningInv, PlanNumbers, PlanningTypeOK, Phased
<1> QED
  BY <1>1, Invariance, PTL

\* However many calls of start and answer share a gateway, the tokens counted fit
\* the budget and the calls exceed max_calls by fewer than there are tasks.
THEOREM BudgetHolds == PlanningSpec => []BudgetKept
<1>1. PlanningInv => BudgetKept
  BY DEF PlanningInv
<1> QED
  BY <1>1, Invariance, PTL

\* The status of a session and its request are those of its latest attempt, unless
\* another is under way.
THEOREM StatusTold == PlanningSpec => []StatusMatchesAttempt
<1>1. PlanningInv => StatusMatchesAttempt
  BY DEF PlanningInv
<1> QED
  BY <1>1, Invariance, PTL

\* A stored plan cites documents its digest covers, and no conflicting ones.
THEOREM EvidenceCovered == PlanningSpec => []EvidenceIsDated
<1>1. PlanningInv => EvidenceIsDated
  BY DEF PlanningInv
<1> QED
  BY <1>1, Invariance, PTL

\* Only prepare_workflow prepares a plan, and only the latest attempt's.
LEMMA PreparedStep ==
    ASSUME PlanningInv, [Next]_planningVars, NEW v \in DOMAIN plans,
           plans[v].status # "prepared", plans'[v].status = "prepared"
    PROVE  /\ attempts[Len(attempts)].kind = "plan_ready"
           /\ attempts[Len(attempts)].plan = plans[v].plan
           /\ plans[v].plan.digest = knowledge
<1>1. /\ plans \in Seq(PlanRows) /\ Len(plans) \in Nat /\ v \in 1 .. Len(plans)
      /\ DOMAIN plans = 1 .. Len(plans)
  BY DEF PlanningInv, Types
<1>2. plans' # plans
  OBVIOUS
<1>3. CASE \E t \in Tasks : Save(t)
  <2>1. PICK t \in Tasks : Save(t)
    BY <1>3
  <2>2. tasks[t].phase = "saving" /\ SavePlan(t)
    BY <1>2, <2>1 DEF Save
  <2> QED
    BY <1>1, <2>2, SavePlanKeeps
<1>4. CASE PrepareWorkflow
  <2>1. v = Len(plans)
    BY <1>1, <1>4 DEF PrepareWorkflow
  <2> QED
    BY <1>4, <2>1 DEF PrepareWorkflow, PlanningInv, LatestAgree
<1>5. ASSUME NEW t \in Tasks, Start(t) \/ Answer(t) \/ TaskStep(t), ~Save(t)
      PROVE  FALSE
  BY <1>2, <1>5, TaskStepsQuiet DEF Quiet
<1>6. ~(\E t \in Tasks : CrashWhileSaving(t)) /\ ~Ingest /\ ~Crash /\ ~UNCHANGED planningVars
  BY <1>2 DEF CrashWhileSaving, Ingest, Crash, Table, planningVars
<1> QED
  BY <1>3, <1>4, <1>5, <1>6 DEF Next

\* prepare_workflow binds a definition only to the plan the latest attempt
\* announced, made from the knowledge of that moment.
THEOREM PreparedLatest == PlanningSpec => PreparedIsLatestResult
<1> DEFINE Sound ==
        \A v \in DOMAIN plans :
            plans[v].status # "prepared" /\ plans'[v].status = "prepared" =>
                /\ attempts[Len(attempts)].kind = "plan_ready"
                /\ attempts[Len(attempts)].plan = plans[v].plan
                /\ plans[v].plan.digest = knowledge
<1>1. PlanningInv /\ [Next]_planningVars => [Sound]_planningVars
  BY PreparedStep
<1> QED
  BY <1>1, Invariance, PTL DEF PlanningSpec, PreparedIsLatestResult

-----------------------------------------------------------------------------
(***************************************************************************)
(* The variant.  A task's phase, retries and turns are digits of a number: *)
(* Unit is the weight of a phase, Rest the digits below it.                *)
(***************************************************************************)
Unit == (MaxRetries + 1) * Turns

TurnsLeft(w) ==
    IF w.phase = "calling" THEN MaxToolRounds + 1 - w.round
    ELSE IF w.phase = "sleeping" THEN Turns - 1 ELSE 0

Rest(w) == (MaxRetries - w.retries) * Turns + TurnsLeft(w)

\* What is used of multiplication.
LEMMA Products ==
    ASSUME NEW a \in Nat, NEW b \in Nat, NEW c \in Nat
    PROVE  /\ a * b \in Nat
           /\ (a * b) * c = a * (b * c)
           /\ (a + 1) * c = a * c + c
           /\ b <= a => (a - b) * c \in Nat /\ (a - b) * c <= a * c
OBVIOUS

\* The weights of the phases are numbers.
LEMMA Weights ==
    /\ Weight("checking") = 7 /\ Weight("searching") = 6 /\ Weight("snapshot") = 5
    /\ Weight("generating") = 4 /\ Weight("calling") = 3 /\ Weight("sleeping") = 3
    /\ Weight("validating") = 2 /\ Weight("saving") = 1 /\ Weight("idle") = 0
    /\ \A p \in Phases : Weight(p) \in Nat
BY DEF Weight, Phases

\* The lower digits do not carry.
LEMMA RestBounded ==
    ASSUME NEW w \in TaskRecords, Phased(w)
    PROVE  /\ Unit \in Nat /\ Turns \in Nat /\ Turns >= 2
           /\ Rest(w) \in Nat /\ Rest(w) < Unit
           /\ Remaining(w) = (IF w.repair THEN 0 ELSE 8 * Unit) + Weight(w.phase) * Unit + Rest(w)
<1>1. /\ MaxRetries \in Nat /\ MaxToolRounds \in Nat
      /\ Turns \in Nat /\ Turns = MaxToolRounds + 2 /\ MaxRetries + 1 \in Nat
  BY PlanningAssumption DEF Turns
<1>2. /\ w.retries \in Nat /\ w.retries <= MaxRetries
      /\ w.round \in Nat /\ w.round <= MaxToolRounds + 1 /\ w.phase \in Phases
  BY DEF TaskRecords, Phased
<1>3. TurnsLeft(w) \in Nat /\ TurnsLeft(w) <= Turns - 1
  BY <1>1, <1>2 DEF TurnsLeft
<1>4. /\ Unit \in Nat /\ Unit = MaxRetries * Turns + Turns
      /\ (MaxRetries - w.retries) * Turns \in Nat
      /\ (MaxRetries - w.retries) * Turns <= MaxRetries * Turns
      /\ MaxRetries * Turns \in Nat
  BY <1>1, <1>2, Products DEF Unit
<1>5. Rest(w) \in Nat /\ Rest(w) < Unit
  BY <1>1, <1>3, <1>4 DEF Rest
<1>6. /\ 8 * (MaxRetries + 1) * Turns = 8 * Unit
      /\ Weight(w.phase) * (MaxRetries + 1) * Turns = Weight(w.phase) * Unit
      /\ Weight(w.phase) * Unit \in Nat
  BY <1>1, <1>2, <1>4, Weights, Products DEF Unit
<1>7. Remaining(w) = (IF w.repair THEN 0 ELSE 8 * (MaxRetries + 1) * Turns)
                     + Weight(w.phase) * (MaxRetries + 1) * Turns
                     + (MaxRetries - w.retries) * Turns + TurnsLeft(w)
  BY DEF Remaining, TurnsLeft
<1>8. Remaining(w) = (IF w.repair THEN 0 ELSE 8 * Unit) + Weight(w.phase) * Unit
                     + (MaxRetries - w.retries) * Turns + TurnsLeft(w)
  BY <1>6, <1>7
<1> QED
  BY <1>1, <1>3, <1>4, <1>5, <1>6, <1>8 DEF Rest

\* A later phase leaves less to do, whatever the lower digits become.
LEMMA LaterPhase ==
    ASSUME NEW w \in TaskRecords, Phased(w), NEW x \in TaskRecords, Phased(x),
           x.repair = w.repair, Weight(x.phase) < Weight(w.phase)
    PROVE  Remaining(x) < Remaining(w)
<1>1. /\ Unit \in Nat
      /\ Rest(x) \in Nat /\ Rest(x) < Unit /\ Rest(w) \in Nat
      /\ Remaining(w) = (IF w.repair THEN 0 ELSE 8 * Unit) + Weight(w.phase) * Unit + Rest(w)
      /\ Remaining(x) = (IF w.repair THEN 0 ELSE 8 * Unit) + Weight(x.phase) * Unit + Rest(x)
  BY RestBounded
<1>2. Weight(x.phase) \in Nat /\ Weight(w.phase) \in Nat
  BY Weights DEF TaskRecords
<1>3. (Weight(x.phase) + 1) * Unit = Weight(x.phase) * Unit + Unit
  BY <1>1, <1>2, Products
<1>4. (Weight(x.phase) + 1) * Unit <= Weight(w.phase) * Unit
  <2>1. \A a, b, c \in Nat : b <= a => b * c <= a * c
    BY Products
  <2> QED
    BY <1>1, <1>2, <2>1
<1>5. Weight(x.phase) * Unit \in Nat /\ Weight(w.phase) * Unit \in Nat
  BY <1>1, <1>2, Products
<1> QED
  BY <1>1, <1>3, <1>4, <1>5

\* Within a call, fewer retries or turns leave less to do.
LEMMA SamePhase ==
    ASSUME NEW w \in TaskRecords, Phased(w), NEW x \in TaskRecords, Phased(x),
           x.repair = w.repair, Weight(x.phase) = Weight(w.phase), Rest(x) < Rest(w)
    PROVE  Remaining(x) < Remaining(w)
<1>1. /\ Unit \in Nat /\ Rest(x) \in Nat /\ Rest(w) \in Nat
      /\ Remaining(w) = (IF w.repair THEN 0 ELSE 8 * Unit) + Weight(w.phase) * Unit + Rest(w)
      /\ Remaining(x) = (IF w.repair THEN 0 ELSE 8 * Unit) + Weight(w.phase) * Unit + Rest(x)
  BY RestBounded
<1>2. Weight(w.phase) * Unit \in Nat
  BY <1>1, Weights, Products DEF TaskRecords
<1> QED
  BY <1>1, <1>2

\* A node that ends leaves saving to be done.
LEMMA EndsAdvances ==
    ASSUME PlanningInv, NEW t \in Tasks, NEW kind, Ends(t, kind), Quiet(t),
           tasks[t].phase \notin {"idle", "saving"}
    PROVE  Remaining(tasks'[t]) < Remaining(tasks[t])
<1>1. tasks[t] \in TaskRecords /\ Phased(tasks[t])
      /\ tasks'[t] \in TaskRecords /\ Phased(tasks'[t])
  BY TaskFacts DEF Quiet, Types
<1>2. tasks'[t].phase = "saving" /\ tasks'[t].repair = tasks[t].repair
  BY TaskFacts DEF Ends, TaskRecords
<1>3. Weight("saving") < Weight(tasks[t].phase)
  BY <1>1, Weights DEF TaskRecords, Phases
<1> QED
  BY <1>1, <1>2, <1>3, LaterPhase

\* Every step of a task takes it nearer to its end, or ends it.
LEMMA StepAdvances ==
    ASSUME PlanningInv, NEW t \in Tasks, TaskStep(t), ~Save(t)
    PROVE  tasks'[t] = NoTask \/ Remaining(tasks'[t]) < Remaining(tasks[t])
<1>1. Quiet(t)
  BY TaskStepsQuiet
<1>2. /\ tasks[t] \in TaskRecords /\ Phased(tasks[t])
      /\ tasks'[t] \in TaskRecords /\ Phased(tasks'[t])
  BY <1>1, TaskFacts DEF Quiet, Types
<1>3. CASE CheckContext(t)
  <2>1. ASSUME Goes(t, "searching") PROVE Remaining(tasks'[t]) < Remaining(tasks[t])
    <3>1. tasks'[t].phase = "searching" /\ tasks'[t].repair = tasks[t].repair
      BY <2>1, TaskFacts DEF Goes, TaskRecords
    <3> QED
      BY <1>2, <1>3, <3>1, LaterPhase, Weights DEF CheckContext
  <2> QED
    BY <1>1, <1>3, <2>1, EndsAdvances DEF CheckContext
<1>4. CASE SearchKnowledge(t)
  <2>1. tasks'[t].phase = "snapshot" /\ tasks'[t].repair = tasks[t].repair
    BY <1>4, TaskFacts DEF SearchKnowledge, TaskRecords
  <2>2. Weight(tasks'[t].phase) < Weight(tasks[t].phase)
    BY <1>4, <2>1, Weights DEF SearchKnowledge
  <2> QED
    BY <1>2, <2>1, <2>2, LaterPhase
<1>5. CASE TakeSnapshot(t)
  <2>1. tasks'[t].phase \in {"saving", "generating"} /\ tasks'[t].repair = tasks[t].repair
    BY <1>5, TaskFacts DEF TakeSnapshot, TaskRecords
  <2>2. Weight(tasks'[t].phase) < Weight("snapshot")
    BY <2>1, Weights
  <2> QED
    BY <1>2, <1>5, <2>1, <2>2, LaterPhase DEF TakeSnapshot
<1>6. CASE ValidatePayload(t)
  <2>1. tasks[t].phase = "validating"
    BY <1>6 DEF ValidatePayload
  <2>2. ASSUME ~tasks[t].repair,
               tasks' = [tasks EXCEPT ![t].phase = "generating", ![t].repair = TRUE]
        PROVE  Remaining(tasks'[t]) < Remaining(tasks[t])
    <3>1. tasks'[t].phase = "generating" /\ tasks'[t].repair
      BY <2>2, TaskFacts DEF TaskRecords
    <3>2. /\ Unit \in Nat /\ Rest(tasks[t]) \in Nat
          /\ Rest(tasks'[t]) \in Nat /\ Rest(tasks'[t]) < Unit
      BY <1>2, RestBounded
    <3>3. Remaining(tasks[t]) = 8 * Unit + Weight("validating") * Unit + Rest(tasks[t])
      BY <1>2, <2>1, <2>2, RestBounded
    <3>4. Remaining(tasks'[t]) = 0 + Weight("generating") * Unit + Rest(tasks'[t])
      BY <1>2, <3>1, RestBounded
    <3> QED
      BY <3>2, <3>3, <3>4, Weights
  <2> QED
    BY <1>1, <1>6, <2>1, <2>2, EndsAdvances DEF ValidatePayload
<1>7. CASE Generate(t)
  <2>1. tasks[t].phase = "generating"
    BY <1>7 DEF Generate
  <2>2. ASSUME NEW e, tasks' = [tasks EXCEPT ![t].phase = "validating", ![t].draft = e]
        PROVE  Remaining(tasks'[t]) < Remaining(tasks[t])
    <3>1. tasks'[t].phase = "validating" /\ tasks'[t].repair = tasks[t].repair
      BY <2>2, TaskFacts DEF TaskRecords
    <3> QED
      BY <1>2, <2>1, <3>1, LaterPhase, Weights
  <2>3. ASSUME Calls(t) PROVE Remaining(tasks'[t]) < Remaining(tasks[t])
    <3>1. tasks'[t].phase = "calling" /\ tasks'[t].repair = tasks[t].repair
      BY <2>3, TaskFacts DEF Calls, TaskRecords
    <3> QED
      BY <1>2, <2>1, <3>1, LaterPhase, Weights
  <2> QED
    BY <1>1, <1>7, <2>1, <2>2, <2>3, EndsAdvances DEF Generate
<1>8. CASE UseTool(t) \/ FailPermanently(t) \/ FailTransiently(t)
  <2>1. tasks[t].phase = "calling"
    BY <1>8 DEF UseTool, FailPermanently, FailTransiently
  <2>2. /\ Turns \in Nat /\ Turns = MaxToolRounds + 2 /\ MaxToolRounds \in Nat
        /\ MaxRetries \in Nat
        /\ tasks[t].retries \in Nat /\ tasks[t].retries <= MaxRetries
        /\ tasks[t].round \in Nat /\ tasks[t].round <= MaxToolRounds + 1
    BY <1>2, PlanningAssumption DEF Turns, TaskRecords, Phased
  <2>3. ASSUME tasks' = [tasks EXCEPT ![t].round = @ + 1]
        PROVE  Remaining(tasks'[t]) < Remaining(tasks[t])
    <3>1. /\ tasks'[t].phase = "calling" /\ tasks'[t].repair = tasks[t].repair
          /\ tasks'[t].retries = tasks[t].retries /\ tasks'[t].round = tasks[t].round + 1
      BY <2>1, <2>3, TaskFacts DEF TaskRecords
    <3>2. (MaxRetries - tasks[t].retries) * Turns \in Nat
      BY <2>2, Products
    <3>3. Rest(tasks'[t]) < Rest(tasks[t])
      BY <2>1, <2>2, <3>1, <3>2 DEF Rest, TurnsLeft
    <3> QED
      BY <1>2, <2>1, <3>1, <3>3, SamePhase
  <2>4. ASSUME tasks[t].retries < MaxRetries,
               tasks' = [tasks EXCEPT ![t].phase = "sleeping", ![t].retries = @ + 1]
        PROVE  Remaining(tasks'[t]) < Remaining(tasks[t])
    <3>1. /\ tasks'[t].phase = "sleeping" /\ tasks'[t].repair = tasks[t].repair
          /\ tasks'[t].retries = tasks[t].retries + 1
      BY <2>4, TaskFacts DEF TaskRecords
    <3> DEFINE left == MaxRetries - (tasks[t].retries + 1)
    <3>2. left \in Nat /\ MaxRetries - tasks[t].retries = left + 1
      BY <2>2, <2>4
    <3>3. (left + 1) * Turns = left * Turns + Turns /\ left * Turns \in Nat
      BY <2>2, <3>2, Products
    <3>4. /\ Rest(tasks'[t]) = left * Turns + (Turns - 1)
          /\ Rest(tasks[t]) = (left + 1) * Turns + (MaxToolRounds + 1 - tasks[t].round)
      BY <2>1, <3>1, <3>2 DEF Rest, TurnsLeft
    <3>5. Rest(tasks'[t]) < Rest(tasks[t])
      <4> HIDE DEF left
      <4> QED
        BY <2>2, <3>3, <3>4
    <3> QED
      BY <1>2, <2>1, <3>1, <3>5, SamePhase, Weights
  <2> QED
    BY <1>1, <1>8, <2>1, <2>3, <2>4, EndsAdvances DEF UseTool, FailPermanently, FailTransiently
<1>9. CASE Wake(t)
  <2>1. /\ tasks'[t].phase = "calling" /\ tasks'[t].repair = tasks[t].repair
        /\ tasks'[t].retries = tasks[t].retries /\ tasks'[t].round = 1
        /\ tasks[t].phase = "sleeping"
    BY <1>9, TaskFacts DEF Wake, Calls, TaskRecords
  <2>2. /\ (MaxRetries - tasks[t].retries) * Turns \in Nat
        /\ Turns = MaxToolRounds + 2 /\ MaxToolRounds \in Nat
    BY <1>2, PlanningAssumption, Products DEF Turns, TaskRecords, Phased
  <2>3. Rest(tasks'[t]) < Rest(tasks[t])
    BY <2>1, <2>2 DEF Rest, TurnsLeft
  <2> QED
    BY <1>2, <2>1, <2>3, SamePhase, Weights
<1>10. CASE Respond(t)
  <2>1. tasks[t].phase = "calling"
    BY <1>10 DEF Respond
  <2>2. ASSUME NEW draft,
               tasks' = [tasks EXCEPT ![t].phase = "validating", ![t].draft = draft,
                                      ![t].retries = 0, ![t].round = 0]
        PROVE  Remaining(tasks'[t]) < Remaining(tasks[t])
    <3>1. tasks'[t].phase = "validating" /\ tasks'[t].repair = tasks[t].repair
      BY <2>2, TaskFacts DEF TaskRecords
    <3> QED
      BY <1>2, <2>1, <3>1, LaterPhase, Weights
  <2> QED
    BY <1>1, <1>10, <2>1, <2>2, EndsAdvances DEF Respond
<1>11. CASE SaveFails(t)
  BY <1>11, TaskFacts DEF SaveFails, Leave
<1> QED
  BY <1>3, <1>4, <1>5, <1>6, <1>7, <1>8, <1>9, <1>10, <1>11 DEF TaskStep

\* Retries, tool rounds and the repair together are bounded: every step of a call
\* of start or answer lowers what is left of it, for any bounds.
THEOREM PlanningTerminates == PlanningSpec => PlanningAdvances
<1> DEFINE Advances ==
        \A t \in Tasks :
            tasks[t].phase # "idle" /\ tasks'[t] # tasks[t] =>
                \/ tasks'[t] = NoTask
                \/ Remaining(tasks'[t]) < Remaining(tasks[t])
<1>1. ASSUME PlanningInv, [Next]_planningVars, NEW t \in Tasks,
             tasks[t].phase # "idle", tasks'[t] # tasks[t]
      PROVE  tasks'[t] = NoTask \/ Remaining(tasks'[t]) < Remaining(tasks[t])
  <2>1. CASE tasks' = [u \in Tasks |-> NoTask]
    BY <2>1
  <2>2. ASSUME NEW u \in Tasks, Start(u) \/ Answer(u) \/ TaskStep(u), ~Save(u)
        PROVE  tasks'[t] = NoTask \/ Remaining(tasks'[t]) < Remaining(tasks[t])
    <3>1. u = t
      BY <1>1, <2>2, TaskStepsQuiet DEF Quiet
    <3>2. ~Start(t) /\ ~Answer(t)
      BY <1>1 DEF Start, Answer
    <3> QED
      BY <1>1, <2>2, <3>1, <3>2, StepAdvances
  <2>3. ASSUME NEW u \in Tasks, Save(u)
        PROVE  tasks'[t] = NoTask
    BY <1>1, <2>3, TaskFacts DEF Save, Leave
  <2>4. ~PrepareWorkflow /\ ~Ingest /\ ~UNCHANGED planningVars
    BY <1>1 DEF PrepareWorkflow, Ingest, planningVars
  <2>5. (\E u \in Tasks : CrashWhileSaving(u)) \/ Crash => tasks' = [u \in Tasks |-> NoTask]
    BY DEF CrashWhileSaving, Crash, Dies
  <2> QED
    BY <1>1, <2>1, <2>2, <2>3, <2>4, <2>5 DEF Next
<1>2. PlanningInv /\ [Next]_planningVars => [Advances]_planningVars
  BY <1>1
<1> QED
  BY <1>2, Invariance, PTL DEF PlanningSpec, PlanningAdvances

=============================================================================
