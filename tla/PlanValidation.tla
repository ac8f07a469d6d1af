--------------------------- MODULE PlanValidation ---------------------------
(***************************************************************************)
(* From a model's draft to a workflow definition: PlanValidator.validate,  *)
(* WorkflowDefinitionMapper.prepare and WorkflowDefinition.from_mapping,   *)
(* with the cycle search both of them use.                                 *)
(*                                                                         *)
(* A draft is what the schema of ChangePlan lets through: distinct step    *)
(* ids, and for each one what it depends on and what it claims.  A plan is *)
(* validated when it is made and again when it is prepared, which may be   *)
(* after a restart with another catalogue of policies.                     *)
(***************************************************************************)
EXTENDS Integers, Sequences, FiniteSetsExt

CONSTANTS
    PlanSteps,     \* the step ids of a draft, ordered as the code sorts them
    Strangers,     \* ids a draft may depend on and does not define
    Claims,        \* what each step may claim: a set of claims per step
    Tools,         \* the registered tools
    DescriptorRisk,\* the risk each one's descriptor declares
    Policies,      \* version -> tool -> policy, for the tools it governs
    Retrieved,     \* the evidence at hand
    Trusted,       \* the part of it that meets the policies' trust threshold
    Conflicted,    \* the part of it marked as conflicting
    MaxSteps,      \* MAX_STEPS
    MaxEdges       \* MAX_EDGES

Low == 0
High == 2
Risks == Low..High
NoTool == "none"

Versions == DOMAIN Policies

ASSUME ValidationAssumption ==
    /\ PlanSteps \subseteq Nat /\ IsFiniteSet(PlanSteps)
    /\ NoTool \notin Tools
    /\ \A s \in PlanSteps : \A c \in Claims[s] :
          /\ c = [tool |-> c.tool, risk |-> c.risk, asks |-> c.asks, undo |-> c.undo,
                  intends |-> c.intends, cites |-> c.cites,
                  argumentsFit |-> c.argumentsFit]
          /\ c.risk \in Risks
    /\ DescriptorRisk \in [Tools -> Risks]
    /\ \A v \in Versions : \A t \in DOMAIN Policies[v] :
          Policies[v][t].minimumRisk \in Risks
    /\ Trusted \subseteq Retrieved /\ Conflicted \subseteq Retrieved

VARIABLES
    draft,      \* the model's payload: dependencies and claims
    catalog,    \* the version of the policies in force
    stage,      \* how far the plan is
    plan,       \* the normalized plan and the catalogue it was made under
    definition  \* the steps of the workflow definition

validationVars == <<draft, catalog, stage, plan, definition>>

Empty == <<>>

-----------------------------------------------------------------------------
(***************************************************************************)
(* find_cycle.                                                             *)
(***************************************************************************)
Ordered(S) ==
    CHOOSE q \in [1..Cardinality(S) -> S] : \A i, k \in DOMAIN q : i < k => q[i] < q[k]

\* Mutant: a step is freed by the first of its dependencies.
FreedTooEarly(deps, degree, s) ==
    {t \in DOMAIN deps : s \in deps[t] /\ degree[t] = Cardinality(deps[t])}

\* The steps that become ready when s has been visited.
Freed(deps, degree, s) ==
    {t \in DOMAIN deps : s \in deps[t] /\ degree[t] = 1}

Visit(deps, search) ==
    LET s == Head(search.queue)
    IN  [queue   |-> Tail(search.queue) \o Ordered(Freed(deps, search.degree, s)),
         degree  |-> [t \in DOMAIN deps |->
                         search.degree[t] - (IF s \in deps[t] THEN 1 ELSE 0)],
         visited |-> search.visited + 1]

Unvisited(deps) ==
    [queue   |-> Ordered({s \in DOMAIN deps : deps[s] = {}}),
     degree  |-> [s \in DOMAIN deps |-> Cardinality(deps[s])],
     visited |-> 0]

Visited(deps, search) == IF search.queue = <<>> THEN search ELSE Visit(deps, search)

\* The breadth-first search, by the number of steps taken off its queue.
Search(deps) ==
    LET after[n \in 0..Cardinality(DOMAIN deps)] ==
            IF n = 0 THEN Unvisited(deps) ELSE Visited(deps, after[n - 1])
    IN  after[Cardinality(DOMAIN deps)]

\* The steps reported as a cycle; none if there is no cycle.
FindCycle(deps) ==
    LET search == Search(deps)
    IN  IF search.visited = Cardinality(DOMAIN deps)
        THEN {}
        ELSE {s \in DOMAIN deps : search.degree[s] > 0}

UnknownDependency(deps) ==
    \E s \in DOMAIN deps : ~(deps[s] \subseteq DOMAIN deps)

-----------------------------------------------------------------------------
(***************************************************************************)
(* PlanValidator.                                                          *)
(***************************************************************************)
Governed(tool) == tool \in DOMAIN Policies[catalog]

Policy(tool) == Policies[catalog][tool]

MaxRisk(S) == CHOOSE r \in S : \A other \in S : other <= r

\* Mutant: the policy does not raise the risk.
FinalRiskAsClaimed(claim) == MaxRisk({claim.risk, DescriptorRisk[claim.tool]})

FinalRisk(claim) ==
    MaxRisk({claim.risk, DescriptorRisk[claim.tool],
             IF Governed(claim.tool) THEN Policy(claim.tool).minimumRisk
                                     ELSE DescriptorRisk[claim.tool]})

CompensationIssue(claim) ==
    /\ Policy(claim.tool).compensationRequired
    /\ claim.undo \notin Tools \/ ~claim.intends

\* A citation that is not among the retrieved evidence.
CitationIssue(claim) == ~(claim.cites \subseteq Retrieved)

EvidenceIssue(claim) ==
    \/ CitationIssue(claim)
    \/ claim.cites \cap Conflicted # {}
    \/ Policy(claim.tool).sideEffecting /\ claim.cites \cap Trusted = {}

StepIssue(claim) ==
    \/ claim.tool \notin Tools
    \/ ~claim.argumentsFit
    \/ IF Governed(claim.tool)
       THEN CompensationIssue(claim) \/ EvidenceIssue(claim)
       ELSE CitationIssue(claim)

Normalized(claim) ==
    [claim EXCEPT !.risk = FinalRisk(claim),
                  !.asks = claim.asks \/ FinalRisk(claim) = High]

\* Mutant: unknown dependencies only keep the cycle search from running.
InvalidUnlessCyclic(deps, claims, version) ==
    \/ ~UnknownDependency(deps) /\ FindCycle(deps) # {}
    \/ \E s \in DOMAIN claims : StepIssue(claims[s])
    \/ version # catalog

Invalid(deps, claims, version) ==
    \/ UnknownDependency(deps)
    \/ FindCycle(deps) # {}
    \/ \E s \in DOMAIN claims : StepIssue(claims[s])
    \/ version # catalog

NormalizedSteps(claims) == [s \in DOMAIN claims |-> Normalized(claims[s])]

\* The limits from_mapping sets and the validator does not know.
TooLarge(deps) ==
    \/ Cardinality(DOMAIN deps) > MaxSteps
    \/ MapThenSumSet(LAMBDA s : Cardinality(deps[s]), DOMAIN deps) > MaxEdges

\* The payload names an unregistered compensation tool only if no policy
\* asked for one: from_mapping looks at every one of them.
DefinitionError(deps, claims) ==
    \/ TooLarge(deps)
    \/ \E s \in DOMAIN claims :
           \/ claims[s].tool \notin Tools
           \/ ~claims[s].argumentsFit
           \/ claims[s].undo \notin Tools \cup {NoTool}
    \/ UnknownDependency(deps)
    \/ FindCycle(deps) # {}

\* What the payload keeps of a step: approval_required stays behind.
Mapped(claim) == [tool |-> claim.tool, risk |-> claim.risk, undo |-> claim.undo]

\* _requires_approval of the coordinator, on a step of the definition.
RequiresApproval(step) == step.risk = High \/ DescriptorRisk[step.tool] = High

-----------------------------------------------------------------------------
Init ==
    /\ draft \in [deps: [PlanSteps -> SUBSET (PlanSteps \cup Strangers)],
                  claims: {c \in [PlanSteps -> UNION {Claims[s] : s \in PlanSteps}] :
                              \A s \in PlanSteps : c[s] \in Claims[s]}]
    /\ catalog \in Versions
    /\ stage = "drafted"
    /\ plan = Empty
    /\ definition = Empty

\* _validate_payload stamps the versions on the payload and validates it.
Validate ==
    /\ stage = "drafted"
    /\ IF Invalid(draft.deps, draft.claims, catalog)
       THEN stage' = "rejected" /\ plan' = plan
       ELSE /\ stage' = "ready"
            /\ plan' = [deps |-> draft.deps, claims |-> NormalizedSteps(draft.claims),
                        version |-> catalog]
    /\ UNCHANGED <<draft, catalog, definition>>

\* The service comes up again with other policies.
ChangeCatalog ==
    /\ stage = "ready"
    /\ \E v \in Versions \ {catalog} : catalog' = v
    /\ UNCHANGED <<draft, stage, plan, definition>>

Prepare ==
    /\ stage = "ready"
    /\ LET claims == NormalizedSteps(plan.claims)
       IN  IF Invalid(plan.deps, plan.claims, plan.version)
              \/ DefinitionError(plan.deps, claims)
           THEN stage' = "refused" /\ definition' = definition
           ELSE /\ stage' = "prepared"
                /\ definition' = [s \in PlanSteps |-> Mapped(claims[s])]
    /\ UNCHANGED <<draft, catalog, plan>>

Next == Validate \/ ChangeCatalog \/ Prepare

ValidationSpec == Init /\ [][Next]_validationVars

-----------------------------------------------------------------------------
(***************************************************************************)
(* What the algorithms are compared with.                                  *)
(***************************************************************************)
\* The steps that could never run: each waits for another one of them.
Stuck(deps) ==
    UNION {U \in SUBSET DOMAIN deps : \A s \in U : deps[s] \cap U # {}}

Stages == {"drafted", "ready", "rejected", "prepared", "refused"}

\* Type invariant.  A plan exists from validation on and a definition from
\* preparation on, both over the steps of the draft; the normalized plan of
\* validation.py keeps the tools and dependencies the draft named.
ValidationTypeOK ==
    /\ stage \in Stages /\ catalog \in Versions
    /\ stage \in {"drafted", "rejected"} <=> plan = Empty
    /\ plan # Empty =>
           /\ plan.deps = draft.deps
           /\ DOMAIN plan.claims = PlanSteps
           /\ \A s \in PlanSteps : plan.claims[s].tool = draft.claims[s].tool
    /\ IF stage = "prepared" THEN DOMAIN definition = PlanSteps
                             ELSE definition = Empty

\* When a draft whose dependencies are all defined is validated, find_cycle
\* (workflow/domain/validation.py) reports exactly the steps that could never
\* run: those on a cycle and those that wait for one.
CycleFound ==
    stage \in {"ready", "rejected"} /\ ~UnknownDependency(draft.deps) =>
        FindCycle(draft.deps) = Stuck(draft.deps)

\* A prepared definition obeys the policies in force when it was prepared,
\* whatever the draft claimed and under whichever catalogue it was made: its
\* steps can all run, no risk is below the claim, the descriptor or the policy,
\* a step of high risk stops for approval, and what a governed step needs of
\* compensation and trusted evidence is there.
PreparedIsGoverned ==
    stage = "prepared" =>
        /\ ~UnknownDependency(plan.deps) /\ Stuck(plan.deps) = {}
        /\ \A s \in PlanSteps :
               LET step  == definition[s]
                   claim == draft.claims[s]
               IN  /\ step.tool \in Tools
                   /\ step.risk >= claim.risk
                   /\ step.risk >= DescriptorRisk[step.tool]
                   /\ step.undo \in Tools \cup {NoTool}
                   /\ claim.cites \subseteq Retrieved
                   /\ step.tool \in DOMAIN Policies[catalog] =>
                          LET policy == Policies[catalog][step.tool]
                          IN  /\ step.risk >= policy.minimumRisk
                              /\ policy.minimumRisk = High => RequiresApproval(step)
                              /\ policy.compensationRequired =>
                                     step.undo # NoTool /\ claim.intends
                              /\ policy.sideEffecting => claim.cites \cap Trusted # {}

\* A step no policy obliges to have a compensation names one that is not
\* registered: the validator does not look at it, from_mapping does.
UncheckedCompensation(claim) ==
    /\ claim.undo \notin Tools \cup {NoTool}
    /\ ~(Governed(claim.tool) /\ Policy(claim.tool).compensationRequired)

\* The validator and from_mapping agree: under the policies it was made with, a
\* plan that was announced as ready is prepared, and with exactly the risks it
\* was announced with, unless it is too large for a workflow or names an
\* unchecked compensation.
ReadyIsPrepared ==
    [][(stage = "ready" /\ stage' # "ready" /\ plan.version = catalog) =>
          IF TooLarge(plan.deps) \/ \E s \in PlanSteps : UncheckedCompensation(plan.claims[s])
          THEN stage' = "refused"
          ELSE /\ stage' = "prepared"
               /\ \A s \in PlanSteps :
                      definition'[s].risk = plan.claims[s].risk]_validationVars

=============================================================================
