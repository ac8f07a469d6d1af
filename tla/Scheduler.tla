------------------------------ MODULE Scheduler ------------------------------
(***************************************************************************)
(* workflow/application/scheduler.py: which steps may start, and in which  *)
(* order the effects of completed steps are compensated.  Step ids are     *)
(* natural numbers so that the sort by id is <.                            *)
(***************************************************************************)
EXTENDS Integers, Sequences, FiniteSetsExt, WorkflowStates

CONSTANTS
    Steps,        \* the ids of the definition's steps
    DependsOn,    \* step.depends_on of each step
    Compensable   \* the steps that declare a compensation_tool

ASSUME StepsAssumption == Steps \subseteq Nat /\ IsFiniteSet(Steps) /\ Steps # {}

ASSUME DependsOnAssumption == DependsOn \in [Steps -> SUBSET Steps]

ASSUME CompensableAssumption == Compensable \subseteq Steps

(***************************************************************************)
(* workflow/domain/validation.py rejects a definition with a cycle.        *)
(***************************************************************************)
ASSUME AcyclicAssumption ==
    \E rank \in [Steps -> 1..Cardinality(Steps)] :
        \A s \in Steps : \A d \in DependsOn[s] : rank[d] < rank[s]

Depth[s \in Steps] ==
    IF DependsOn[s] = {} THEN 0
                         ELSE 1 + Max({Depth[d] : d \in DependsOn[s]})

DependenciesMet(step, s) == \A d \in DependsOn[s] : step[d] = "succeeded"

\* Mutant: dependencies are not looked at.
ReadyStepsUnordered(step) == {s \in Steps : step[s] \in {"pending", "ready"}}

ReadySteps(step) ==
    {s \in Steps : step[s] \in {"pending", "ready"} /\ DependenciesMet(step, s)}

\* The order of the sorted() call: by topological depth, then by id.
Before(s, u) == Depth[s] < Depth[u] \/ (Depth[s] = Depth[u] /\ s < u)

\* The first n steps of S in that order.
FirstSteps(S, n) == {s \in S : Cardinality({u \in S : Before(u, s)}) < n}

Succeeded(a) == a.status \in {"success", "succeeded"}

\* Mutant: effects established by recovery are overlooked.
CompensableReportedEffects(step, forward) ==
    {s \in Compensable :
        /\ step[s] = "succeeded"
        /\ \E n \in DOMAIN forward[s] :
              forward[s][n].status = "success" /\ forward[s][n].effect}

(***************************************************************************)
(* The steps whose forward effect has to be undone: a compensation tool, a *)
(* step that succeeded, and an attempt that reported its effect.           *)
(***************************************************************************)
CompensableEffects(step, forward) ==
    {s \in Compensable :
        /\ step[s] = "succeeded"
        /\ \E n \in DOMAIN forward[s] : Succeeded(forward[s][n]) /\ forward[s][n].effect}

(***************************************************************************)
(* compensation_order: repeatedly take, among the remaining steps no       *)
(* remaining step depends on directly, the one with the greatest           *)
(* completion_sequence, the smallest id breaking ties.  A sequence of 0    *)
(* stands for None, which the code reads as 0.                             *)
(***************************************************************************)
\* Mutant: only completion_sequence orders the compensations.
LeavesIgnoringDependents(R) == R

Leaves(R) == {s \in R : \A u \in R : s \notin DependsOn[u]}

LastCompleted(seq, L) ==
    CHOOSE s \in L : \A u \in L \ {s} : seq[s] > seq[u] \/ (seq[s] = seq[u] /\ s < u)

CompensationOrder(step, seq, forward) ==
    LET order[R \in SUBSET Steps] ==
            IF R = {} THEN <<>>
            ELSE LET s == LastCompleted(seq, Leaves(R))
                 IN  <<s>> \o order[R \ {s}]
    IN  order[CompensableEffects(step, forward)]
=============================================================================
