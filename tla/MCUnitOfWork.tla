---------------------------- MODULE MCUnitOfWork ----------------------------
\* Instances of UnitOfWork: one run with a step, an attempt and two requests.
EXTENDS UnitOfWork, TLC

CONSTANTS d1, r1, s1, a1, p1, p2

AllParents == (s1 :> r1) @@ (a1 :> s1) @@ (p1 :> r1) @@ (p2 :> r1)

Interchangeable == Permutations(Uows)

=============================================================================
