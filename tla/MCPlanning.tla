----------------------------- MODULE MCPlanning -----------------------------
EXTENDS Planning, TLC

\* Tasks differ in nothing but their name.
TaskSymmetry == Permutations(Tasks)

=============================================================================
