------------------------------ MODULE MCMemory ------------------------------
(* Model values for Memory.                                                 *)
EXTENDS Memory, TLC

CONSTANTS r1, r2, m1, m2

MCSymmetry == Permutations(Runs) \cup Permutations(Matches)

=============================================================================
