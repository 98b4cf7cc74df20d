------------------------------ MODULE MCEngine ------------------------------
(* Model values for Engine.                                                 *)
EXTENDS Engine

CONSTANT c1

=============================================================================
