----------------------------- MODULE MCLivePass -----------------------------
(* Model values for LivePass: the score of one match is corrected once.     *)
EXTENDS LivePass, TLC

CONSTANTS m1, m2

MCRevisions == m1 :> 2 @@ m2 :> 1

=============================================================================
