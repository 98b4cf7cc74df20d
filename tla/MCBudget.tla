------------------------------ MODULE MCBudget ------------------------------
(* Finite values for Budget's constants: two ordinary agents side by side,  *)
(* a repairing quant node, the forecast node and the referee.               *)
EXTENDS Budget, TLC

CONSTANTS master, scout, quant, forecast, referee

MCRole == master :> "ordinary" @@ scout :> "ordinary" @@ quant :> "repair" @@ forecast :> "forecast"
              @@ referee :> "referee"
MCSymmetry == Permutations({master, scout})

=============================================================================
