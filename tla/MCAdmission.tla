----------------------------- MODULE MCAdmission -----------------------------
(* Finite values for Admission's constants: two or three master-written ids *)
(* beside the coverage node's, caps that bind.                              *)
EXTENDS Admission, TLC

CONSTANTS cov, n1, n2, n3, runtime

MCIds == {cov, n1, n2, n3}
MCKindCap == "research" :> 1 @@ "quant" :> 2 @@ "forecast" :> 1 @@ "critic" :> 1
MCSymmetry == Permutations({n1, n2, n3})

=============================================================================
