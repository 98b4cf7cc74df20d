---------------------------- MODULE MCWorkbench ----------------------------
(* Two quant nodes whose ids collapse to one directory, three calls, and    *)
(* mixtures that are covered, lack a row the guard asks for or one it does  *)
(* not, contradict themselves, or hold a world that cannot be simulated.    *)
(* The second file's name has a colon.                                      *)
EXTENDS Workbench

CONSTANTS q1, q2, a, b, c, evidence, france, covered, gappy, pricey, killed, frozen

TwoNodes == {q1, q2}
ThreeCalls == {a, b, c}
TwoSiblings == (a :> q1) @@ (b :> q1) @@ (c :> q2)
Siblings == Permutations({a, b})
OneDir == [n \in TwoNodes |-> "quant_1"]
UpToColon == ("mixture.json" :> "mixture.json") @@ ("mixture.json:b.json" :> "mixture.json")

Checked(keys) ==
    [key \in AuditKeys |-> [status |-> IF key \in keys THEN "checked" ELSE "absent",
                            teams |-> IF key = "market_gap" THEN {france} ELSE {}]]
Leaving(key, audit) == [audit EXCEPT ![key].status = "missing"]

Weights(w) == (model_base :> 50) @@ (market_base :> 50 - w) @@ (evidence :> w)
Mixture(w, audit, branches) ==
    [weights |-> Weights(w), fixed |-> {}, priced |-> TRUE, audited |-> "rows", audit |-> audit,
     branches |-> branches]

MCOutputs == ("mixture.json" :> {covered, gappy, killed, frozen}) @@
             ("mixture.json:b.json" :> {pricey, Empty})
MCMixtures == {covered, gappy, pricey, killed, frozen}
MCPayload ==
    (covered :> Mixture(20, Checked(AuditKeys), {})) @@
    (gappy :> Mixture(20, Leaving("bases", Checked(AuditKeys)), {})) @@
    (pricey :> Mixture(20, Leaving("ledger_pricing", Checked(AuditKeys)), {})) @@
    (killed :> Mixture(20, Checked(AuditKeys),
                       {[status |-> "merged_into_base", worlds |-> {evidence}]})) @@
    (frozen :> [Mixture(20, Checked(AuditKeys), {}) EXCEPT !.fixed = {evidence}])

=============================================================================
