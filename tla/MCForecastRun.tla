---------------------------- MODULE MCForecastRun ----------------------------
(* Finite values for ForecastRun's constants: the runtime's seed mixture,   *)
(* one or two quant mixtures, and submissions that cite them.               *)
EXTENDS ForecastRun, TLC

CONSTANTS seed, m1, m2, sSeed, s1, s2, c1, c2, auto, copyA, codeA

MCMixtures == {seed, m1}
MCSubmissions == {sSeed, s1}
MCArtifactOf == (sSeed :> seed) @@ (s1 :> m1)

\* A lineage: m2 may replace m1, each with a submission that cites it.
LineageMixtures == {seed, m1, m2}
LineageSubmissions == {s1, s2}
LineageArtifactOf == (s1 :> m1) @@ (s2 :> m2)

=============================================================================
