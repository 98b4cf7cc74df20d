----------------------------- MODULE MCArchive -----------------------------
(* Two agent runs and a live one, over two days or with two stamps alike.  *)
EXTENDS Archive, TLC

CONSTANTS first, live, last

MCKeys == <<first, last, live>>
MCStamps == { first :> 1 @@ live :> 2 @@ last :> 3,
              first :> 1 @@ live :> 3 @@ last :> 1 }
MCAgents == {first, last}
MCAsked == {{1}, {2}}
MCSymmetry == Permutations(Hosts)
=============================================================================
