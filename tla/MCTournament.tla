---------------------------- MODULE MCTournament ----------------------------
(* Model values for Tournament: three groups and a bracket of eight.  The   *)
(* results of two groups are known but for a match, of the third those of   *)
(* a matchday; one tie of the bracket has a known winner.                   *)
EXTENDS Tournament

CONSTANTS A, B, C, a1, a2, a3, a4, b1, b2, b3, b4, c1, c2, c3, c4

MCGroupOf == [t \in Teams |->
    CASE t \in {a1, a2, a3, a4} -> A [] t \in {b1, b2, b3, b4} -> B [] OTHER -> C]

Round(first, g, t1, t2, t3, t4) ==
    << <<first, t1, t2>>, <<first + 1, t3, t4>>, <<first + 2, t1, t3>>, <<first + 3, t2, t4>>,
       <<first + 4, t4, t1>>, <<first + 5, t2, t3>> >>

Listed(rows, g) ==
    [i \in DOMAIN rows |->
        [match |-> rows[i][1], group |-> g, home |-> rows[i][2], away |-> rows[i][3]]]

MCGroupMatches ==
    Listed(Round(1, B, b1, b2, b3, b4), B) \o Listed(Round(7, C, c1, c2, c3, c4), C)
        \o Listed(Round(13, A, a1, a2, a3, a4), A)

Tie(match, stage, home, away, date, kickoff, city) ==
    [match |-> match, stage |-> stage, home |-> home, away |-> away, date |-> date,
     kickoff |-> kickoff, city |-> city]

\* Two ties of one day, two of one hour, and two of which the day tells.
MCKnockout ==
    << Tie(21, "qf", FinishOf(1, A), Third, 1, 1, "Boston"),
       Tie(22, "qf", FinishOf(1, B), Third, 1, 2, "Dallas"),
       Tie(23, "qf", FinishOf(1, C), FinishOf(2, B), 2, 3, "Boston"),
       Tie(24, "qf", FinishOf(2, A), FinishOf(2, C), 2, 3, "Dallas"),
       Tie(25, "sf", WinnerOf(21), WinnerOf(24), 3, 4, "Boston"),
       Tie(26, "sf", WinnerOf(22), WinnerOf(23), 4, 5, "Boston"),
       Tie(27, "third_place", LoserOf(25), LoserOf(26), 5, 6, "Dallas"),
       Tie(28, "final", WinnerOf(25), WinnerOf(26), 6, 7, "Boston") >>

MCAllocation ==
    ({A, B} :> (21 :> B @@ 22 :> A)) @@ ({A, C} :> (21 :> C @@ 22 :> A))
        @@ ({B, C} :> (21 :> B @@ 22 :> C))

MCGroups == <<A, B, C>>
MCStages == <<"qf", "sf", "final">>

Score(h, a) == [home |-> h, away |-> a]

MCScores == {Score(2, 0), Score(0, 0), Score(0, 1)}

\* b1 and c1 win their groups.
Known(h, a) == [home |-> h, away |-> a, winner |-> NoTeam]
MCPlayed ==
    1 :> Known(1, 0) @@ 2 :> Known(1, 0) @@ 3 :> Known(1, 0) @@ 4 :> Known(1, 0)
      @@ 5 :> Known(0, 1)
      @@ 7 :> Known(1, 0) @@ 8 :> Known(1, 0) @@ 9 :> Known(1, 0) @@ 10 :> Known(1, 0)
      @@ 11 :> Known(0, 1) @@ 12 :> Known(1, 1)
      @@ 13 :> Known(1, 0) @@ 14 :> Known(0, 0)
      @@ 23 :> [home |-> 1, away |-> 0, winner |-> c1]

=============================================================================
