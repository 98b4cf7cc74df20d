----------------------------- MODULE Tournament -----------------------------
(***************************************************************************)
(* One column of run_tournament (sim/mc.py): a tournament is played out    *)
(* over the results that are known, group matches by date, the ranking of  *)
(* the groups and of the third-placed teams, the draw by FIFA's table, and *)
(* the knockout ties by their number.                                      *)
(*                                                                         *)
(* Beside it, what is computed from a column: the dates from which a       *)
(* team's finish was certain (sim/lock.py), the rounds it reached          *)
(* (sim/outputs.py), and the match a provider's fixture is taken for       *)
(* (sim/overlay.py), here asked of every tie the column can pair.          *)
(*                                                                         *)
(* Lots and matches that have no result are open.                          *)
(***************************************************************************)
EXTENDS Integers, Sequences, SequencesExt

CONSTANTS
    Groups,             \* GROUPS, in their order
    Teams,
    GroupOf,            \* [Teams -> groups], four teams in each
    GroupMatches,       \* sequence of [match, group, home, away], by date
    Knockout,           \* sequence of [match, stage, home, away, date, kickoff, city], by match
    Stages,             \* the winners' stages in their order, and the third-place match apart
    ThirdsQualifying,   \* third-placed teams that go on
    Allocation,         \* third_place_table: [sets of that many groups -> [match -> group]]
    Scores,             \* bound: scores a group match may have
    Played,             \* results that are known: [matches -> [home, away, winner]]
    NoTeam, NoMatch, NoCity

MATCHES_PER_MATCHDAY == 2
GAMES_PER_TEAM == 3

Ties == {Knockout[i] : i \in DOMAIN Knockout}
Members(g) == {t \in Teams : GroupOf[t] = g}

\* A slot of the bracket: a finish in a group, a third, or the side of an earlier tie.
FinishOf(pos, g) == [kind |-> "finish", pos |-> pos, group |-> g]
Third == [kind |-> "third"]
WinnerOf(match) == [kind |-> "winner", of |-> match]
LoserOf(match) == [kind |-> "loser", of |-> match]

ASSUME TournamentAssumption ==
    /\ Groups \in Seq(Range(Groups)) \ {<<>>} /\ IsInjective(Groups)
    /\ GroupOf \in [Teams -> Range(Groups)]
    /\ \A g \in Range(Groups) : Cardinality(Members(g)) = 4
    /\ NoTeam \notin Teams

\* The schedule: the group matches, of which two make a matchday and each team plays in one.
Meetings == {GroupMatches[i] : i \in DOMAIN GroupMatches}
Rounds(n, g) == {i \in 1..n : GroupMatches[i].group = g}
Games(n, t) == {i \in 1..n : t \in {GroupMatches[i].home, GroupMatches[i].away}}

ASSUME ScheduleAssumption ==
    /\ GroupMatches \in Seq(Meetings) \ {<<>>}
    /\ \A m \in Meetings : /\ m.group \in Range(Groups) /\ m.home # m.away
                           /\ {m.home, m.away} \subseteq Members(m.group)
    /\ \A i, j \in DOMAIN GroupMatches : GroupMatches[i].match = GroupMatches[j].match => i = j
    /\ \A n \in 0..Len(GroupMatches), t \in Teams :
          LET rounds == Cardinality(Rounds(n, GroupOf[t]))
          IN  rounds % MATCHES_PER_MATCHDAY = 0 =>
                  Cardinality(Games(n, t)) = rounds \div MATCHES_PER_MATCHDAY
    /\ \A t \in Teams : Cardinality(Games(Len(GroupMatches), t)) = GAMES_PER_TEAM

\* The bracket: a first stage of the two best of every group and the thirds that qualify,
\* stages of the winners of the one before, and a match of the losers of two ties of one.
TiesOf(stage) == {k \in Ties : k.stage = stage}
Slots(k) == {k.home, k.away}
ThirdTies == {k.match : k \in {k \in Ties : Third \in Slots(k)}}

ASSUME BracketAssumption ==
    /\ Knockout \in Seq(Ties) \ {<<>>}
    /\ \A i, j \in DOMAIN Knockout : Knockout[i].match = Knockout[j].match => i = j
    /\ \A i \in DOMAIN Knockout, slot \in UNION {Slots(k) : k \in Ties} :
          slot \in Slots(Knockout[i]) /\ slot.kind \in {"winner", "loser"} =>
              \E j \in 1..(i - 1) : slot.of = Knockout[j].match
    /\ Stages \in Seq(Range(Stages)) \ {<<>>} /\ IsInjective(Stages)
    /\ \A k \in Ties : k.home # k.away
    /\ \A k, l \in Ties : k.stage = l.stage /\ k # l => Slots(k) \cap Slots(l) \subseteq {Third}
    /\ \A k \in TiesOf(Stages[1]) : \A slot \in Slots(k) \ {Third} :
          \E pos \in 1..2, g \in Range(Groups) : slot = FinishOf(pos, g)
    /\ \A pos \in 1..2, g \in Range(Groups) :
          \E k \in TiesOf(Stages[1]) : FinishOf(pos, g) \in Slots(k)
    /\ \A i \in 1..(Len(Stages) - 1) :
          UNION {Slots(k) : k \in TiesOf(Stages[i + 1])} =
              {WinnerOf(k.match) : k \in TiesOf(Stages[i])}
    /\ \A k \in Ties : k.stage \notin Range(Stages) =>
          /\ TiesOf(k.stage) = {k}
          /\ \E a, b \in Ties : /\ a.stage = b.stage /\ a # b
                               /\ k.home = LoserOf(a.match) /\ k.away = LoserOf(b.match)
    /\ DOMAIN Allocation = kSubset(ThirdsQualifying, Range(Groups))
    /\ \A Q \in DOMAIN Allocation : Allocation[Q] \in Bijection(ThirdTies, Q)

\* The calendar: no two ties on one day in one city.
ASSUME CalendarAssumption ==
    /\ \A k, l \in Ties : k.date = l.date /\ k.city = l.city => k = l
    /\ \A k \in Ties : k.kickoff # 0 /\ k.city # NoCity

VARIABLES
    next,       \* the next match of the phase
    phase,      \* "groups", "ranking", "thirds", "knockout" or "done"
    goals,      \* group_goals so far: [matches -> [home, away]]
    pts, gf, ga,
    locked,     \* teams whose first place was certain after a matchday
    place,      \* rank_in_group, of the groups ranked so far
    qualified,  \* groups whose third goes on
    tie         \* ties so far: [matches -> [home, away, winner]]

tableVars == <<goals, pts, gf, ga, locked>>
tournamentVars == <<next, phase, tableVars, place, qualified, tie>>

Zero == [t \in Teams |-> 0]

\* A dictionary, and the entries that are set in it.
Joined(f, g) == [x \in DOMAIN f \cup DOMAIN g |-> IF x \in DOMAIN f THEN f[x] ELSE g[x]]

TournamentInit ==
    /\ next = 1 /\ phase = "groups"
    /\ goals = <<>> /\ pts = Zero /\ gf = Zero /\ ga = Zero
    /\ locked = {} /\ place = <<>> /\ qualified = {} /\ tie = <<>>

-----------------------------------------------------------------------------
(* The tables.                                                              *)

Won(for, against) == CASE for > against -> 3 [] for = against -> 1 [] OTHER -> 0

\* Lexicographically greater.
Above(k, l) == \E i \in DOMAIN k : k[i] > l[i] /\ \A j \in 1..(i - 1) : k[j] = l[j]

\* Points, goal difference and goals, of the group's table and of the thirds'.
Table(t) == <<pts[t], gf[t] - ga[t], gf[t]>>

\* The same between the teams of the group that are level on points.
HeadToHead(t) ==
    LET mutual == {m \in Meetings : t \in {m.home, m.away} /\ pts[m.home] = pts[m.away]}
        For(m) == IF m.home = t THEN goals[m.match].home ELSE goals[m.match].away
        Against(m) == IF m.home = t THEN goals[m.match].away ELSE goals[m.match].home
    IN  <<MapThenSumSet(LAMBDA m : Won(For(m), Against(m)), mutual),
          MapThenSumSet(LAMBDA m : For(m) - Against(m), mutual),
          MapThenSumSet(For, mutual)>>

\* rank_group's keys; lots decide between teams of equal keys.
RanksAbove(t, o) ==
    \/ Above(Table(t), Table(o))
    \/ Table(t) = Table(o) /\ Above(HeadToHead(t), HeadToHead(o))

\* The rankings of group g that lots may lead to.
Rankings(g) ==
    {r \in Bijection(Members(g), 0..3) :
        \A t, o \in Members(g) : r[t] > r[o] => ~RanksAbove(t, o)}

At(pos, g) == CHOOSE t \in Members(g) : place[t] = pos - 1

-----------------------------------------------------------------------------
(* lock.py.                                                                 *)

\* Mutant of Certain: level on points is taken for ahead.
CertainIfLevel(t, points, remaining) ==
    \A o \in Members(GroupOf[t]) \ {t} : points[o] + 3 * remaining <= points[t]

\* Nobody can reach team t any more, whatever the remaining matches bring.
Certain(t, points, remaining) ==
    \A o \in Members(GroupOf[t]) \ {t} : points[o] + 3 * remaining < points[t]

\* The group's matches by date, in chunks of a matchday, the last left out.
LocksAfter(g, score, points) ==
    LET rounds == Cardinality({m \in Meetings : m.group = g /\ m.match \in DOMAIN score})
        remaining == GAMES_PER_TEAM - (rounds \div MATCHES_PER_MATCHDAY)
    IN  IF rounds % MATCHES_PER_MATCHDAY # 0 \/ remaining = 0 THEN {}
        ELSE {t \in Members(g) : Certain(t, points, remaining)}

-----------------------------------------------------------------------------
(* run_tournament.                                                          *)

\* A result that is known, or a score of the engine's or of the live distribution's.
PlayGroupMatch ==
    /\ phase = "groups"
    /\ LET m == GroupMatches[next]
       IN  \E s \in IF m.match \in DOMAIN Played
                    THEN {[home |-> Played[m.match].home, away |-> Played[m.match].away]} ELSE Scores :
            /\ goals' = Joined(goals, [n \in {m.match} |-> s])
            /\ pts' = [pts EXCEPT ![m.home] = @ + Won(s.home, s.away),
                                  ![m.away] = @ + Won(s.away, s.home)]
            /\ gf' = [gf EXCEPT ![m.home] = @ + s.home, ![m.away] = @ + s.away]
            /\ ga' = [ga EXCEPT ![m.home] = @ + s.away, ![m.away] = @ + s.home]
            /\ locked' = locked \cup LocksAfter(m.group, goals', pts')
    /\ phase' = IF next = Len(GroupMatches) THEN "ranking" ELSE "groups"
    /\ next' = IF next = Len(GroupMatches) THEN 1 ELSE next + 1
    /\ UNCHANGED <<place, qualified, tie>>

RankGroup ==
    /\ phase = "ranking"
    /\ \E r \in Rankings(Groups[next]) : place' = Joined(place, r)
    /\ phase' = IF next = Len(Groups) THEN "thirds" ELSE "ranking"
    /\ next' = IF next = Len(Groups) THEN 1 ELSE next + 1
    /\ UNCHANGED <<tableVars, qualified, tie>>

\* rank_thirds; lots decide between thirds of equal keys.
RankThirds ==
    /\ phase = "thirds"
    /\ \E Q \in kSubset(ThirdsQualifying, Range(Groups)) :
        /\ \A g \in Q, h \in Range(Groups) \ Q : ~Above(Table(At(3, h)), Table(At(3, g)))
        /\ qualified' = Q
    /\ phase' = "knockout"
    /\ UNCHANGED <<next, tableVars, place, tie>>

\* Mutant of ThirdIn: the slots are filled by the number of the tie.
ThirdInAnyOrder(match) == At(3, CHOOSE g \in qualified : TRUE)

\* third_allocation: the third that FIFA's table puts in a tie.
ThirdIn(match) == At(3, Allocation[qualified][match])

Resolve(slot, match) ==
    CASE slot.kind = "finish" -> At(slot.pos, slot.group)
      [] slot.kind = "third" -> ThirdIn(match)
      [] slot.kind = "winner" -> tie[slot.of].winner
      [] slot.kind = "loser" ->
            LET t == tie[slot.of] IN IF t.winner = t.home THEN t.away ELSE t.home

\* A tie with a known result goes to the home side only if that is the known winner.
PlayTie ==
    /\ phase = "knockout"
    /\ LET k == Knockout[next]
           h == Resolve(k.home, k.match)
           a == Resolve(k.away, k.match)
       IN  \E homeWins \in IF k.match \in DOMAIN Played
                           THEN {h = Played[k.match].winner} ELSE BOOLEAN :
             tie' = Joined(tie, [n \in {k.match} |->
                                    [home |-> h, away |-> a, winner |-> IF homeWins THEN h ELSE a]])
    /\ phase' = IF next = Len(Knockout) THEN "done" ELSE "knockout"
    /\ next' = next + 1
    /\ UNCHANGED <<tableVars, place, qualified>>

TournamentNext == PlayGroupMatch \/ RankGroup \/ RankThirds \/ PlayTie

TournamentSpec == TournamentInit /\ [][TournamentNext]_tournamentVars

-----------------------------------------------------------------------------
(* overlay.py: the match a provider's fixture is taken for.                 *)

\* A fixture as it may be reported: either side first, at its kickoff or at another time
\* of its day, with or without the city.
Fixtures(k) ==
    LET t == tie[k.match]
    IN  [home : {t.home, t.away}, away : {t.home, t.away}, date : {k.date},
         kickoff : {k.kickoff, 0}, city : {k.city, NoCity}]

\* _group_match: the pair's, whichever side is named first.
GroupMatch(f) == {m \in Meetings : {m.home, m.away} = {f.home, f.away}}

\* Mutant of KnockoutMatch: the first tie of the day.
KnockoutMatchOfDay(f) ==
    LET day == {k \in Ties : k.date = f.date}
    IN  IF day = {} THEN NoMatch ELSE Min({k.match : k \in day})

\* _knockout_match: by the kickoff, else by the day, else by the day and the city.
KnockoutMatch(f) ==
    LET exact == {k \in Ties : k.kickoff = f.kickoff}
        day == {k \in Ties : k.date = f.date}
        there == {k \in day : k.city = f.city}
        One(S) == Cardinality(S) = 1
        The(S) == (CHOOSE k \in S : TRUE).match
    IN  CASE One(exact) -> The(exact)
          [] ~One(exact) /\ One(day) -> The(day)
          [] ~One(exact) /\ ~One(day) /\ f.city # NoCity /\ One(there) -> The(there)
          [] OTHER -> NoMatch

ResolveFixture(f) ==
    IF GroupMatch(f) # {} THEN (CHOOSE m \in GroupMatch(f) : TRUE).match ELSE KnockoutMatch(f)

-----------------------------------------------------------------------------
(* What may be said of a column.                                            *)

\* lock.py: "a strict points lead beats any remaining result": a team that was locked after a
\* matchday wins its group in every continuation, whatever the tiebreaks and the lots.
LocksHold == \A t \in locked \cap DOMAIN place : place[t] = 0

\* build_focus_team's masks: in the bracket, and past a stage.
InBracket(t) == place[t] <= 1 \/ (place[t] = 2 /\ GroupOf[t] \in qualified)
Past(stage) == {tie[k.match].winner : k \in {k \in Ties : k.stage = stage /\ k.match \in DOMAIN tie}}
SidesOf(stage) ==
    {t \in Teams : \E k \in Ties :
        k.stage = stage /\ k.match \in DOMAIN tie /\ t \in {tie[k.match].home, tie[k.match].away}}

\* The rounds a team reached agree with the bracket it was drawn into: its first round holds
\* the two best of each group and the thirds that qualified, each of them once, and each
\* later stage holds who came past the one before.
RoundsNest ==
    phase = "done" =>
        /\ SidesOf(Stages[1]) = {t \in Teams : InBracket(t)}
        /\ \A i \in 1..(Len(Stages) - 1) : SidesOf(Stages[i + 1]) = Past(Stages[i])
        /\ \A k \in Ties : tie[k.match].home # tie[k.match].away
        /\ \A k, l \in Ties : k.stage = l.stage /\ k # l =>
            {tie[k.match].home, tie[k.match].away} \cap {tie[l.match].home, tie[l.match].away} = {}

\* The group matches two teams met in.
Met(t, o) == {m.match : m \in {m \in Meetings : {m.home, m.away} = {t, o}}}

\* "Map a provider fixture onto the tournament match id": whoever meets, and however the fixture
\* is reported, a tie of teams that did not meet in their group is taken for that tie or for
\* none, and for none only if the kickoff was moved and neither the day nor the city tells. A tie
\* of teams that did meet is always taken for their group match, which is not what it is: the
\* code asks the group first and never looks at the date.
FixturesFound ==
    phase = "done" => \A k \in Ties :
        LET met == Met(tie[k.match].home, tie[k.match].away)
        IN  \A f \in Fixtures(k) : f.home # f.away =>
                /\ ResolveFixture(f) \in IF met = {} THEN {k.match, NoMatch} ELSE met
                /\ met = {} /\ f.city # NoCity => ResolveFixture(f) = k.match

=============================================================================
