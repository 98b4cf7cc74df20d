SPECIFICATION TournamentSpec
CONSTANTS
  A = A  B = B  C = C
  a1 = a1  a2 = a2  a3 = a3  a4 = a4  b1 = b1  b2 = b2  b3 = b3  b4 = b4
  c1 = c1  c2 = c2  c3 = c3  c4 = c4
  Groups <- MCGroups
  Teams = {a1, a2, a3, a4, b1, b2, b3, b4, c1, c2, c3, c4}
  GroupOf <- MCGroupOf
  GroupMatches <- MCGroupMatches
  Knockout <- MCKnockout
  Stages <- MCStages
  ThirdsQualifying = 2
  Allocation <- MCAllocation
  Scores <- MCScores
  Played <- MCPlayed
  NoTeam = NoTeam  NoMatch = NoMatch  NoCity = NoCity
INVARIANTS LocksHold RoundsNest 
CHECK_DEADLOCK FALSE
