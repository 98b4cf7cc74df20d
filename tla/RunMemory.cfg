SPECIFICATION MemorySpec
CONSTANTS
  r1 = r1  r2 = r2  m1 = m1  m2 = m2
  Runs = {r1, r2}
  Matches = {m1, m2}
  MaxFaults = 2
SYMMETRY MCSymmetry
INVARIANTS ScoredOnce OnlyPublishedTeach
PROPERTIES MemoryKept
CHECK_DEADLOCK FALSE
