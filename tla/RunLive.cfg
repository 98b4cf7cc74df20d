SPECIFICATION LiveSpec
CONSTANTS
  m1 = m1  m2 = m2
  Matches = {m1, m2}
  Revisions <- MCRevisions
  MaxRuns = 1
  Faults = {"read", "resultsPut", "snapshotPut", "crash", "fittedPut"}
  MaxFaults = 2
INVARIANTS RecordedBeforePublished
PROPERTIES ErasedOnlyBlind RatingsLagOnePublish ResultsReachSnapshot
CHECK_DEADLOCK FALSE
