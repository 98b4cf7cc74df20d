SPECIFICATION PublicationSpec
CONSTANTS
  daily = daily  rerun = rerun  live = live  agent = agent  fallback = fallback
  dailyRun = dailyRun  liveRun = liveRun  agentRun = agentRun  fallbackRun = fallbackRun
  Jobs = {daily, rerun, agent}
  Kind <- MCKind
  RunOf <- MCRunOf
  NoJob = NoJob
  MaxClock = 1
  MaxFaults = 2
SYMMETRY MCSymmetry
INVARIANTS PointerResolves IndexKnowsRuns
PROPERTIES LatestGoesForward
CHECK_DEADLOCK FALSE
