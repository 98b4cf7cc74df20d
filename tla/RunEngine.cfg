SPECIFICATION EngineSpec
CONSTANTS
  c1 = c1  Loop = Loop  Timer = Timer
  Clients = {c1}
  SIM_CACHE_SIZE = 1
  MaxSnapshots = 2
INVARIANTS OneLeaderPerKey AnswersOwnFit
PROPERTIES FitConverges ReportFollows
