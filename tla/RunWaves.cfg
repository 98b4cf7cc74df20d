SPECIFICATION FairSpec
CONSTANTS
  seed = seed  m1 = m1  m2 = m2  sSeed = sSeed  s1 = s1  s2 = s2
  c1 = c1  c2 = c2  auto = auto  copyA = copyA  codeA = codeA
  Fallback = Fallback  Dark = Dark  None = None
  Submissions <- LineageSubmissions
  Mixtures <- LineageMixtures
  ArtifactOf <- LineageArtifactOf
  NodeCalls = {c1}
  AutoCall = auto
  CopySigs = {}
  QuantCodes = {codeA}
  RefereeEnabled = TRUE
  StructuralAttempts = 1
  MaxInterventions = 1
  MaxRevisions = 1
  Seeds = {seed}
  MaxWaves = 3
  SubmitRetries = 0
  CallLimit = 1
INVARIANTS
  PublishedProvenance
  NoLostForecast
PROPERTIES
  AcceptsPublishable
  Termination
