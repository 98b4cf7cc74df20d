SPECIFICATION AdmissionSpec
CONSTANTS
  cov = cov  n1 = n1  n2 = n2  n3 = n3  runtime = runtime
  None = None
  Ids <- MCIds
  CoverageId = cov
  Runtime = runtime
  SeedCreators = {runtime}
  KindCap <- MCKindCap
  MaxNodes = 2
  MaxWorkers = 2
  MaxCoverageNudges = 1
  PremortemEnabled = TRUE
PROPERTIES
  LineageIsSupersession
SYMMETRY MCSymmetry
