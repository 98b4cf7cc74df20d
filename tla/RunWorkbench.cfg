SPECIFICATION WorkbenchSpec
SYMMETRY Siblings
CONSTANTS
  q1 = q1  q2 = q2  a = a  b = b  c = c  evidence = evidence  france = france
  covered = covered  gappy = gappy  pricey = pricey  killed = killed  frozen = frozen
  model_base = model_base  market_base = market_base
  BaseWorlds = {model_base, market_base}
  Teams = {france}
  Nodes <- TwoNodes
  Calls <- ThreeCalls
  Actor <- TwoSiblings
  Dir <- OneDir
  Files = {"mixture.json", "mixture.json:b.json"}
  ReadBack <- UpToColon
  Mixtures <- MCMixtures
  Payload <- MCPayload
  Outputs <- MCOutputs
  Empty = Empty  Junk = Junk
  CallLimit = 2
INVARIANTS OneArtifactPerFile KilledStayDead  PublishedAsShown
CHECK_DEADLOCK FALSE
