SPECIFICATION FairSpec
CONSTANTS
  GapCapacity = 2
  GapSources = {None, "source"}
  None = None
  Unknown = Unknown
  MaxKeys = 2
  Capacity = 2
  BatchMax = 1
  FlowWindow = 1
  SilenceWindows = 1
  Scenarios <- MCScenarios
INVARIANTS LossIsStated QuietIsNotAbsent
PROPERTIES EvidenceIsDelivered
