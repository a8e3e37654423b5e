CONSTANTS
  n1 = n1 n2 = n2 s1 = s1 s2 = s2 asia = asia t1 = t1 t2 = t2
  Names = {n1, n2}
  Services = {s1, s2}
  Regions = {asia}
  NoTag = NoTag
  Tags = {t1, NoTag}
  Label <- OneRegion
  Reachable = {s1, s2}
  Unbuildable = {}
  Configs <- Shared
  InitialServices = {s1, s2}
  NoAffinity = NoAffinity
  Gone = Gone
  None = None
  OwnerMay = {"delete"}
  Kinds = {"api", "rpc", "crash"}
  MaxFaults = 1
  MaxEdits = 1
SPECIFICATION FairSpec
CHECK_DEADLOCK FALSE
INVARIANTS HandlersAreExclusive AvailableIsApplied
PROPERTIES WorkerReturns ReconciliationIsBounded BareDeletionCompletes
