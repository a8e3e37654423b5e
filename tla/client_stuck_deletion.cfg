CONSTANTS
  n1 = n1 n2 = n2 s1 = s1 s2 = s2 asia = asia t1 = t1 t2 = t2
  Names = {n1}
  Services = {s1}
  Regions = {asia}
  NoTag = NoTag
  Tags = {t1}
  Label <- OneRegion
  Reachable = {s1}
  Unbuildable = {}
  Configs <- OneInbound
  InitialServices = {s1}
  NoAffinity = NoAffinity
  Gone = Gone
  None = None
  OwnerMay = {"delete"}
  Kinds = {}
  MaxFaults = 1
  MaxEdits = 1
SPECIFICATION FairSpec
CHECK_DEADLOCK FALSE
PROPERTIES DeletionCompletes
