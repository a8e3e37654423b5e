CONSTANTS
  n1 = n1 n2 = n2 s1 = s1 s2 = s2 asia = asia t1 = t1 t2 = t2
  Names = {n1}
  Services = {s1, s2}
  Regions = {asia}
  NoTag = NoTag
  Tags = {t1, t2}
  Label <- OneRegion
  Reachable = {s1}
  Unbuildable = {t2}
  Configs <- Churned
  InitialServices = {s1}
  NoAffinity = NoAffinity
  Gone = Gone
  None = None
  OwnerMay = {"create", "config", "delete"}
  Kinds = {"api", "list", "rpc", "crash", "restart", "retire", "appear"}
  MaxFaults = 2
  MaxEdits = 2
SPECIFICATION Spec
CHECK_DEADLOCK FALSE
INVARIANTS TypeOK AvailableIsGuarded
PROPERTIES ImplementsLifecycle
