CONSTANTS
  t1 = t1
  Tags = {t1}
  InboundOf <- OneTag
  Static <- NoneStatic
  u1 = u1 u2 = u2 s1 = s1 s2 = s2 asia = asia Asia = Asia i1 = i1 i2 = i2 e1 = e1 e2 = e2
  Names = {u1}
  Services = {s1, s2}
  Regions = {asia, Asia}
  Ids = {i1, i2}
  Emails = {e1, e2}
  NoId = NoId
  NoEntry = NoEntry
  Gone = Gone
  None = None
  Label <- OneRegion
  Lower <- ToLower
  Grpc = {s1}
  Specs <- Mixed
  InitialServices = {s1}
  OwnerMay = {"create", "delete", "email", "id"}
  Kinds = {"api", "list", "crash", "restart", "retire", "appear"}
  MaxFaults = 2
  MaxEdits = 2
SPECIFICATION Spec
CHECK_DEADLOCK FALSE
INVARIANTS AvailableIsGuarded NodesAreFound
PROPERTIES IdNeverReplaced ImplementsLifecycle
