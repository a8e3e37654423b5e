CONSTANTS
  t1 = t1
  Tags = {t1}
  InboundOf <- OneTag
  Static <- AllStatic
  u1 = u1 u2 = u2 s1 = s1 s2 = s2 asia = asia Asia = Asia i1 = i1 i2 = i2 e1 = e1 e2 = e2
  Names = {u1}
  Services = {s1, s2}
  Regions = {asia}
  Ids = {i1}
  Emails = {e1}
  NoId = NoId
  NoEntry = NoEntry
  Gone = Gone
  None = None
  Label <- OneRegion
  Lower <- AsWritten
  Grpc = {s1, s2}
  Specs <- TwoServers
  InitialServices = {s1, s2}
  OwnerMay = {"delete"}
  Kinds = {}
  MaxFaults = 2
  MaxEdits = 2
SPECIFICATION Spec
CHECK_DEADLOCK FALSE
PROPERTIES RemovalIsComplete
