CONSTANTS
  t1 = t1
  Tags = {t1}
  InboundOf <- OneTag
  Static <- AllStatic
  u1 = u1 u2 = u2 s1 = s1 s2 = s2 asia = asia Asia = Asia i1 = i1 i2 = i2 e1 = e1 e2 = e2
  Names = {u1, u2}
  Services = {s1}
  Regions = {asia}
  Ids = {i1}
  Emails = {e1, e2}
  NoId = NoId
  NoEntry = NoEntry
  Gone = Gone
  None = None
  Label <- OneRegion
  Lower <- AsWritten
  Grpc = {s1}
  Specs <- OneEach
  InitialServices = {s1}
  OwnerMay = {"delete"}
  Kinds = {"api", "rpc", "deadline", "crash", "restart"}
  MaxFaults = 1
  MaxEdits = 1
SPECIFICATION FairSpec
CHECK_DEADLOCK FALSE
PROPERTIES RemovalIsClean WorkerReturns DeletionCompletes Converges Quiesces
