CONSTANTS
  u1 = u1 n1 = n1 s1 = s1 asia = asia i1 = i1 e1 = e1 t1 = t1 t2 = t2
  Users = {u1}
  Clients = {n1}
  UserMay = {}
  ClientMay = {}
  UserKinds = {"panic"}
  ClientKinds = {}
  MaxFaults = 1
  MaxEdits = 1
  Specs <- OneUser
  Configs <- Sample
  Services = {s1}
  Regions = {asia}
  Tags = {t1, t2}
  Label <- OneRegion
  Grpc = {s1}
  InitialServices = {s1}
  Ids = {i1}
  Emails = {e1}
  InboundOf <- OneTag
  Static <- AllStatic
  Lower <- AsWritten
  Unbuildable = {}
  NoTag = NoTag
  NoId = NoId
  NoEntry = NoEntry
  NoAffinity = NoAffinity
  Gone = Gone
  None = None
SPECIFICATION FairSpec
CHECK_DEADLOCK FALSE
PROPERTIES UsersAreServedRegardless
