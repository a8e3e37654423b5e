CONSTANTS
  a = a b = b
  Names = {a}
  Sizes = {0, 1, 2}
  Images = {"missing", "untagged", "tagged"}
  Gone = Gone
  None = None
  OwnerMay = {"create", "size", "delete", "scale", "remove"}
  Kinds = {"api", "crash", "rollout"}
  MaxFaults = 1
  MaxEdits = 3
SPECIFICATION FairSpec
CHECK_DEADLOCK FALSE
INVARIANTS TypeOK DeployedIsGuarded AvailableIsDeployed
PROPERTIES ImplementsLifecycle DeletionCompletes Converges MissingImageIsReported Quiesces
