SPECIFICATION FairNode
CONSTANTS
  focal = focal
  one = one
  two = two
  Focal <- focal
  U32Max = 1000
  DefaultMaxBreadth = 60
  Requests <- DriverRequests
  TargetSets <- DriverTargets
  Codes <- DriverCodes
  Others <- DriverOthers
  Traffic <- DriverTraffic
  Roles <- DriverRoles
  QueueMax = 2
  MaxInFlight = 1
  MaxHeard = 1
INVARIANTS
  PermitsAreConserved
  PendingBranchIsRead
  TaskEndsSettled
PROPERTIES
  RegisterIsServed
