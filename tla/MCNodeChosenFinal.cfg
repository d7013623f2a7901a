SPECIFICATION SpecNode
CONSTANTS
  focal = focal
  one = one
  two = two
  Focal <- focal
  U32Max = 1000
  DefaultMaxBreadth = 60
  Requests <- Invite
  TargetSets <- PairTargets
  Codes <- GatewayCodes
  Others = {}
  Traffic <- NoTraffic
  Roles <- ProxyOnly
  QueueMax = 1
  MaxInFlight = 1
  MaxHeard = 1
INVARIANTS
  ChosenFinalWasReceived
