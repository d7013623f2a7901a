SPECIFICATION SpecAll
CONSTANTS
  Requests <- ForkRequests
  TargetSets <- ForkTargets
  Codes <- ForkCodes
  DefaultMaxBreadth = 60
  U32Max = 1000
  MaxProvisionals = 1
INVARIANTS
  SelectionIsBest
  NothingStranded
PROPERTIES
  NoLaunchAfterAnswer
  CancelOnlyLiveBranches
  WithdrawnTargetsStayUntried
  SuccessRelayedWhileOpen
