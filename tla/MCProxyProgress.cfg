SPECIFICATION FairSpec
CONSTANTS
  Requests <- ProgressRequests
  TargetSets <- ProgressTargets
  Codes <- ProgressCodes
  DefaultMaxBreadth = 60
  U32Max = 1000
  MaxProvisionals = 1
INVARIANTS
  BreadthIsConserved
  TokenGatesRouting
PROPERTIES
  EveryRequestAnswered
  EveryBranchSettles
