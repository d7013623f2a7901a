\* Statements the code does not keep, refuted one at a time: leave one of them in.
\* The last two need no unbuildable target: TargetSets <- ProgressTargets.
SPECIFICATION FairSpec
CHECK_DEADLOCK FALSE    \* a stranded request stops
CONSTANTS
  Requests <- Invite
  TargetSets <- RefutingTargets
  Codes <- ForkCodes
  DefaultMaxBreadth = 60
  U32Max = 1000
  MaxProvisionals = 1
INVARIANTS
  NothingStranded
\* BranchIdsUnique
\* CancelAfterProvisional
\* LiveBreadthIsConserved
\* PROPERTIES
\* WithdrawnNeverLaunches
\* EverySuccessRelayed
\* EveryCallerIsTold
\* EveryBranchConcludes
