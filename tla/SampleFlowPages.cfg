SPECIFICATION Spec
CONSTANTS
  Items <- Ending
  Room = 4
  Ragged = FALSE
  Samples <- OneSample
  Labs <- ThreeLabs
  Staff <- ThreeEngineers
  Sessions <- OneSession
  Parks <- AnyMachines
  WipActions <- NoActions
  Operations <- PageOperations
  Guided = TRUE
  Patient = TRUE
  MaxTransfers = 4
INVARIANTS
  TypeOK
  Custody
  SentWhereNeeded
  NeverStuck
  InDependencyOrder
  DeliveredWhereTold
  HistoryFollows
