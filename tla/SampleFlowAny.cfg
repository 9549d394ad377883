SPECIFICATION Spec
CONSTANTS
  Items <- Chain
  Room = 2
  Ragged = FALSE
  Samples <- OneSample
  Labs <- TwoLabs
  Staff <- TwoEngineers
  Sessions <- OneSession
  Parks <- NoMachines
  WipActions <- RunActions
  Operations <- ApiOperations
  Guided = FALSE
  Patient = FALSE
  MaxTransfers = 1
PROPERTIES
  
  EndedStays
CHECK_DEADLOCK FALSE
