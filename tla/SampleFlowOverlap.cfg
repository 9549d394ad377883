SPECIFICATION Spec
CONSTANTS
  Items <- Chain
  Room = 2
  Ragged = FALSE
  Samples <- OneSample
  Labs <- TwoLabs
  Staff <- TwoEngineers
  Sessions <- TwoSessions
  Parks <- NoMachines
  WipActions <- NoActions
  Operations <- OverlapOperations
  Guided = TRUE
  Patient = TRUE
  MaxTransfers = 2
INVARIANTS
  OneWipPerExperiment
  PickedUpWhenDone
CHECK_DEADLOCK FALSE
