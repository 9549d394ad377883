SPECIFICATION FairSpec
CONSTANTS
  i1 = i1
  i2 = i2
  k1 = k1
  Issues <- TwoIssues
  Workers <- OneWorker
  Staffed <- OneLabStaffed
  MaxTasks = 1
  MaxFaults = 2
INVARIANTS
  TypeOK
  EscalatedIsTold
  DeadlineHasRule
PROPERTIES
  OneLevelAtATime
  ReachesTheTop
