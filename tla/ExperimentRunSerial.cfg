SPECIFICATION Spec
CONSTANTS
  s1 = s1
  s2 = s2
  w1 = w1
  w2 = w2
  Wips <- OneWip
  Requesters <- Session1
  Workers <- Session1
  Mortal <- Session1
  Requests <- AllRequests
  WipActions <- NoWipActions
  FullProgress = 2
  ProgressStep = 1
INVARIANTS
  TypeOK
  StatusBridge
PROPERTIES
  LifecycleSpec
