SPECIFICATION Spec
CONSTANTS
  i1 = i1
  k1 = k1
  e1 = e1
  s1 = s1
  Issues <- OneIssue
  Workers <- OneWorker
  MaxTasks = 1
  MaxFaults = 1
  Persons <- Two
  HasPhone <- Two
  Team <- Teams
INVARIANTS
  TypeOK
  AcknowledgedByPeople
PROPERTIES
  ImplementsEscalation
CHECK_DEADLOCK FALSE
