SPECIFICATION Spec
CONSTANTS
  o1 = o1
  o2 = o2
  a = a
  b = b
  s1 = s1
  alice = alice
  dept = dept
  Orders <- TwoOrders
  Labs <- TwoLabs
  Sessions <- OneSession
  Layouts <- OneOrTwoItems
  LabScopes <- AnySupervisor
  Scopes <- UserAndDepartment
  ScopesOf <- TheirScopes
  Limit <- TheirLimits
  MaxItemId = 2
INVARIANTS
  TypeOK
  StatusIsAggregate
  ChargedInFull
  WithinQuota
CHECK_DEADLOCK FALSE
