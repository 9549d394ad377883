SPECIFICATION Spec
CONSTANTS
  s1 = s1
  s2 = s2
  w1 = w1
  w2 = w2
  Wips <- TwoWips
  Requesters <- TwoSessions
  Workers <- NoSession
  Mortal <- NoSession
  Requests <- ConfirmRequests
  WipActions <- NoWipActions
  FullProgress = 0
  ProgressStep = 1
SYMMETRY SymmetricBoth
INVARIANTS
  RolledUp
