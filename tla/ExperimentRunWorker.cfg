SPECIFICATION FairSpec
CONSTANTS
  s1 = s1
  s2 = s2
  w1 = w1
  w2 = w2
  Wips <- OneWip
  Requesters <- Session1
  Workers <- Session2
  Mortal <- NoSession
  Requests <- WorkRequests
  WipActions <- OneWipAction
  FullProgress = 2
  ProgressStep = 1
INVARIANTS
  NeverStalled
  ResultRecorded
  TerminatedOnRequest
PROPERTIES
  MachineCompletes
  TracesKept
