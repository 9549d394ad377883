SPECIFICATION Spec
CONSTANTS
  labA = labA
  labB = labB
  c1 = c1
  c2 = c2
  AllLabs = AllLabs
  Applicant = Applicant
  NoLab = NoLab
  Labs <- TwoLabs
  Route <- Chain
  MaxReports = 1
  Closers <- OneCloser
  CrossLab = FALSE
  Overlap = FALSE
  LegacyActions <- NoActions
CHECK_DEADLOCK FALSE
INVARIANTS
  ClosedMeansDone
PROPERTIES
  ClosedIsFinal
  LastLabAdvances
