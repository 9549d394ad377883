SPECIFICATION Spec
CONSTANTS
  labA = labA
  labB = labB
  c1 = c1
  c2 = c2
  AllLabs = AllLabs
  Applicant = Applicant
  NoLab = NoLab
  Labs <- OneLab
  Route <- OneStop
  MaxReports = 2
  Closers <- TwoClosers
  CrossLab = FALSE
  Overlap = TRUE
  LegacyActions <- BothActions
CHECK_DEADLOCK FALSE
INVARIANTS
  SignedOff
