CONSTANTS
  Account = {a1, a2}
  PipeSize = 2
SPECIFICATION Spec
INVARIANTS
  ExitMatchesEvidence
  NoServerLeft
PROPERTIES
  VerdictStands
  SuiteEnds
CHECK_DEADLOCK FALSE
