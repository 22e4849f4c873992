CONSTANTS
  Rounds = 2
  MaxWrites = 1
SPECIFICATION Spec
INVARIANTS
  TypeOK
  AcceptedRoundIsFinal
  RoundsDoNotOverlap
  PortsAreFresh
  NoProcessForgotten
  ManifestSealsLog
PROPERTIES
  ImplementsGate
  LauncherEnds
CHECK_DEADLOCK FALSE
