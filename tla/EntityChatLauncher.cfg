CONSTANTS
  Packs = 1
  Events = 2
  Speech = {said, saidOtherwise}
SYMMETRY SpeechSymmetry
SPECIFICATION Spec
INVARIANTS
  SuccessIsWitnessed
  ReplayStaysInItsRound
  StaticServerIsReleased
  JudgedLogsAreFinal
  ManifestsAgree
PROPERTIES
  ImplementsGate
CHECK_DEADLOCK FALSE
