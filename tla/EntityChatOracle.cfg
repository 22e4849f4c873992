CONSTANTS
  Events = 2
  Bot = {b1, b2}
  MaxTick = 1
  MaxFaults = 2
  Rounds = 2
  Bots = 2
  None = None
  MaxWrong = 1
SPECIFICATION RunSpec
INVARIANTS
  AcceptedIsTrue
  HonestIsAccepted
  EqualRunsSaidTheSame
  AcceptedHappened
  CompleteRunIsAccepted
  LossIsNoticed
SYMMETRY BotSymmetry
CHECK_DEADLOCK FALSE
