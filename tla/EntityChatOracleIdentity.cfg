CONSTANTS
  Events = 2
  Bot = {b1, b2}
  MaxTick = 2
  MaxFaults = 0
  Rounds = 2
SPECIFICATION Spec
INVARIANTS
  EqualRunsAreIdentical
CHECK_DEADLOCK FALSE
