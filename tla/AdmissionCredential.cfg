CONSTANTS
  Key = {1, 2}
  Expected = 1
  Name <- MCName
  MaxTime = 2
SPECIFICATION Spec
INVARIANTS
  DecodedIsEncoded
  AcceptedAsSigned
  IntactIsAccepted
CHECK_DEADLOCK FALSE
