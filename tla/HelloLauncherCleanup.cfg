CONSTANTS
  Rounds = 2
  MaxWrites = 1
SPECIFICATION Spec
INVARIANT CleanupOnAnyFailure
CHECK_DEADLOCK FALSE
