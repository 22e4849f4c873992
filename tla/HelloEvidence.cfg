CONSTANTS
  Scopes <- MCScopes
SPECIFICATION Spec
INVARIANTS
  HonestIsAccepted
  EchoIsRejected
  AcceptedIsCommitted
  EqualRoundsCommittedTheSame
CHECK_DEADLOCK FALSE
