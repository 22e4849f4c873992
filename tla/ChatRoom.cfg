CONSTANTS
  NoText = none
  Entity = {e1, e2}
  Client = {c1}
  Thread = {owner, net}
  Owner = owner
  Text = {hi, huge}
  LongText = {huge}
  MaxCalls = 3
  MaxSeq = 2
  MaxGen = 2
  MaxConn = 2
SPECIFICATION Spec
INVARIANTS
  ComponentMatchesLastEvent
  NothingMissing
  SpokenInOrder
PROPERTIES
  NoWriteAfterDestroy
  ImplementsRoomLog
  AcceptedIsAnswered
CHECK_DEADLOCK FALSE
