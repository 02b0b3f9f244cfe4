SPECIFICATION MCSpec
CONSTANTS
  a = a
  b = b
  Call = {a, b}
  RetryCount = 2
  Kinds = {"start", "page", "heartbeat", "upload", "once"}
  MaxIssued = 2
  MaxRotations = 2
INVARIANTS
  AttemptsBounded
  NoEarlyGiveUp
  NewestStored
PROPERTIES
  CallsReturn
CHECK_DEADLOCK FALSE
