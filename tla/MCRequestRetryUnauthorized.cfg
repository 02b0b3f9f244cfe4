SPECIFICATION Spec
CONSTANTS
  a = a
  b = a
  Call = {a}
  RetryCount = 2
  Kinds = {"start"}
  MaxIssued = 1
  MaxRotations = 0
INVARIANTS
  RefreshedRetryIsAuthorized
CHECK_DEADLOCK FALSE
