SPECIFICATION Spec
CONSTANTS
  Query = {q1}
  Scripts <- AllScripts
INVARIANTS
  CompleteResult
PROPERTIES
  ImplementsResultStream
  PollingEnds
  DroppedIsReleased
  OverLeavesMap
CHECK_DEADLOCK FALSE
