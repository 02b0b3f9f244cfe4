SPECIFICATION Spec
CONSTANTS
  Query = {q1}
  Scripts <- PairScripts
PROPERTIES
  DroppedResultIsClosed
CHECK_DEADLOCK FALSE
