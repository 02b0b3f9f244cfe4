SPECIFICATION Spec
CONSTANTS
  Query = {q1, q2}
  Scripts <- PairScripts
SYMMETRY Symmetry
INVARIANTS
  DroppedIsFinalized
  ReaderKeptAlive
PROPERTIES
  NeverBack
CHECK_DEADLOCK FALSE
