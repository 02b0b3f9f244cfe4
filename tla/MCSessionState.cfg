SPECIFICATION Spec
CONSTANTS
  Change = {c1}
  Node = {n1, n2}
  None = None
  ServerHint = ServerHint
  MaxHints = 3
  MaxStreams = 1
CHECK_DEADLOCK FALSE
INVARIANTS
  StickyGoesHome
  StateIsCurrent
PROPERTY TxnKeepsRoute
