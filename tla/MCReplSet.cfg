SPECIFICATION Spec
CONSTANTS
  Lines <- MCLines
  Delimiters = {";", "|"}
  MaxLines = 3
  MaxSent = 3
  MaxReconnects = 1
INVARIANTS SetTakesEffect
CHECK_DEADLOCK FALSE
