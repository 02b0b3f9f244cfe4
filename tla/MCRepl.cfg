SPECIFICATION Spec
CONSTANTS
  Lines <- MCLines
  Delimiters = {";", "|"}
  MaxLines = 3
  MaxSent = 3
  MaxReconnects = 1
INVARIANTS SplitIsStable FileRuns KillsInterrupted StopsAtError
CHECK_DEADLOCK FALSE
PROPERTY ImplementsStatementRunner
