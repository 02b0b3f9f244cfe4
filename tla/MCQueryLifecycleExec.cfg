SPECIFICATION Spec
CONSTANTS
  Query = {q1}
  Scripts <- ExecScripts
INVARIANTS
  ExecReportsFinalProgress
CHECK_DEADLOCK FALSE
