SPECIFICATION Spec
CONSTANTS
  TicksPerSec = 1
  Timeout = 60
  Interval = 15
  RoundTicks = 5
  RequestTicks = 4
  AnswerTicks = 5
INVARIANTS
  NeverExpired
CHECK_DEADLOCK FALSE
