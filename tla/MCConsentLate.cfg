SPECIFICATION Spec
CONSTANTS
  Timeout = 3
  Limit = 5
  HoldBytes = 3
INVARIANT HoldInTime
CHECK_DEADLOCK FALSE
