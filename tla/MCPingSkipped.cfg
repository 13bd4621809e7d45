SPECIFICATION Spec
CONSTANTS
  PollSecs = 1
  PingTimeout = 2
  MaxLag = 1
  Horizon = 16
INVARIANT FailOnStale
CHECK_DEADLOCK FALSE
