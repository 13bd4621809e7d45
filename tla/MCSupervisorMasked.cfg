SPECIFICATION Spec
CONSTANTS
  NDaemons = 1
  HasTunnel = FALSE
  MaxSignals = 2
INVARIANT DaemonExitIsFailure
CHECK_DEADLOCK FALSE
