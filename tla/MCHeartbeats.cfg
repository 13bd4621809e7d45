SPECIFICATION Spec
CONSTANTS
  MaxAge = 2
  StaleSecs = 1
  MaxShift = 1
  ReadTakes = 1
  Switch = {FALSE, TRUE}
INVARIANT FreshMeansAlive
PROPERTY NoFalseAlarm
PROPERTY SilenceReported
CHECK_DEADLOCK FALSE
