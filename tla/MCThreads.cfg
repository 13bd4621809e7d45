SPECIFICATION MCSpec
CONSTANTS
  PollSecs = 4
  PingTimeout = 2
  MaxLag = 1
  Horizon = 16
  Sigs = {"TERM", "HUP", "CHLD"}
  Capacity = 2
  Chunk = 1
  MaxRaises = 4
  Timeout = 3
  Limit = 5
  HoldBytes = 3
  Tags = {1, 2}
  RequestTimeout = 1
INVARIANT FailOnStale
INVARIANT NoLostWakeup
INVARIANT AskBounded
INVARIANT TokenToApiOnly
PROPERTY PingOrder
PROPERTY PinnedToItsTag
PROPERTY ObtainIsAJob
CHECK_DEADLOCK FALSE
