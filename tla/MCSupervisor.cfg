SPECIFICATION FairSpec
CONSTANTS
  NDaemons = 2
  HasTunnel = TRUE
  MaxSignals = 2
INVARIANT NothingLeftBehind
INVARIANT DeathNotMasked
INVARIANT DaemonsAfterApp
PROPERTY SignalsOnlyUnreaped
PROPERTY EndSeen
CHECK_DEADLOCK FALSE
