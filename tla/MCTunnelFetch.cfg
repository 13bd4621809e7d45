SPECIFICATION Spec
CONSTANTS
  Tolerate = TRUE
  Fetched = TRUE
  LimitSecs = 1
  HoldLimitSecs = 4
  AskInterval = 2
  RepairLogInterval = 1
  PollSecs = 1
  MaxLag = 0
  StaleSecs = 1
  VersionPollSecs = 1
  AskTimeout = 2
  FetchTimeout = 1
  AppMayHold = FALSE
  FetchMayFail = TRUE
  HubMayRollBack = FALSE
  DiskMayFail = TRUE
  Entries <- SameHub
  MaxReleases = 2
  Horizon = 3
INVARIANT KernelFollowsConfig
INVARIANT FetchKnowsApplied
PROPERTY NeverBackward
PROPERTY FetchIsAJob
CHECK_DEADLOCK FALSE
