SPECIFICATION Spec
CONSTANTS
  Tolerate = TRUE
  Fetched = TRUE
  LimitSecs = 1
  HoldLimitSecs = 4
  AskInterval = 2
  RepairLogInterval = 1
  PollSecs = 1
  MaxLag = 0
  StaleSecs = 2
  VersionPollSecs = 2
  AskTimeout = 2
  FetchTimeout = 1
  AppMayHold = FALSE
  FetchMayFail = FALSE
  HubMayRollBack = TRUE
  DiskMayFail = FALSE
  Entries <- OneEntry
  MaxReleases = 2
  Horizon = 8
INVARIANT FollowsHubInTime
CHECK_DEADLOCK FALSE
