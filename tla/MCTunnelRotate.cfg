SPECIFICATION Spec
CONSTANTS
  Tolerate = FALSE
  Fetched = TRUE
  LimitSecs = 1
  HoldLimitSecs = 0
  AskInterval = 2
  RepairLogInterval = 1
  PollSecs = 1
  MaxLag = 0
  StaleSecs = 15
  VersionPollSecs = 1
  AskTimeout = 6
  FetchTimeout = 1
  AppMayHold = FALSE
  FetchMayFail = FALSE
  HubMayRollBack = FALSE
  DiskMayFail = FALSE
  Entries <- Rotating
  MaxReleases = 2
  Horizon = 6
PROPERTY ConsentOfThisOutage
CHECK_DEADLOCK FALSE
