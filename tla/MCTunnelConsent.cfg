SPECIFICATION FairSpec
CONSTANTS
  Tolerate = FALSE
  Fetched = FALSE
  LimitSecs = 1
  HoldLimitSecs = 4
  AskInterval = 2
  RepairLogInterval = 3
  PollSecs = 1
  MaxLag = 1
  StaleSecs = 3
  VersionPollSecs = 2
  AskTimeout = 2
  FetchTimeout = 1
  AppMayHold = TRUE
  FetchMayFail = TRUE
  HubMayRollBack = FALSE
  DiskMayFail = FALSE
  Entries <- OneEntry
  MaxReleases = 0
  Horizon = 11
INVARIANT TypeOK
INVARIANT AskNeverOrphaned
INVARIANT OutageBounded
INVARIANT BeatMeansContact
PROPERTY ShutdownPromise
PROPERTY DownUpOnlyAfterReset
PROPERTY OutageEnds
CHECK_DEADLOCK FALSE
