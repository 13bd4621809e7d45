SPECIFICATION MCSpec
CONSTANTS
  Entries <- Rotating
  MaxReleases = 2
  MaxBoots = 3
  Path <- Tree
  Required <- DataAndDeep
  Implicit <- Logs
  MountPoints <- DataAndCfg
  Target <- Links
  Image <- Clean
 
INVARIANT HandedOver
INVARIANT OfflineBoot
INVARIANT DirsOwned
PROPERTY CacheAdvances
PROPERTY OnlyOwnTrees
PROPERTY StoredSurvives
CHECK_DEADLOCK FALSE
