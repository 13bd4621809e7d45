SPECIFICATION MCSpec
CONSTANTS
  Entries <- Fetchable
  EnvEntries <- FromEnv
  Net <- Distinct
  OwnNet <- Subnets
  W = 4
  Names = {"hub", "alpha", "beta"}
  Keys = {"kh", "ka", "kb", "kc"}
  Tags = {"v1", "v2"}
  Starting <- Good
  HubEdits <- OfHub
  PeerEdits <- OfPeer
  TableEdits <- OfTable
  MaxEdits = 3
  Groups = 11
  Bytes = 32
INVARIANT ConfigInKernel
INVARIANT NoStaleCommand
INVARIANT ReapplyInPlace
INVARIANT AcceptedIsSound
PROPERTY OneStepToCallers
PROPERTY OnlyTheConcerned
CHECK_DEADLOCK FALSE
