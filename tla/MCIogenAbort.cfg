CONSTANTS
  NJobs = 2
  Depend <- Chain
  IoDepth = 1
  SporLevel = 2
  Signals = {"SIGUSR1"}
  StopOnTimeout = FALSE
  PowerCut = TRUE
SPECIFICATION FairSpec
CHECK_DEADLOCK FALSE
INVARIANT InOrder
PROPERTY SignalEndsRun
