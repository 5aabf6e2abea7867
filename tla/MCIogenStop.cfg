CONSTANTS
  NJobs = 2
  Depend <- Independent
  IoDepth = 2
  SporLevel = 2
  Signals = {"SIGINT"}
  StopOnTimeout = TRUE
  PowerCut = FALSE
SPECIFICATION FairSpec
CHECK_DEADLOCK FALSE
INVARIANTS TypeOK LastJobEndsRun DoneMeansFinished DrainedAtCleanup
PROPERTIES Terminates SignalEndsRun
