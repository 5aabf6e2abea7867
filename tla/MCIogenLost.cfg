CONSTANTS
  NJobs = 2
  Depend <- Chain
  IoDepth = 1
  SporLevel = 0
  Signals = {}
  StopOnTimeout = FALSE
  PowerCut = FALSE
SPECIFICATION FairSpec
CHECK_DEADLOCK FALSE
PROPERTY Terminates
