CONSTANTS
  Workload <- Completed
  IoDepth = 3
  BatchSubmit = 2
  BatchComplete = 2
  SporLevel = 2
  Amount = 6
  MaxSubmitErrors = 1
SPECIFICATION FairSpec
CHECK_DEADLOCK FALSE
INVARIANTS TypeOK InflightHeld FreeBioThere
PROPERTIES JobEnds ImplementsQueue
