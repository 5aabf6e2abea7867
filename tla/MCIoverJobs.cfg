CONSTANTS
  j1 = j1
  j2 = j2
  Jobs = {j1, j2}
  Slots = {s1}
  NLbas = 4
  IoSizes = {2}
  JobLbas <- TwoJobs
  Ops = {"read", "write"}
  TsMod = 3
  NPatterns = 2
  UnwrRead = "ones"
  DeallocRead = "ones"
  StopOnError = TRUE
  StopOnMiscompare = TRUE
  SporLevel3 = FALSE
  NHist = 0
  MaxTs = 3
  MaxFaults = 1
SPECIFICATION Spec
CHECK_DEADLOCK FALSE
INVARIANT JournalTracksDevice
