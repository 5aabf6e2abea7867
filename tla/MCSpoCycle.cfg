CONSTANTS
  j1 = j1
  Jobs = {j1}
  Slots = {s1, s2}
  NLbas = 2
  IoSizes = {1}
  JobLbas <- OneRange
  Ops = {"read", "write"}
  TsMod = 4
  NPatterns = 2
  UnwrRead = "zeroes"
  DeallocRead = "ones"
  StopOnError = TRUE
  StopOnMiscompare = FALSE
  SporLevel3 = FALSE
  NHist = 3
  MaxTs = 4
  MaxFaults = 0
  MaxCuts = 2
SPECIFICATION SpoSpec
SYMMETRY Symmetry
CHECK_DEADLOCK FALSE
INVARIANTS SpoTypeOK JournalRepairedIfClean NoFalseAlarmIfClean
PROPERTY ReplaySpoilsNothing
