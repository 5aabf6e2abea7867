CONSTANTS
  j1 = j1
  j2 = j2
  Jobs = {j1}
  Slots = {s1, s2}
  NLbas = 2
  IoSizes = {1, 2}
  JobLbas <- OneJob
  Ops = {"read", "write", "flush", "deallocate", "write_zeroes", "write_uncorrect"}
  TsMod = 2
  NPatterns = 2
  UnwrRead = "ones"
  DeallocRead = "ones"
  StopOnError = TRUE
  StopOnMiscompare = FALSE
  SporLevel3 = FALSE
  NHist = 0
  MaxTs = 2
  MaxFaults = 1
SPECIFICATION Spec
SYMMETRY Symmetry
CHECK_DEADLOCK FALSE
INVARIANTS TypeOK JournalTracksDevice NoFalseAlarm WrongDataReported WriteIsVisible
