SPECIFICATION FairSpec
CONSTANTS
  r1 = r1
  r2 = r2
  j1 = j1
  s1 = s1
  s2 = s2
  NoJob = NoJob
  HasToggler = TRUE
  HasLocker = TRUE
  Runs <- TwoRuns
  Jobs <- OneJob
  Stoppers <- TwoStoppers
INVARIANTS NoLocalOverlap StopNilIsQuiet
PROPERTIES StopReturns StopCancelsRuns
