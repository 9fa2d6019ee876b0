SPECIFICATION FairSpec
CONSTANTS
  Waits = TRUE
  MaxRuns = 3
INVARIANTS AdvertisingFollowsRunning EndedIsStopped AutostopOfThisRun
PROPERTIES WaitEnds VisibleAgain
