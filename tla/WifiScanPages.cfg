SPECIFICATION FairSpec
CONSTANTS
  Aps = 5
  ScanMax = 4
  PageMax = 3
  PageSure = 2
  MaxScans = 3
  Overlap = FALSE
INVARIANTS TypeOK CollectsAllPages
PROPERTY ScanFinishes
CHECK_DEADLOCK FALSE
