SPECIFICATION Spec
CONSTANTS
  ver = ver
  ctrl = ctrl
  cred = cred
  None = None
  Paths = {ver, ctrl}
  Served = {ver, ctrl}
  End = ctrl
  PollAttempts = 2
  MaxReqs = 2
  Faults = {"drop"}
INVARIANTS ClearedOnDisconnect
CHECK_DEADLOCK FALSE
