SPECIFICATION FairSpec
CONSTANTS
  ver = ver
  ctrl = ctrl
  cred = cred
  None = None
  Paths = {ver, ctrl, cred}
  Served = {ver, ctrl}
  End = ctrl
  PollAttempts = 2
  MaxReqs = 3
  Faults = {"transfer", "drop", "nomem", "stop"}
INVARIANTS AnswerMatches FirstPollAnswers
PROPERTY ExchangeEnds
CHECK_DEADLOCK FALSE
