SPECIFICATION FairSpec
CONSTANTS
  n1 = n1
  n2 = n2
  p1 = p1
  p2 = p2
  None = None
  Ssids = {n1}
  Passes = {p1}
  MaxAttempts = 2
  MaxEvents = 1
PROPERTY ConnectingSettles
