SPECIFICATION TrustSpec
CONSTANTS
  MaxKeys = 2
  MaxBoots = 2
  Homes = {laptop, bench}
  Nobody = Nobody
  Torn = Torn
  MaxIds = 3
SYMMETRY Symmetry
INVARIANTS KeysAgree SameCertificate KeyIsKept
PROPERTY KeyNeverReplaced
CHECK_DEADLOCK FALSE
