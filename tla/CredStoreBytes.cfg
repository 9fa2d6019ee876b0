SPECIFICATION Spec
CONSTANTS
  a = a
  b = b
  Zero = Zero
  Blobs = {a, b}
  DerLen <- BytesDerLen
  Cap <- BytesCap
  MaxChunk = 1
INVARIANTS TypeOK PresentIsStored CommitIsSaved StagedIsSent
PROPERTY FinalizedIsStored
