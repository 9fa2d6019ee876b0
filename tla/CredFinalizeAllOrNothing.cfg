SPECIFICATION SessionSpec
CONSTANTS
  a = a
  Zero = Zero
  Blobs = {a}
  DerLen <- OneCellDerLen
  Cap <- OneCellCap
  MaxChunk = 1
PROPERTY FinalizeAllOrNothing
