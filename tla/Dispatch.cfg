SPECIFICATION Spec
CONSTANTS
  None = None
  MsgMax = 2
  MaxAttempts = 2
  Width = 4
  MaxLen = 4
  MaxEntries = 8
INVARIANTS TypeOK HandledWhole AuthorizedByProof ProofsBounded
PROPERTY AnsweredAtEnd
