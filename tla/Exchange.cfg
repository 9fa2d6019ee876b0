SPECIFICATION FairSpec
CONSTANTS
  ReqFrags = 8
  ReqWindow = 3
  ReqSeqMod = 8
  RspFrags = 6
  RspWindow = 3
  RspSeqMod = 4
  MaxAcks = 3
INVARIANTS TypeOK WindowRespected
PROPERTIES RequestDelivered ResponseDelivered ExchangeReturns
CHECK_DEADLOCK FALSE
