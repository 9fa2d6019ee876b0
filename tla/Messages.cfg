SPECIFICATION CallSpec
CONSTANTS
  EncodedReq <- ClientEncode
  Revised <- LaterRevisions
  Bytes <- Size
  DecodesReq <- HandlerDecodes
  DecodedReq <- HandlerDecoded
  EncodesRsp <- HandlerEncodes
  EncodedRsp <- HandlerEncoded
  DecodedRsp <- ClientDecode
  MsgMax = 384
  PageMax = 6
  SsidMax = 32
  PassMax = 63
  Builds <- MCBuilds
  Configs <- MCConfigs
  Chunks <- MCChunks
  Caches <- MCCaches
  Links = {0, 8, 32}
  None = None
  ExtraKeys = {"band"}
INVARIANTS
  RequestUnderstood
  AnswerUnderstood
  StagedIsLastAccepted
  AnnouncedIsServed
  ResponseRoundTrip
  SameEncoding
