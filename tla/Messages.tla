------------------------------ MODULE Messages ------------------------------
(***************************************************************************)
(* What client and device understand of each other: the calls and the      *)
(* endpoints of Handlers, with the codec of the Python client              *)
(* (ClientCodec) at one end and the generated codec of the device          *)
(* (ProvDecode, ProvEncode) at the other.                                  *)
(***************************************************************************)
EXTENDS Handlers, ProvDecode, ProvEncode

CONSTANT ExtraKeys  \* keys that clients of a later protocol revision add to a map

\* The codecs, as values for the parameters of Handlers.
Cli == INSTANCE ClientCodec

ClientEncode(choice, m) == Cli!Encode(choice, m)
ClientDecode(choice, op, x) == Cli!Decode(choice, op, x)

\* A later revision adds keys to a map that is the second element of a request.
Extend(x, k) ==
  List([x[2] EXCEPT ![2] = Map(Append(@[2], Pair(k, Uint(1))))])
Extensible(x) == Len(x[2]) = 2 /\ x[2][2][1] = "map"
LaterRevisions(x) == {Extend(x, k) : k \in {e \in ExtraKeys : Extensible(x)}}

Decoder ==
  [ver |-> cbor_decode_ver_req, auth |-> cbor_decode_auth_req, config |-> cbor_decode_config_req,
   scan |-> cbor_decode_scan_req, cred |-> cbor_decode_cred_req, ctrl |-> cbor_decode_ctrl_req]
Encoder ==
  [ver |-> cbor_encode_ver_rsp, auth |-> cbor_encode_auth_rsp, config |-> cbor_encode_config_rsp,
   scan |-> cbor_encode_scan_rsp, cred |-> cbor_encode_cred_rsp, ctrl |-> cbor_encode_ctrl_rsp]

HandlerDecodes(path, x) == Decodes(Decoder[path], x)
HandlerDecoded(path, x) == Decoded(Decoder[path], x)
HandlerEncodes(path, rsp, size) == Encodes(Encoder[path], rsp, size)
HandlerEncoded(path, rsp) == Encoded(Encoder[path], rsp)

ASSUME AnswersAssumption == AnswersFit
ASSUME ChannelsAssumption == ChannelsFit

-----------------------------------------------------------------------------
RspDecoder ==
  [ver |-> cbor_decode_ver_rsp, auth |-> cbor_decode_auth_rsp, config |-> cbor_decode_config_rsp,
   scan |-> cbor_decode_scan_rsp, cred |-> cbor_decode_cred_rsp, ctrl |-> cbor_decode_ctrl_rsp]
ReqEncoder ==
  [ver |-> cbor_encode_ver_req, auth |-> cbor_encode_auth_req, config |-> cbor_encode_config_req,
   scan |-> cbor_encode_scan_req, cred |-> cbor_encode_cred_req, ctrl |-> cbor_encode_ctrl_req]

\* The generated decoder reads back every response a handler encodes, with the
\* backups its entry function sets aside: no response is nested deeper than
\* its decoder can follow.
ResponseRoundTrip ==
  pc = "answered" /\ said.rsp # <<>> =>
    /\ Decodes(RspDecoder[call.path], Head(answer))
    /\ Decoded(RspDecoder[call.path], Head(answer)) = said.rsp

\* The generated encoder and the client's produce the same bytes for a valid
\* request, as the golden vectors of the tests have it.
SameEncoding ==
  pc = "asked" /\ Valid(call) /\ Plain /\ Bytes(request) <= MsgMax =>
    /\ Encodes(ReqEncoder[call.path], Struct(call), MsgMax)
    /\ Encoded(ReqEncoder[call.path], Struct(call)) = request
=============================================================================
