---------------------------- MODULE ProtoCodec ----------------------------
(***************************************************************************)
(* ProtoCodec of server/src/proto_codec.cpp, one operator per function,    *)
(* and the exchange of any message of the protocol with the client.  The   *)
(* structs of proto_codec.h and ot_protocol.h are records.                 *)
(***************************************************************************)
EXTENDS Protobuf

CONSTANTS Data,         \* what a string of bytes contains
          BitIndex      \* the bit indexes, of type uint32

ASSUME DataAssumption == BitIndex \subseteq Nat

ByteString(size) == [size : {size}, data : Data]
Scalar == ByteString(32)
Point  == ByteString(33)

SessionConfigMessage == [debug_reveal : BOOLEAN]
OTInitMessage        == [point_a : Point, bit_index : BitIndex]
OTResponseMessage    == [point_b : Point]
OTEncryptedPayload   == [encrypted_m0 : Scalar, encrypted_m1 : Scalar, nonce : ByteString(12)]
ScalarMessage        == [value : Scalar]
DebugRevealRequestMessage  == [multiplicative_share_x : Scalar, additive_share_u : Scalar]
DebugRevealResponseMessage == [multiplicative_share_y : Scalar, verified : BOOLEAN]

EncodeSessionConfig(message) == PbEncode("SessionConfig", message)
EncodeOTInit(message)        == PbEncode("OTInit", message)
EncodeOTResponse(message)    == PbEncode("OTResponse", message)
EncodeOTEncrypted(message)   == PbEncode("OTEncrypted", message)
EncodeScalar(message)        == PbEncode("MTAShare", [additive_share |-> message.value])
EncodeDebugRevealResponse(message) == PbEncode("DebugRevealResponse", message)

DecodeSessionConfig(bytes) == PbDecode("SessionConfig", bytes)
DecodeOTInit(bytes)        == PbDecode("OTInit", bytes)
DecodeOTEncrypted(bytes)   == PbDecode("OTEncrypted", bytes)
DecodeScalar(bytes) ==
  LET pbMsg == PbDecode("MTAShare", bytes) IN
  IF pbMsg = DecodeFails THEN pbMsg ELSE [value |-> pbMsg.additive_share]
DecodeDebugRevealRequest(bytes) == PbDecode("DebugRevealRequest", bytes)
=============================================================================
