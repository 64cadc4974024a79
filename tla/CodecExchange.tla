--------------------------- MODULE CodecExchange ---------------------------
(***************************************************************************)
(* One message goes from one program to the other: built by the sender,    *)
(* encoded in its language, decoded by the receiver in the other one.  A   *)
(* frame does not say what it holds: the receiver calls the decoder of the *)
(* message it expects.                                                     *)
(***************************************************************************)
EXTENDS ProtoCodec

VARIABLES kind,      \* the type of the message
          message,   \* what the sender builds
          frame,     \* its encoding
          received,  \* what the receiver decodes
          stage      \* built, encoded, decoded

vars == <<kind, message, frame, received, stage>>

ClientKind == {"SessionConfig", "OTInit", "OTEncrypted", "DebugRevealRequest"}
ServerKind == {"OTResponse", "MTAShare", "DebugRevealResponse"}

Nothing == EmptyBody

\* What each side puts into a message, as its struct or object.
MessageOf(k) ==
  CASE k = "SessionConfig"       -> SessionConfigMessage
    [] k = "OTInit"              -> OTInitMessage
    [] k = "OTResponse"          -> OTResponseMessage
    [] k = "OTEncrypted"         -> OTEncryptedPayload
    [] k = "MTAShare"            -> ScalarMessage
    [] k = "DebugRevealRequest"  -> DebugRevealRequestMessage
    [] k = "DebugRevealResponse" -> DebugRevealResponseMessage

Init ==
  /\ kind \in MessageType
  /\ message \in MessageOf(kind)
  /\ frame = Nothing /\ received = Nothing
  /\ stage = "built"

\* runNetworkDemo
ClientEncodes ==
  /\ stage = "built" /\ kind \in ClientKind
  /\ frame' = JsEncode(kind, message)
  /\ stage' = "encoded"
  /\ UNCHANGED <<kind, message, received>>

ServerEncoding(k, m) ==
  CASE k = "OTResponse"          -> EncodeOTResponse(m)
    [] k = "MTAShare"            -> EncodeScalar(m)
    [] k = "DebugRevealResponse" -> EncodeDebugRevealResponse(m)

\* ServerApp::run hands whatever the encoder returned to write_framed.
ServerEncodes ==
  /\ stage = "built" /\ kind \in ServerKind
  /\ frame' = ServerEncoding(kind, message)
  /\ stage' = "encoded"
  /\ UNCHANGED <<kind, message, received>>

ServerDecoding(k, f) ==
  CASE k = "SessionConfig"      -> DecodeSessionConfig(f)
    [] k = "OTInit"             -> DecodeOTInit(f)
    [] k = "OTEncrypted"        -> DecodeOTEncrypted(f)
    [] k = "DebugRevealRequest" -> DecodeDebugRevealRequest(f)

ServerDecodes ==
  /\ stage = "encoded" /\ kind \in ClientKind
  /\ received' = ServerDecoding(kind, frame)
  /\ stage' = "decoded"
  /\ UNCHANGED <<kind, message, frame>>

ClientDecodes ==
  /\ stage = "encoded" /\ kind \in ServerKind
  /\ received' = JsDecode(kind, frame)
  /\ stage' = "decoded"
  /\ UNCHANGED <<kind, message, frame>>

Decoded == stage = "decoded" /\ UNCHANGED vars

Next == ClientEncodes \/ ServerEncodes \/ ServerDecodes \/ ClientDecodes \/ Decoded

Spec == Init /\ [][Next]_vars
-----------------------------------------------------------------------------
\* What the message says, under the names of cot.proto.
Sent == IF kind = "MTAShare" THEN [additive_share |-> message.value] ELSE message

\* Every message arrives as it was built, across the two libraries: nanopb leaves
\* out numbers and booleans that have their default and protobufjs does not, and
\* toObject leaves out what was not on the wire.
CrossDecodes == stage = "decoded" => received = Sent

\* Encoders report a failure as an empty body, and an empty body is a valid encoding
\* for every decoder: so no message of the server may ever fail to fit its buffer,
\* and the server's own decoders invert its encoders.  OTEncrypted is the exception
\* (its buffer is two bytes short), and the server never sends it.
NothingFailsSilently ==
  stage # "built" =>
    /\ frame # EmptyBody
    /\ kind \in ServerKind => FrameSize(frame) <= MaximumSize[kind]
    /\ kind = "OTInit" => DecodeOTInit(EncodeOTInit(message)) = message
    /\ kind = "SessionConfig" => DecodeSessionConfig(EncodeSessionConfig(message)) = message
    /\ kind = "MTAShare" => DecodeScalar(EncodeScalar(message)) = message
    /\ kind = "OTEncrypted" =>
         /\ EncodeOTEncrypted(message) = EmptyBody
         /\ DecodeOTEncrypted(EmptyBody) = InitDefault("OTEncrypted")

\* A frame has no type, and a server one message out of step would misread it: its
\* decoders refuse what the client sends at other points, by wire types and sizes,
\* except OTEncrypted and DebugRevealRequest, which pass for each other.
OnlyNeighboursConfused ==
  stage = "encoded" /\ kind \in ClientKind =>
    \A expected \in ClientKind \ {kind} :
      ServerDecoding(expected, frame) # DecodeFails
        <=> {kind, expected} = {"OTEncrypted", "DebugRevealRequest"}
=============================================================================
