----------------------------- MODULE Protobuf -----------------------------
(***************************************************************************)
(* The messages of proto/cot.proto on the wire, as nanopb writes and reads *)
(* them with the descriptors of server/src/cot.pb.h, and as protobufjs     *)
(* does in the client.  Both write a field once, and read by tags: a frame *)
(* is a function from tags to wire fields.  A byte string is its size and  *)
(* what it contains.                                                       *)
(***************************************************************************)
EXTENDS Naturals

(* Descriptors: cot.pb.h.                                                  *)

\* mutant: the tag of another field
BoolSecond(tag) == [tag |-> 2, type |-> "bool", size |-> 1]

Bytes(tag, size) == [tag |-> tag, type |-> "bytes", size |-> size]
Bool(tag)        == [tag |-> tag, type |-> "bool", size |-> 1]
Uint32(tag)      == [tag |-> tag, type |-> "uint32", size |-> 4]

FieldList ==
  [ SessionConfig |-> [debug_reveal |-> Bool(1)],
    OTInit        |-> [point_a |-> Bytes(1, 33), bit_index |-> Uint32(2)],
    OTResponse    |-> [point_b |-> Bytes(1, 33)],
    OTEncrypted   |-> [encrypted_m0 |-> Bytes(1, 32), encrypted_m1 |-> Bytes(2, 32),
                       nonce |-> Bytes(3, 12)],
    MTAShare      |-> [additive_share |-> Bytes(1, 32)],
    DebugRevealRequest  |-> [multiplicative_share_x |-> Bytes(1, 32),
                             additive_share_u |-> Bytes(2, 32)],
    DebugRevealResponse |-> [multiplicative_share_y |-> Bytes(1, 32),
                             verified |-> Bool(2)] ]

MessageType == DOMAIN FieldList
FieldName(type) == DOMAIN FieldList[type]

\* mutant: a bit index taken for a number of two bytes
MaximumSizeShort ==
  [ SessionConfig |-> 2, OTInit |-> 38, OTResponse |-> 35, OTEncrypted |-> 80,
    MTAShare |-> 34, DebugRevealRequest |-> 68, DebugRevealResponse |-> 36 ]

\* X_size: the sizes of the buffers into which proto_codec.cpp encodes
MaximumSize ==
  [ SessionConfig |-> 2, OTInit |-> 41, OTResponse |-> 35, OTEncrypted |-> 80,
    MTAShare |-> 34, DebugRevealRequest |-> 68, DebugRevealResponse |-> 36 ]

Zeros(size) == [size |-> size, data |-> "zeros"]

Default(field) ==
  CASE field.type = "bytes"  -> Zeros(field.size)
    [] field.type = "bool"   -> FALSE
    [] field.type = "uint32" -> 0

\* X_init_default
InitDefault(type) == [ name \in FieldName(type) |-> Default(FieldList[type][name]) ]
-----------------------------------------------------------------------------
(* The wire format.                                                        *)

EmptyBody == [ tag \in {} |-> 0 ]

\* Strings of bytes carry their length; numbers and booleans are varints.
WireField(field, value) ==
  [ wire  |-> IF field.type = "bytes" THEN "length-delimited" ELSE "varint",
    value |-> IF field.type = "bool" THEN IF value THEN 1 ELSE 0 ELSE value ]

\* The fields with these names, each under its tag.
Frame(type, message, names) ==
  LET tagOf(name) == FieldList[type][name].tag
      named(tag)  == CHOOSE name \in names : tagOf(name) = tag
  IN  [ tag \in { tagOf(name) : name \in names } |->
          WireField(FieldList[type][named(tag)], message[named(tag)]) ]

\* 7 bits a byte, 32 bits in all
VarintSize(n) ==
  IF n < 128 THEN 1 ELSE IF n < 16384 THEN 2 ELSE IF n < 2097152 THEN 3
  ELSE IF n < 268435456 THEN 4 ELSE 5

\* A key of one byte (the tags are small), and the value.
WireSize(w) ==
  1 + IF w.wire = "varint" THEN VarintSize(w.value)
      ELSE VarintSize(w.value.size) + w.value.size

\* No message has more than three fields.
FrameSize(frame) ==
  LET size(tag) == IF tag \in DOMAIN frame THEN WireSize(frame[tag]) ELSE 0
  IN  size(1) + size(2) + size(3)
-----------------------------------------------------------------------------
(* nanopb                                                                  *)

\* proto3: a number or boolean with its default value is not written.
IsWritten(field, value) ==
  CASE field.type = "bytes"  -> TRUE
    [] field.type = "bool"   -> value
    [] field.type = "uint32" -> value # 0

\* pb_encode into a buffer of MaximumSize bytes; what an encode_* function returns
\* is the frame, or nothing at all when it does not fit.
PbEncode(type, message) ==
  LET written == { name \in FieldName(type) :
                     IsWritten(FieldList[type][name], message[name]) }
      frame   == Frame(type, message, written)
  IN  IF FrameSize(frame) > MaximumSize[type] THEN EmptyBody ELSE frame

DecodeFails == [failed |-> TRUE]

\* A wire field that does not fit the field with its tag makes pb_decode fail.
Accepts(field, w) ==
  IF field.type = "bytes"
  THEN w.wire = "length-delimited" /\ w.value.size \in {0, field.size}
  ELSE w.wire = "varint"

\* An empty string of bytes stands for zeros.
PbValue(field, w) ==
  CASE field.type = "bytes"  -> IF w.value.size = 0 THEN Zeros(field.size) ELSE w.value
    [] field.type = "bool"   -> w.value # 0
    [] field.type = "uint32" -> w.value

\* pb_decode: fields with an unknown tag are skipped, absent ones keep their default.
PbDecode(type, frame) ==
  LET field(name)   == FieldList[type][name]
      present(name) == field(name).tag \in DOMAIN frame
  IN  IF \A name \in FieldName(type) :
           present(name) => Accepts(field(name), frame[field(name).tag])
      THEN [ name \in FieldName(type) |->
               IF present(name) THEN PbValue(field(name), frame[field(name).tag])
               ELSE InitDefault(type)[name] ]
      ELSE DecodeFails
-----------------------------------------------------------------------------
(* protobufjs                                                              *)

\* Type.encode writes every field that is set.
JsEncode(type, message) == Frame(type, message, FieldName(type))

\* mutant: a missing field takes the value of the test for it
JsMissingTrue(field) == IF field.type = "bytes" THEN Zeros(0) ELSE TRUE

\* What client.ts makes of a field that toObject leaves out: an empty array, or a
\* value that counts as false.
JsMissing(field) == IF field.type = "bytes" THEN Zeros(0) ELSE FALSE

\* Type.decode and toObject: by tag alone, whatever the wire type and the size.
JsDecode(type, frame) ==
  LET field(name) == FieldList[type][name]
  IN  [ name \in FieldName(type) |->
          IF field(name).tag \notin DOMAIN frame THEN JsMissing(field(name))
          ELSE IF field(name).type = "bool" THEN frame[field(name).tag].value # 0
          ELSE frame[field(name).tag].value ]
=============================================================================
