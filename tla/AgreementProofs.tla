-------------------------- MODULE AgreementProofs --------------------------
(***************************************************************************)
(* What the two programs have to agree on, although one is in TypeScript   *)
(* and the other in C++: messages, points and keys.                        *)
(*                                                                         *)
(* Messages (CodecExchange), for every content of the byte strings and     *)
(* every bit index: a decoder inverts the encoder of the other language    *)
(* because the tags of a message differ and because what an encoder leaves *)
(* out is what the decoder puts in.                                        *)
(*                                                                         *)
(* Points (CurveGroup), for every prime field that is 3 modulo 4 and every *)
(* curve of a prime number of points: Fermat's theorem for the square root *)
(* of the decoder, the group law by the slopes of the lines, Lagrange's    *)
(* theorem by orbits.  With them the curve is a group of the kind that     *)
(* CotOTProofs is about, whose lemmas on multiples then hold on it.        *)
(*                                                                         *)
(* Keys (CurveAgreement): the wrappers of trezor-crypto return what those  *)
(* of the client return, and an index modulo Order stands for each point.  *)
(***************************************************************************)
EXTENDS CodecExchange, CurveAgreement, FiniteSetTheorems, WellFoundedInduction, TLAPS

\* What a field of the protocol may hold.
ValueOf(field) ==
  CASE field.type = "bytes"  -> ByteString(field.size)
    [] field.type = "bool"   -> BOOLEAN
    [] field.type = "uint32" -> Nat

WellFormed(type, m) ==
  /\ m = [name \in FieldName(type) |-> m[name]]
  /\ \A name \in FieldName(type) : m[name] \in ValueOf(FieldList[type][name])
-----------------------------------------------------------------------------
(* The descriptors.                                                        *)

\* Every field is a string of bytes, a boolean or a number.
LEMMA FieldKinds ==
  ASSUME NEW type \in MessageType, NEW name \in FieldName(type)
  PROVE  LET field == FieldList[type][name] IN
         /\ field.type \in {"bytes", "bool", "uint32"}
         /\ field.type = "bytes" => field.size \in Nat \ {0}
BY DEF MessageType, FieldName, FieldList, Bytes, Bool, Uint32

\* No two fields of a message have the same tag.
LEMMA TagsDiffer ==
  ASSUME NEW type \in MessageType, NEW n1 \in FieldName(type), NEW n2 \in FieldName(type),
         FieldList[type][n1].tag = FieldList[type][n2].tag
  PROVE  n1 = n2
BY DEF MessageType, FieldName, FieldList, Bytes, Bool, Uint32
-----------------------------------------------------------------------------
(* Frames.                                                                 *)

\* A frame holds each of its fields under the field's tag, and nothing else.
LEMMA FrameFields ==
  ASSUME NEW type \in MessageType, NEW m, NEW names \in SUBSET FieldName(type)
  PROVE  LET frm == Frame(type, m, names) IN
         \A name \in FieldName(type) :
           LET field == FieldList[type][name] IN
           /\ field.tag \in DOMAIN frm <=> name \in names
           /\ name \in names => frm[field.tag] = WireField(field, m[name])
<1> DEFINE tagOf(name) == FieldList[type][name].tag
           named(tag)  == CHOOSE name \in names : tagOf(name) = tag
           frm       == Frame(type, m, names)
<1>1. frm = [ tag \in { tagOf(name) : name \in names } |->
                  WireField(FieldList[type][named(tag)], m[named(tag)]) ]
  BY DEF Frame
<1>2. ASSUME NEW name \in FieldName(type)
      PROVE  /\ tagOf(name) \in DOMAIN frm <=> name \in names
             /\ name \in names => frm[tagOf(name)] = WireField(FieldList[type][name], m[name])
  <2> HIDE DEF frm
  <2>1. tagOf(name) \in DOMAIN frm <=> \E other \in names : tagOf(other) = tagOf(name)
    BY <1>1
  <2>2. \A other \in names : tagOf(other) = tagOf(name) => other = name
    BY TagsDiffer
  <2>3. name \in names => named(tagOf(name)) = name
    <3> DEFINE P(other) == other \in names /\ tagOf(other) = tagOf(name)
    <3>1. SUFFICES ASSUME name \in names PROVE named(tagOf(name)) = name
      OBVIOUS
    <3>2. P(named(tagOf(name)))
      BY <3>1
    <3>3. QED
      BY <3>2, <2>2
  <2>4. QED
    BY <1>1, <2>1, <2>2, <2>3
<1>3. QED
  BY <1>2

\* What is written of a value reads as that value, with nanopb and with protobufjs.
LEMMA ValueReads ==
  ASSUME NEW type \in MessageType, NEW name \in FieldName(type),
         NEW value \in ValueOf(FieldList[type][name])
  PROVE  LET field == FieldList[type][name]
             w     == WireField(field, value)
         IN  /\ Accepts(field, w)
             /\ PbValue(field, w) = value
             /\ IF field.type = "bool" THEN (w.value # 0) = value ELSE w.value = value
<1> DEFINE field == FieldList[type][name]
<1>1. /\ field.type \in {"bytes", "bool", "uint32"}
      /\ field.type = "bytes" => field.size \in Nat \ {0}
  BY FieldKinds
<1> HIDE DEF field
<1>2. CASE field.type = "bytes"
  BY <1>1, <1>2 DEF ValueOf, ByteString, WireField, Accepts, PbValue, field
<1>3. CASE field.type = "bool"
  BY <1>1, <1>3 DEF ValueOf, WireField, Accepts, PbValue, field
<1>4. CASE field.type = "uint32"
  BY <1>1, <1>4 DEF ValueOf, WireField, Accepts, PbValue, field
<1>5. QED
  BY <1>1, <1>2, <1>3, <1>4

\* nanopb reads the message from any frame that leaves out default values only.
LEMMA PbDecodeInverts ==
  ASSUME NEW type \in MessageType, NEW m, WellFormed(type, m),
         NEW names \in SUBSET FieldName(type),
         \A name \in FieldName(type) \ names : m[name] = Default(FieldList[type][name])
  PROVE  PbDecode(type, Frame(type, m, names)) = m
<1> DEFINE frm == Frame(type, m, names)
           field(name) == FieldList[type][name]
           decoded == [ name \in FieldName(type) |->
                          IF field(name).tag \in DOMAIN frm
                          THEN PbValue(field(name), frm[field(name).tag])
                          ELSE InitDefault(type)[name] ]
<1>1. \A name \in FieldName(type) :
        /\ field(name).tag \in DOMAIN frm <=> name \in names
        /\ name \in names => frm[field(name).tag] = WireField(field(name), m[name])
  BY FrameFields
<1>2. \A name \in FieldName(type) :
        /\ Accepts(field(name), WireField(field(name), m[name]))
        /\ PbValue(field(name), WireField(field(name), m[name])) = m[name]
  BY ValueReads DEF WellFormed
<1>3. \A name \in FieldName(type) : InitDefault(type)[name] = Default(field(name))
  BY DEF InitDefault
<1> HIDE DEF frm, field
<1>4. \A name \in FieldName(type) : decoded[name] = m[name]
  BY <1>1, <1>2, <1>3 DEF field
<1>5. decoded = m
  BY <1>4 DEF WellFormed
<1>6. PbDecode(type, frm) = decoded
  BY <1>1, <1>2 DEF PbDecode, field
<1>7. QED
  BY <1>5, <1>6 DEF frm

\* protobufjs reads it from any frame that leaves out booleans that are false only.
LEMMA JsDecodeInverts ==
  ASSUME NEW type \in MessageType, NEW m, WellFormed(type, m),
         NEW names \in SUBSET FieldName(type),
         \A name \in FieldName(type) \ names :
           FieldList[type][name].type = "bool" /\ m[name] = FALSE
  PROVE  JsDecode(type, Frame(type, m, names)) = m
<1> DEFINE frm == Frame(type, m, names)
           field(name) == FieldList[type][name]
           value(name) == frm[field(name).tag].value
           decoded == [ name \in FieldName(type) |->
                          IF field(name).tag \notin DOMAIN frm THEN JsMissing(field(name))
                          ELSE IF field(name).type = "bool" THEN value(name) # 0
                          ELSE value(name) ]
<1>1. \A name \in FieldName(type) :
        /\ field(name).tag \in DOMAIN frm <=> name \in names
        /\ name \in names => frm[field(name).tag] = WireField(field(name), m[name])
  BY FrameFields
<1>2. \A name \in FieldName(type) :
        LET w == WireField(field(name), m[name]) IN
        IF field(name).type = "bool" THEN (w.value # 0) = m[name] ELSE w.value = m[name]
  BY ValueReads DEF WellFormed
<1> HIDE DEF frm, field
<1>3. ASSUME NEW name \in FieldName(type) PROVE decoded[name] = m[name]
  <2>1. CASE name \in names
    BY <1>1, <1>2, <2>1
  <2>2. CASE name \notin names
    BY <1>1, <2>2 DEF JsMissing, field
  <2>3. QED
    BY <2>1, <2>2
<1>4. decoded = m
  BY <1>3 DEF WellFormed
<1>5. QED
  BY <1>4 DEF JsDecode, frm, field
-----------------------------------------------------------------------------
(* Sizes.                                                                  *)

\* The largest encoding of a field: a key, and for a string its length and bytes, for
\* a boolean one byte, for a number of 32 bits five.
Largest(field) ==
  CASE field.type = "bytes"  -> 2 + field.size
    [] field.type = "bool"   -> 2
    [] field.type = "uint32" -> 6

\* A field takes no more bytes than the largest value of its kind.
LEMMA WireSizeBounded ==
  ASSUME NEW type \in MessageType, NEW name \in FieldName(type),
         NEW value \in ValueOf(FieldList[type][name])
  PROVE  LET field == FieldList[type][name]
             size  == WireSize(WireField(field, value))
         IN  /\ size \in Nat /\ size <= Largest(field)
             /\ field.type = "bytes" => size = Largest(field)
<1> DEFINE field == FieldList[type][name]
<1>1. /\ field.type \in {"bytes", "bool", "uint32"}
      /\ field.type = "bytes" => field.size \in Nat /\ field.size < 128
  BY DEF MessageType, FieldName, FieldList, Bytes, Bool, Uint32
<1> HIDE DEF field
<1>2. CASE field.type = "bytes"
  BY <1>1, <1>2 DEF ValueOf, ByteString, WireField, WireSize, VarintSize, Largest, field
<1>3. CASE field.type = "bool"
  BY <1>1, <1>3 DEF ValueOf, WireField, WireSize, VarintSize, Largest, field
<1>4. CASE field.type = "uint32"
  BY <1>1, <1>4 DEF ValueOf, WireField, WireSize, VarintSize, Largest, field
<1>5. QED
  BY <1>1, <1>2, <1>3, <1>4

\* The part of a frame that a field takes.
LEMMA PartSize ==
  ASSUME NEW type \in MessageType, NEW m, WellFormed(type, m),
         NEW names \in SUBSET FieldName(type), NEW name \in FieldName(type)
  PROVE  LET frm   == Frame(type, m, names)
             field == FieldList[type][name]
             size  == IF field.tag \in DOMAIN frm THEN WireSize(frm[field.tag]) ELSE 0
         IN  /\ size \in Nat /\ size <= Largest(field)
             /\ field.type = "bytes" /\ name \in names => size = Largest(field)
<1> DEFINE field == FieldList[type][name]
           frm   == Frame(type, m, names)
<1>1. /\ field.tag \in DOMAIN frm <=> name \in names
      /\ name \in names => frm[field.tag] = WireField(field, m[name])
  BY FrameFields
<1>2. m[name] \in ValueOf(field)
  BY DEF WellFormed
<1>3. /\ WireSize(WireField(field, m[name])) \in Nat
      /\ WireSize(WireField(field, m[name])) <= Largest(field)
      /\ field.type = "bytes" => WireSize(WireField(field, m[name])) = Largest(field)
  BY <1>2, WireSizeBounded
<1>4. Largest(field) \in Nat
  BY DEF Largest, MessageType, FieldName, FieldList, Bytes, Bool, Uint32
<1> HIDE DEF field, frm
<1>5. QED
  BY <1>1, <1>3, <1>4 DEF field, frm

\* A tag that no field of the message has takes no room.
LEMMA NoPart ==
  ASSUME NEW type \in MessageType, NEW m, NEW names \in SUBSET FieldName(type), NEW tag,
         \A name \in FieldName(type) : FieldList[type][name].tag # tag
  PROVE  tag \notin DOMAIN Frame(type, m, names)
BY DEF Frame

\* Every message but OTEncrypted fits its buffer, whatever is left out.
LEMMA FrameFits ==
  ASSUME NEW type \in MessageType, type # "OTEncrypted", NEW m, WellFormed(type, m),
         NEW names \in SUBSET FieldName(type)
  PROVE  /\ FrameSize(Frame(type, m, names)) \in Nat
         /\ FrameSize(Frame(type, m, names)) <= MaximumSize[type]
<1> DEFINE frm       == Frame(type, m, names)
           part(tag) == IF tag \in DOMAIN frm THEN WireSize(frm[tag]) ELSE 0
           tagOf(name) == FieldList[type][name].tag
<1>1. \A name \in FieldName(type) :
        part(tagOf(name)) \in Nat /\ part(tagOf(name)) <= Largest(FieldList[type][name])
  BY PartSize
<1>2. \A tag : (\A name \in FieldName(type) : tagOf(name) # tag) => part(tag) = 0
  BY NoPart
<1>3. FrameSize(frm) = part(1) + part(2) + part(3)
  BY DEF FrameSize
<1> HIDE DEF part, frm
<1>4. QED
  BY <1>1, <1>2, <1>3
     DEF MessageType, FieldName, FieldList, Bytes, Bool, Uint32, Largest, MaximumSize, frm

\* OTEncrypted never does.
LEMMA OTEncryptedDoesNotFit ==
  ASSUME NEW m, WellFormed("OTEncrypted", m)
  PROVE  FrameSize(Frame("OTEncrypted", m, FieldName("OTEncrypted"))) > MaximumSize["OTEncrypted"]
<1> DEFINE type == "OTEncrypted"
           frm  == Frame(type, m, FieldName(type))
           part(tag) == IF tag \in DOMAIN frm THEN WireSize(frm[tag]) ELSE 0
<1>1. type \in MessageType
  BY DEF MessageType, FieldList
<1>2. \A name \in FieldName(type) :
        FieldList[type][name].type = "bytes" =>
          part(FieldList[type][name].tag) = Largest(FieldList[type][name])
  BY <1>1, PartSize
<1>3. FrameSize(frm) = part(1) + part(2) + part(3)
  BY DEF FrameSize
<1> HIDE DEF part, frm
<1>4. part(1) = 34 /\ part(2) = 34 /\ part(3) = 14
  BY <1>2 DEF FieldName, FieldList, Bytes, Largest
<1>5. QED
  BY <1>3, <1>4 DEF MaximumSize, frm
-----------------------------------------------------------------------------
(* The messages and their encodings.                                       *)

\* What a message says, under the names of cot.proto.
Named(k, m) == IF k = "MTAShare" THEN [additive_share |-> m.value] ELSE m

\* What a sender builds has the fields of its message, with values of their kinds.
LEMMA MessagesWellFormed ==
  ASSUME NEW k \in MessageType, NEW m \in MessageOf(k)
  PROVE  WellFormed(k, Named(k, m))
<1> DEFINE names == FieldName(k)
           ofKind(name) == Named(k, m)[name] \in ValueOf(FieldList[k][name])
<1> SUFFICES /\ Named(k, m) = [name \in names |-> Named(k, m)[name]]
             /\ \A name \in names : ofKind(name)
  BY DEF WellFormed
<1> USE DEF Named
<1>1. CASE k = "SessionConfig"
  <2>1. m \in SessionConfigMessage
    BY <1>1 DEF MessageOf
  <2>2. names = {"debug_reveal"}
    BY <1>1 DEF FieldName, FieldList
  <2>3. m = [name \in {"debug_reveal"} |-> m[name]]
    BY <2>1 DEF SessionConfigMessage
  <2>4. ofKind("debug_reveal")
    BY <1>1, <2>1, DataAssumption
       DEF SessionConfigMessage, ValueOf, Scalar, Point, FieldList, Bytes, Bool, Uint32
  <2> HIDE DEF names, ofKind
  <2>5. QED
    BY <1>1, <2>2, <2>3, <2>4
<1>2. CASE k = "OTInit"
  <2>1. m \in OTInitMessage
    BY <1>2 DEF MessageOf
  <2>2. names = {"point_a", "bit_index"}
    BY <1>2 DEF FieldName, FieldList
  <2>3. m = [name \in {"point_a", "bit_index"} |-> m[name]]
    BY <2>1 DEF OTInitMessage
  <2>4. ofKind("point_a")
    BY <1>2, <2>1, DataAssumption
       DEF OTInitMessage, ValueOf, Scalar, Point, FieldList, Bytes, Bool, Uint32
  <2>5. ofKind("bit_index")
    BY <1>2, <2>1, DataAssumption
       DEF OTInitMessage, ValueOf, Scalar, Point, FieldList, Bytes, Bool, Uint32
  <2> HIDE DEF names, ofKind
  <2>6. QED
    BY <1>2, <2>2, <2>3, <2>4, <2>5
<1>3. CASE k = "OTResponse"
  <2>1. m \in OTResponseMessage
    BY <1>3 DEF MessageOf
  <2>2. names = {"point_b"}
    BY <1>3 DEF FieldName, FieldList
  <2>3. m = [name \in {"point_b"} |-> m[name]]
    BY <2>1 DEF OTResponseMessage
  <2>4. ofKind("point_b")
    BY <1>3, <2>1, DataAssumption
       DEF OTResponseMessage, ValueOf, Scalar, Point, FieldList, Bytes, Bool, Uint32
  <2> HIDE DEF names, ofKind
  <2>5. QED
    BY <1>3, <2>2, <2>3, <2>4
<1>4. CASE k = "OTEncrypted"
  <2>1. m \in OTEncryptedPayload
    BY <1>4 DEF MessageOf
  <2>2. names = {"encrypted_m0", "encrypted_m1", "nonce"}
    BY <1>4 DEF FieldName, FieldList
  <2>3. m = [name \in {"encrypted_m0", "encrypted_m1", "nonce"} |-> m[name]]
    BY <2>1 DEF OTEncryptedPayload
  <2>4. ofKind("encrypted_m0")
    BY <1>4, <2>1, DataAssumption
       DEF OTEncryptedPayload, ValueOf, Scalar, Point, FieldList, Bytes, Bool, Uint32
  <2>5. ofKind("encrypted_m1")
    BY <1>4, <2>1, DataAssumption
       DEF OTEncryptedPayload, ValueOf, Scalar, Point, FieldList, Bytes, Bool, Uint32
  <2>6. ofKind("nonce")
    BY <1>4, <2>1, DataAssumption
       DEF OTEncryptedPayload, ValueOf, Scalar, Point, FieldList, Bytes, Bool, Uint32
  <2> HIDE DEF names, ofKind
  <2>7. QED
    BY <1>4, <2>2, <2>3, <2>4, <2>5, <2>6
<1>5. CASE k = "MTAShare"
  <2>1. m \in ScalarMessage
    BY <1>5 DEF MessageOf
  <2>2. names = {"additive_share"}
    BY <1>5 DEF FieldName, FieldList
  <2>3. Named(k, m) = [name \in {"additive_share"} |-> Named(k, m)[name]]
    BY <1>5
  <2>4. ofKind("additive_share")
    BY <1>5, <2>1, DataAssumption
       DEF ScalarMessage, ValueOf, Scalar, Point, FieldList, Bytes, Bool, Uint32
  <2> HIDE DEF names, ofKind
  <2>5. QED
    BY <1>5, <2>2, <2>3, <2>4
<1>6. CASE k = "DebugRevealRequest"
  <2>1. m \in DebugRevealRequestMessage
    BY <1>6 DEF MessageOf
  <2>2. names = {"multiplicative_share_x", "additive_share_u"}
    BY <1>6 DEF FieldName, FieldList
  <2>3. m = [name \in {"multiplicative_share_x", "additive_share_u"} |-> m[name]]
    BY <2>1 DEF DebugRevealRequestMessage
  <2>4. ofKind("multiplicative_share_x")
    BY <1>6, <2>1, DataAssumption
       DEF DebugRevealRequestMessage, ValueOf, Scalar, Point, FieldList, Bytes, Bool, Uint32
  <2>5. ofKind("additive_share_u")
    BY <1>6, <2>1, DataAssumption
       DEF DebugRevealRequestMessage, ValueOf, Scalar, Point, FieldList, Bytes, Bool, Uint32
  <2> HIDE DEF names, ofKind
  <2>6. QED
    BY <1>6, <2>2, <2>3, <2>4, <2>5
<1>7. CASE k = "DebugRevealResponse"
  <2>1. m \in DebugRevealResponseMessage
    BY <1>7 DEF MessageOf
  <2>2. names = {"multiplicative_share_y", "verified"}
    BY <1>7 DEF FieldName, FieldList
  <2>3. m = [name \in {"multiplicative_share_y", "verified"} |-> m[name]]
    BY <2>1 DEF DebugRevealResponseMessage
  <2>4. ofKind("multiplicative_share_y")
    BY <1>7, <2>1, DataAssumption
       DEF DebugRevealResponseMessage, ValueOf, Scalar, Point, FieldList, Bytes, Bool, Uint32
  <2>5. ofKind("verified")
    BY <1>7, <2>1, DataAssumption
       DEF DebugRevealResponseMessage, ValueOf, Scalar, Point, FieldList, Bytes, Bool, Uint32
  <2> HIDE DEF names, ofKind
  <2>6. QED
    BY <1>7, <2>2, <2>3, <2>4, <2>5
<1>8. QED
  BY <1>1, <1>2, <1>3, <1>4, <1>5, <1>6, <1>7 DEF MessageType, FieldList

\* The fields that nanopb writes.
Written(type, m) ==
  { name \in FieldName(type) : IsWritten(FieldList[type][name], m[name]) }

\* It leaves out what has its default value, which is never a string of bytes.
LEMMA OmitsDefaults ==
  ASSUME NEW type \in MessageType, NEW m, WellFormed(type, m),
         NEW name \in FieldName(type) \ Written(type, m)
  PROVE  LET field == FieldList[type][name] IN
         /\ m[name] = Default(field)
         /\ field.type # "bytes"
<1> DEFINE field == FieldList[type][name]
<1>1. field.type \in {"bytes", "bool", "uint32"}
  BY FieldKinds
<1>2. m[name] \in ValueOf(field) /\ ~ IsWritten(field, m[name])
  BY DEF WellFormed, Written
<1> HIDE DEF field
<1>3. QED
  BY <1>1, <1>2 DEF ValueOf, IsWritten, Default, field

\* pb_encode gives the frame of the fields that it writes, but for OTEncrypted.
LEMMA PbEncodes ==
  ASSUME NEW type \in MessageType, NEW m, WellFormed(type, m)
  PROVE  /\ type # "OTEncrypted" => PbEncode(type, m) = Frame(type, m, Written(type, m))
         /\ type = "OTEncrypted" => PbEncode(type, m) = EmptyBody
<1> DEFINE names == Written(type, m)
           frm   == Frame(type, m, names)
<1>1. names \in SUBSET FieldName(type)
  BY DEF Written
<1>2. PbEncode(type, m) = IF FrameSize(frm) > MaximumSize[type] THEN EmptyBody ELSE frm
  BY DEF PbEncode, Written
<1>3. ASSUME type # "OTEncrypted" PROVE ~ (FrameSize(frm) > MaximumSize[type])
  <2>1. FrameSize(frm) \in Nat /\ FrameSize(frm) <= MaximumSize[type]
    BY <1>1, <1>3, FrameFits
  <2>2. MaximumSize[type] \in Nat
    BY DEF MaximumSize, MessageType, FieldList
  <2>3. QED
    BY <2>1, <2>2
<1>4. ASSUME type = "OTEncrypted" PROVE FrameSize(frm) > MaximumSize[type]
  <2>1. names = FieldName(type)
    BY <1>4, OmitsDefaults DEF Written, FieldName, FieldList, Bytes
  <2>2. QED
    BY <1>4, <2>1, OTEncryptedDoesNotFit
<1> HIDE DEF frm, names
<1>5. QED
  BY <1>2, <1>3, <1>4 DEF frm, names

\* nanopb reads what it writes.
LEMMA PbInverts ==
  ASSUME NEW type \in MessageType, type # "OTEncrypted", NEW m, WellFormed(type, m)
  PROVE  PbDecode(type, PbEncode(type, m)) = m
<1>1. PbEncode(type, m) = Frame(type, m, Written(type, m))
  BY PbEncodes
<1>2. Written(type, m) \in SUBSET FieldName(type)
  BY DEF Written
<1>3. QED
  BY <1>1, <1>2, PbDecodeInverts, OmitsDefaults

\* nanopb reads what protobufjs writes.
LEMMA JsToPb ==
  ASSUME NEW type \in MessageType, NEW m, WellFormed(type, m)
  PROVE  PbDecode(type, JsEncode(type, m)) = m
BY PbDecodeInverts DEF JsEncode

\* protobufjs reads what nanopb writes of the server's messages, which hold no numbers.
LEMMA PbToJs ==
  ASSUME NEW type \in ServerKind, NEW m, WellFormed(type, m)
  PROVE  JsDecode(type, PbEncode(type, m)) = m
<1>1. type \in MessageType /\ type # "OTEncrypted"
  BY DEF ServerKind, MessageType, FieldList
<1>2. \A name \in FieldName(type) \ Written(type, m) :
        FieldList[type][name].type = "bool" /\ m[name] = FALSE
  <2>1. \A name \in FieldName(type) : FieldList[type][name].type \in {"bytes", "bool"}
    BY DEF ServerKind, FieldName, FieldList, Bytes, Bool
  <2>2. QED
    BY <1>1, <2>1, OmitsDefaults DEF Default
<1>3. PbEncode(type, m) = Frame(type, m, Written(type, m))
  BY <1>1, PbEncodes
<1>4. Written(type, m) \in SUBSET FieldName(type)
  BY DEF Written
<1>5. QED
  BY <1>1, <1>2, <1>3, <1>4, JsDecodeInverts
-----------------------------------------------------------------------------
(* The exchange.                                                           *)

Encoding(k, m) == IF k \in ClientKind THEN JsEncode(k, m) ELSE ServerEncoding(k, m)
Decoding(k, f) == IF k \in ClientKind THEN ServerDecoding(k, f) ELSE JsDecode(k, f)

\* The inductive invariant: what is on the wire is the encoding of the message, and what
\* was received is the decoding of what is on the wire.
CodecInv ==
  /\ kind \in MessageType /\ message \in MessageOf(kind)
  /\ stage \in {"built", "encoded", "decoded"}
  /\ stage # "built" => frame = Encoding(kind, message)
  /\ stage = "decoded" => received = Decoding(kind, frame)

\* A message goes in one direction.
LEMMA Kinds == MessageType = ClientKind \cup ServerKind /\ ClientKind \cap ServerKind = {}
BY DEF MessageType, FieldList, ClientKind, ServerKind

\* What is exchanged is always an encoding of the message that was built, and what was
\* made of it.
THEOREM CodecInvariant == Spec => []CodecInv
<1>1. Init => CodecInv
  BY DEF Init, CodecInv
<1>2. ASSUME CodecInv, [Next]_vars PROVE CodecInv'
  <2> USE <1>2, Kinds DEF CodecInv
  <2>1. CASE Decoded \/ UNCHANGED vars
    BY <2>1 DEF Decoded, vars
  <2>2. CASE ClientEncodes \/ ServerEncodes
    <3>1. ClientEncodes => CodecInv'
      BY DEF ClientEncodes, Encoding
    <3>2. ServerEncodes => CodecInv'
      BY DEF ServerEncodes, Encoding
    <3>3. QED
      BY <2>2, <3>1, <3>2
  <2>3. CASE ServerDecodes \/ ClientDecodes
    <3>1. ServerDecodes => CodecInv'
      BY DEF ServerDecodes, Decoding
    <3>2. ClientDecodes => CodecInv'
      BY DEF ClientDecodes, Decoding
    <3>3. QED
      BY <2>3, <3>1, <3>2
  <2>4. QED
    BY <2>1, <2>2, <2>3 DEF Next
<1>3. QED
  BY <1>1, <1>2, PTL DEF Spec

\* The functions of proto_codec.cpp are the codec of the message under its names.
LEMMA ServerEncodingIsPb ==
  ASSUME NEW k \in ServerKind, NEW m
  PROVE  ServerEncoding(k, m) = PbEncode(k, Named(k, m))
BY DEF ServerKind, ServerEncoding, EncodeOTResponse, EncodeScalar,
       EncodeDebugRevealResponse, Named

\* The server's decoders add nothing to pb_decode.
LEMMA ServerDecodingIsPb ==
  ASSUME NEW k \in ClientKind, NEW f
  PROVE  ServerDecoding(k, f) = PbDecode(k, f)
BY DEF ClientKind, ServerDecoding, DecodeSessionConfig, DecodeOTInit, DecodeOTEncrypted,
       DecodeDebugRevealRequest

\* Every message arrives as it was built, whatever its byte strings hold.
THEOREM CodecCrossDecodes == Spec => []CrossDecodes
<1>1. CodecInv => CrossDecodes
  <2> SUFFICES ASSUME CodecInv, stage = "decoded" PROVE received = Sent
    BY DEF CrossDecodes
  <2>1. kind \in MessageType /\ WellFormed(kind, Sent) /\ Sent = Named(kind, message)
    BY MessagesWellFormed DEF CodecInv, Sent, Named
  <2>2. CASE kind \in ClientKind
    <3>1. Sent = message
      BY <2>2 DEF Sent, ClientKind
    <3>2. received = PbDecode(kind, JsEncode(kind, message))
      BY <2>2, ServerDecodingIsPb DEF CodecInv, Encoding, Decoding
    <3>3. QED
      BY <2>1, <3>1, <3>2, JsToPb
  <2>3. CASE kind \in ServerKind
    <3>1. received = JsDecode(kind, PbEncode(kind, Sent))
      BY <2>1, <2>3, Kinds, ServerEncodingIsPb DEF CodecInv, Encoding, Decoding
    <3>2. QED
      BY <2>1, <2>3, <3>1, PbToJs
  <2>4. QED
    BY <2>1, <2>2, <2>3, Kinds
<1>2. QED
  BY <1>1, CodecInvariant, PTL
-----------------------------------------------------------------------------
(* Failures.                                                               *)

\* A frame with a field is not the empty body that reports a failure.
LEMMA NotEmpty ==
  ASSUME NEW type \in MessageType, NEW m, NEW names \in SUBSET FieldName(type), names # {}
  PROVE  Frame(type, m, names) # EmptyBody
<1>1. PICK name \in names : TRUE
  OBVIOUS
<1>2. FieldList[type][name].tag \in DOMAIN Frame(type, m, names)
  BY FrameFields
<1>3. DOMAIN EmptyBody = {}
  BY DEF EmptyBody
<1>4. QED
  BY <1>2, <1>3

\* The server writes at least one string of bytes.
LEMMA ServerWrites ==
  ASSUME NEW type \in ServerKind, NEW m
  PROVE  Written(type, m) # {}
<1>1. PICK name \in FieldName(type) : FieldList[type][name].type = "bytes"
  BY DEF ServerKind, FieldName, FieldList, Bytes, Bool
<1>2. name \in Written(type, m)
  BY <1>1 DEF Written, IsWritten
<1>3. QED
  BY <1>2

\* An encoder that fails is taken for one that succeeds, and no encoder of a message that
\* is sent ever fails.
THEOREM CodecNothingFailsSilently == Spec => []NothingFailsSilently
<1>1. CodecInv => NothingFailsSilently
  <2> SUFFICES ASSUME CodecInv, stage # "built"
               PROVE  /\ frame # EmptyBody
                      /\ kind \in ServerKind => FrameSize(frame) <= MaximumSize[kind]
                      /\ kind = "OTInit" => DecodeOTInit(EncodeOTInit(message)) = message
                      /\ kind = "SessionConfig" =>
                           DecodeSessionConfig(EncodeSessionConfig(message)) = message
                      /\ kind = "MTAShare" => DecodeScalar(EncodeScalar(message)) = message
                      /\ kind = "OTEncrypted" =>
                           /\ EncodeOTEncrypted(message) = EmptyBody
                           /\ DecodeOTEncrypted(EmptyBody) = InitDefault("OTEncrypted")
    BY DEF NothingFailsSilently
  <2> DEFINE sent == Named(kind, message)
  <2>1. kind \in MessageType /\ message \in MessageOf(kind) /\ WellFormed(kind, sent)
    BY MessagesWellFormed DEF CodecInv
  <2>2. kind # "MTAShare" => sent = message
    BY DEF Named
  <2>3. CASE kind \in ClientKind
    <3>1. frame = Frame(kind, message, FieldName(kind))
      BY <2>3 DEF CodecInv, Encoding, JsEncode
    <3>2. FieldName(kind) # {}
      BY <2>3 DEF ClientKind, FieldName, FieldList
    <3>3. frame # EmptyBody
      BY <2>1, <3>1, <3>2, NotEmpty
    <3>4. kind # "MTAShare" /\ kind \notin ServerKind
      BY <2>3, Kinds DEF ClientKind
    <3>5. kind = "OTInit" => DecodeOTInit(EncodeOTInit(message)) = message
      BY <2>1, <2>2, PbInverts DEF DecodeOTInit, EncodeOTInit
    <3>6. kind = "SessionConfig" =>
            DecodeSessionConfig(EncodeSessionConfig(message)) = message
      BY <2>1, <2>2, PbInverts DEF DecodeSessionConfig, EncodeSessionConfig
    <3>7. kind = "OTEncrypted" => EncodeOTEncrypted(message) = EmptyBody
      BY <2>1, <2>2, PbEncodes DEF EncodeOTEncrypted
    <3>8. DecodeOTEncrypted(EmptyBody) = InitDefault("OTEncrypted")
      BY DEF DecodeOTEncrypted, PbDecode, EmptyBody, InitDefault
    <3>9. QED
      BY <3>3, <3>4, <3>5, <3>6, <3>7, <3>8
  <2>4. CASE kind \in ServerKind
    <3>1. /\ kind # "OTEncrypted" /\ kind # "OTInit" /\ kind # "SessionConfig"
          /\ kind \notin ClientKind
      BY <2>4 DEF ServerKind, ClientKind
    <3>2. frame = PbEncode(kind, sent)
      BY <2>4, <3>1, ServerEncodingIsPb DEF CodecInv, Encoding
    <3>3. frame = Frame(kind, sent, Written(kind, sent))
      BY <2>1, <3>1, <3>2, PbEncodes
    <3>4. Written(kind, sent) \in SUBSET FieldName(kind)
      BY DEF Written
    <3>5. frame # EmptyBody
      BY <2>1, <2>4, <3>3, <3>4, NotEmpty, ServerWrites
    <3>6. FrameSize(frame) <= MaximumSize[kind]
      BY <2>1, <3>1, <3>3, <3>4, FrameFits
    <3>7. ASSUME kind = "MTAShare" PROVE DecodeScalar(EncodeScalar(message)) = message
      <4>1. sent = [additive_share |-> message.value]
        BY <3>7 DEF Named
      <4>2. PbDecode("MTAShare", EncodeScalar(message)) = sent
        BY <2>1, <3>7, <4>1, PbInverts DEF EncodeScalar
      <4>3. sent # DecodeFails
        BY <4>1 DEF DecodeFails
      <4>4. [value |-> message.value] = message
        BY <2>1, <3>7 DEF MessageOf, ScalarMessage
      <4>5. QED
        BY <4>1, <4>2, <4>3, <4>4 DEF DecodeScalar
    <3>8. QED
      BY <3>1, <3>5, <3>6, <3>7
  <2>5. QED
    BY <2>1, <2>3, <2>4, Kinds
<1>2. QED
  BY <1>1, CodecInvariant, PTL
-----------------------------------------------------------------------------
(* Frames out of step.                                                     *)

\* A decoder refuses a frame when a tag of it does not fit, and only then.
LEMMA Refuses ==
  ASSUME NEW type \in MessageType, NEW f
  PROVE  PbDecode(type, f) # DecodeFails <=>
           \A name \in FieldName(type) :
             FieldList[type][name].tag \in DOMAIN f =>
               Accepts(FieldList[type][name], f[FieldList[type][name].tag])
<1>1. DOMAIN DecodeFails = {"failed"}
  BY DEF DecodeFails
<1>2. FieldName(type) # {"failed"}
  BY DEF MessageType, FieldName, FieldList
<1>3. QED
  BY <1>1, <1>2 DEF PbDecode

\* What the client writes under its tags.
LEMMA ClientFrames ==
  ASSUME NEW k \in ClientKind, NEW m, WellFormed(k, m)
  PROVE  LET f == JsEncode(k, m)
             hasBytes(tag, size) ==
               /\ tag \in DOMAIN f
               /\ f[tag].wire = "length-delimited" /\ f[tag].value.size = size
         IN  /\ k = "SessionConfig" => 1 \in DOMAIN f /\ f[1].wire = "varint"
             /\ k = "OTInit" => hasBytes(1, 33)
             /\ k = "OTEncrypted" => hasBytes(1, 32) /\ hasBytes(2, 32)
             /\ k = "DebugRevealRequest" => hasBytes(1, 32) /\ hasBytes(2, 32)
<1> DEFINE f == JsEncode(k, m)
           field(name) == FieldList[k][name]
<1>1. k \in MessageType
  BY Kinds
<1>2. \A name \in FieldName(k) :
        field(name).tag \in DOMAIN f /\ f[field(name).tag] = WireField(field(name), m[name])
  BY <1>1, FrameFields DEF JsEncode
<1>3. \A name \in FieldName(k) : m[name] \in ValueOf(field(name))
  BY DEF WellFormed
<1> HIDE DEF f
<1>4. \A name \in FieldName(k) :
        LET w == f[field(name).tag] IN
        IF field(name).type = "bytes"
        THEN w.wire = "length-delimited" /\ w.value.size = field(name).size
        ELSE w.wire = "varint"
  <2> SUFFICES ASSUME NEW name \in FieldName(k)
               PROVE  LET w == f[field(name).tag] IN
                      IF field(name).type = "bytes"
                      THEN w.wire = "length-delimited" /\ w.value.size = field(name).size
                      ELSE w.wire = "varint"
    OBVIOUS
  <2>1. m[name] \in ValueOf(field(name)) /\ f[field(name).tag] = WireField(field(name), m[name])
    BY <1>2, <1>3
  <2> HIDE DEF field
  <2>2. CASE field(name).type = "bytes"
    <3>1. m[name] \in ByteString(field(name).size)
      BY <2>1, <2>2 DEF ValueOf
    <3>2. f[field(name).tag] = [wire |-> "length-delimited", value |-> m[name]]
      BY <2>1, <2>2 DEF WireField
    <3>3. QED
      BY <2>2, <3>1, <3>2 DEF ByteString
  <2>3. CASE field(name).type # "bytes"
    BY <2>1, <2>3 DEF WireField
  <2>4. QED
    BY <2>2, <2>3
<1>5. QED
  BY <1>2, <1>4 DEF ClientKind, FieldName, FieldList, Bytes, Bool, Uint32, f

\* A decoder refuses what the client sends at other points of the protocol, except for
\* the two neighbours that look the same.
THEOREM CodecOnlyNeighboursConfused == Spec => []OnlyNeighboursConfused
<1>1. CodecInv => OnlyNeighboursConfused
  <2> SUFFICES ASSUME CodecInv, stage = "encoded", kind \in ClientKind,
                      NEW expected \in ClientKind \ {kind}
               PROVE  ServerDecoding(expected, frame) # DecodeFails
                        <=> {kind, expected} = {"OTEncrypted", "DebugRevealRequest"}
    BY DEF OnlyNeighboursConfused
  <2> DEFINE sent == Named(kind, message)
  <2>1. WellFormed(kind, sent) /\ frame = JsEncode(kind, sent)
    <3>1. WellFormed(kind, sent)
      BY Kinds, MessagesWellFormed DEF CodecInv
    <3>2. sent = message
      BY DEF Named, ClientKind
    <3>3. QED
      BY <3>1, <3>2 DEF CodecInv, Encoding
  <2>2. ServerDecoding(expected, frame) # DecodeFails <=>
          \A name \in FieldName(expected) :
            FieldList[expected][name].tag \in DOMAIN frame =>
              Accepts(FieldList[expected][name], frame[FieldList[expected][name].tag])
    BY Kinds, Refuses, ServerDecodingIsPb
  <2>3. /\ kind = "SessionConfig" => 1 \in DOMAIN frame /\ frame[1].wire = "varint"
        /\ kind = "OTInit" => /\ 1 \in DOMAIN frame /\ frame[1].wire = "length-delimited"
                              /\ frame[1].value.size = 33
        /\ kind \in {"OTEncrypted", "DebugRevealRequest"} =>
             \A tag \in {1, 2} : /\ tag \in DOMAIN frame /\ frame[tag].wire = "length-delimited"
                                  /\ frame[tag].value.size = 32
    BY <2>1, ClientFrames
  <2>4. kind = "DebugRevealRequest" => 3 \notin DOMAIN frame
    BY <2>1, Kinds, NoPart
       DEF JsEncode, ClientKind, FieldName, FieldList, Bytes
  <2> HIDE DEF sent
  <2>5. QED
    BY <2>2, <2>3, <2>4
       DEF ClientKind, FieldName, FieldList, Bytes, Bool, Uint32, Accepts
<1>2. QED
  BY <1>1, CodecInvariant, PTL
-----------------------------------------------------------------------------
(* Numbers modulo the prime Field.                                         *)

\* A set of naturals with 0 that is closed under successor holds them all.
LEMMA SetInduction ==
  ASSUME NEW T \in SUBSET Nat, 0 \in T, \A i \in T : i + 1 \in T
  PROVE  T = Nat
<1> DEFINE R == OpToRel(<, Nat)
<1>1. SUFFICES ASSUME Nat \ T # {} PROVE FALSE
  OBVIOUS
<1>2. PICK m \in Nat \ T : \A k \in Nat \ T : ~ (<<k, m>> \in R)
  <2>1. Nat \ T \subseteq Nat /\ IsWellFoundedOn(R, Nat)
    BY NatLessThanWellFounded
  <2> HIDE DEF R
  <2>2. QED
    BY <1>1, <2>1, WFMin
<1>3. m # 0 /\ m - 1 \in Nat
  <2>1. m \in Nat /\ m \notin T
    OBVIOUS
  <2>2. QED
    BY <2>1
<1>4. <<m-1, m>> \in R
  BY <1>3 DEF OpToRel
<1> HIDE DEF R
<1>5. m - 1 \in T
  BY <1>2, <1>3, <1>4
<1>6. (m-1) + 1 \in T /\ (m-1) + 1 = m
  BY <1>5, <1>3
<1>7. QED
  BY <1>6

\* The prime is 3 or more.
LEMMA FieldSize == Field \in Nat /\ Field > 2
<1>1. Field \in Nat /\ Field % 4 = 3
  BY CurveAssumption
<1>2. QED
  BY <1>1

\* Division with remainder, for the provers.
LEMMA DivMod ==
  ASSUME NEW i \in Nat, i > 0, NEW q \in Int
  PROVE  /\ q % i \in 0 .. (i-1)
         /\ q \div i \in Int
         /\ q = i * (q \div i) + (q % i)
  OBVIOUS

\* A number has one quotient and one remainder.
LEMMA DivModUnique ==
  ASSUME NEW i \in Nat, i > 0, NEW q \in Int, NEW m \in 0 .. (i-1)
  PROVE  (i * q + m) % i = m /\ (i * q + m) \div i = q
<1> DEFINE c == (i * q + m) % i
           d == (i * q + m) \div i
<1>1. c \in 0 .. (i-1) /\ d \in Int /\ i * q + m = i * d + c
  <2>1. i * q + m \in Int
    OBVIOUS
  <2>2. QED
    BY <2>1, DivMod
<1> HIDE DEF c, d
<1>2. i * (q - d) = c - m /\ c - m > -i /\ c - m < i
  BY <1>1
<1>3. q - d >= 1 => i * (q - d) >= i
  BY <1>1
<1>4. q - d <= -1 => i * (q - d) <= -i
  BY <1>1
<1>5. q = d
  BY <1>1, <1>2, <1>3, <1>4
<1>6. QED
  BY <1>1, <1>5 DEF c, d

\* a and b have the same residue.
Cong(a, b) == \E k \in Int : a = b + Field * k

\* Congruence is an equivalence.
LEMMA CongEquivalence ==
  /\ \A a \in Int : Cong(a, a)
  /\ \A a, b \in Int : Cong(a, b) => Cong(b, a)
  /\ \A a, b, c \in Int : Cong(a, b) /\ Cong(b, c) => Cong(a, c)
<1> USE FieldSize
<1>1. ASSUME NEW a \in Int PROVE Cong(a, a)
  <2>1. 0 \in Int /\ a = a + Field * 0
    OBVIOUS
  <2>2. QED
    BY <2>1 DEF Cong
<1>2. ASSUME NEW a \in Int, NEW b \in Int, Cong(a, b) PROVE Cong(b, a)
  <2>1. PICK k \in Int : a = b + Field * k
    BY <1>2 DEF Cong
  <2>2. -k \in Int /\ b = a + Field * (-k)
    BY <2>1
  <2>3. QED
    BY <2>2 DEF Cong
<1>3. ASSUME NEW a \in Int, NEW b \in Int, NEW c \in Int, Cong(a, b), Cong(b, c)
      PROVE  Cong(a, c)
  <2>1. PICK k \in Int : a = b + Field * k
    BY <1>3 DEF Cong
  <2>2. PICK m \in Int : b = c + Field * m
    BY <1>3 DEF Cong
  <2>3. k + m \in Int /\ a = c + Field * (k + m)
    BY <2>1, <2>2
  <2>4. QED
    BY <2>3 DEF Cong
<1>4. QED
  BY <1>1, <1>2, <1>3

\* Congruent numbers have congruent sums ...
LEMMA CongSum ==
  ASSUME NEW a \in Int, NEW b \in Int, NEW c \in Int, NEW d \in Int,
         Cong(a, b), Cong(c, d)
  PROVE  Cong(a + c, b + d)
<1>1. PICK k \in Int : a = b + Field * k
  BY DEF Cong
<1>2. PICK m \in Int : c = d + Field * m
  BY DEF Cong
<1>3. k + m \in Int /\ a + c = (b + d) + Field * (k + m)
  BY <1>1, <1>2, FieldSize
<1>4. QED
  BY <1>3 DEF Cong

\* ... differences ...
LEMMA CongMinus ==
  ASSUME NEW a \in Int, NEW b \in Int, NEW c \in Int, NEW d \in Int,
         Cong(a, b), Cong(c, d)
  PROVE  Cong(a - c, b - d)
<1>1. PICK k \in Int : a = b + Field * k
  BY DEF Cong
<1>2. PICK m \in Int : c = d + Field * m
  BY DEF Cong
<1>3. k - m \in Int /\ a - c = (b - d) + Field * (k - m)
  BY <1>1, <1>2, FieldSize
<1>4. QED
  BY <1>3 DEF Cong

\* ... and products.
LEMMA CongProduct ==
  ASSUME NEW a \in Int, NEW b \in Int, NEW c \in Int, NEW d \in Int,
         Cong(a, b), Cong(c, d)
  PROVE  Cong(a * c, b * d)
<1>1. PICK k \in Int : a = b + Field * k
  BY DEF Cong
<1>2. PICK m \in Int : c = d + Field * m
  BY DEF Cong
<1>3. b * m + d * k + Field * k * m \in Int
  BY <1>1, <1>2, FieldSize
<1>4. a * c = (b * d) + Field * (b * m + d * k + Field * k * m)
  BY <1>1, <1>2, FieldSize
<1>5. QED
  BY <1>3, <1>4 DEF Cong

\* Numbers that are congruent have the same remainder, and no two residues are.
LEMMA CongResidue ==
  ASSUME NEW a \in Int, NEW b \in Int
  PROVE  /\ a % Field \in 0 .. (Field-1)
         /\ Cong(a % Field, a) /\ Cong(a, a % Field)
         /\ Cong(a, b) <=> a % Field = b % Field
         /\ a \in 0 .. (Field-1) => a % Field = a
<1> USE FieldSize
<1>1. ASSUME NEW c \in Int
      PROVE  c % Field \in 0 .. (Field-1) /\ Cong(c % Field, c) /\ Cong(c, c % Field)
  <2>1. /\ c % Field \in 0 .. (Field-1) /\ c \div Field \in Int
        /\ c = Field * (c \div Field) + (c % Field)
    BY DivMod
  <2>2. -(c \div Field) \in Int /\ c % Field = c + Field * (-(c \div Field))
    BY <2>1
  <2>3. c = (c % Field) + Field * (c \div Field)
    BY <2>1
  <2>4. QED
    BY <2>1, <2>2, <2>3 DEF Cong
<1>2. ASSUME NEW c \in 0 .. (Field-1), NEW d \in 0 .. (Field-1), Cong(c, d) PROVE c = d
  <2>1. PICK k \in Int : c = d + Field * k
    BY <1>2 DEF Cong
  <2>2. CASE k >= 1
    <3>1. Field * k >= Field
      BY <2>2
    <3>2. QED
      BY <3>1, <2>1
  <2>3. CASE k <= -1
    <3>1. Field * k <= -Field
      BY <2>3
    <3>2. QED
      BY <3>1, <2>1
  <2>4. CASE k = 0
    BY <2>1, <2>4
  <2>5. QED
    BY <2>2, <2>3, <2>4
<1>3. ASSUME NEW c \in Int, NEW d \in Int, Cong(c, d) PROVE c % Field = d % Field
  <2>1. /\ c % Field \in 0 .. (Field-1) /\ Cong(c % Field, c)
        /\ d % Field \in 0 .. (Field-1) /\ Cong(d, d % Field)
    BY <1>1
  <2>2. c % Field \in Int /\ d % Field \in Int
    BY <2>1
  <2>3. Cong(c % Field, d % Field)
    BY <1>3, <2>1, <2>2, CongEquivalence
  <2>4. QED
    BY <1>2, <2>1, <2>3
<1>4. ASSUME NEW c \in Int, NEW d \in Int, c % Field = d % Field PROVE Cong(c, d)
  <2>1. c % Field \in Int /\ Cong(c, c % Field) /\ Cong(c % Field, d)
    BY <1>1, <1>4
  <2>2. QED
    BY <2>1, CongEquivalence
<1>5. ASSUME a \in 0 .. (Field-1) PROVE a % Field = a
  <2>1. a % Field \in 0 .. (Field-1) /\ Cong(a % Field, a)
    BY <1>1
  <2>2. QED
    BY <1>2, <1>5, <2>1
<1>6. QED
  BY <1>1, <1>3, <1>4, <1>5

\* A number is congruent to its residue.
LEMMA ModFacts ==
  ASSUME NEW a \in Int
  PROVE  a % Field \in 0 .. (Field-1) /\ a % Field \in Int /\ Cong(a % Field, a)
BY CongResidue, FieldSize

\* Multiplication by the same number.
LEMMA CongFactor ==
  ASSUME NEW a \in Int, NEW b \in Int, NEW c \in Int, Cong(a, b)
  PROVE  Cong(a * c, b * c) /\ Cong(c * a, c * b)
<1>1. Cong(c, c)
  BY CongEquivalence
<1>2. QED
  BY <1>1, CongProduct

\* Transitivity, by itself.
LEMMA CongChain ==
  ASSUME NEW a \in Int, NEW b \in Int, NEW c \in Int, Cong(a, b), Cong(b, c)
  PROVE  Cong(a, c)
BY CongEquivalence

\* Congruent numbers differ by a multiple of the prime.
LEMMA CongDifference ==
  ASSUME NEW a \in Int, NEW b \in Int
  PROVE  Cong(a, b) <=> Cong(a - b, 0)
<1>1. ASSUME NEW k \in Int PROVE a = b + Field * k <=> a - b = 0 + Field * k
  BY FieldSize
<1>2. QED
  BY <1>1 DEF Cong

\* A multiple of the prime is nothing.
LEMMA CongMultiple ==
  ASSUME NEW k \in Int
  PROVE  Field * k \in Int /\ Cong(Field * k, 0)
<1>1. Field * k \in Int /\ Field * k = 0 + Field * k
  BY FieldSize
<1>2. QED
  BY <1>1 DEF Cong

\* Field is prime: a product is a multiple of it only if a factor is.  Of the
\* positive numbers whose product with b is a multiple the least divides Field.
LEMMA ZeroProduct ==
  ASSUME NEW a \in Int, NEW b \in Int, Cong(a * b, 0)
  PROVE  Cong(a, 0) \/ Cong(b, 0)
<1>1. SUFFICES ASSUME ~Cong(a, 0), ~Cong(b, 0) PROVE FALSE
  OBVIOUS
<1> DEFINE R == OpToRel(<, Nat)
           Z == {i \in Nat \ {0} : Cong(i * b, 0)}
           w == a % Field
<1>2. w \in Z /\ w < Field
  <2>1. w \in 0 .. (Field-1) /\ Cong(w, a)
    BY CongResidue
  <2> HIDE DEF w
  <2>2. w \in Int /\ w \in Nat /\ w < Field /\ Field \in Nat
    BY <2>1, FieldSize
  <2>3. w # 0
    BY <1>1, <2>1, <2>2, CongEquivalence
  <2>4. Cong(b, b)
    BY CongEquivalence
  <2>5. Cong(w * b, a * b)
    BY <2>1, <2>2, <2>4, CongProduct
  <2>6. w * b \in Int /\ a * b \in Int /\ 0 \in Int
    BY <2>2
  <2>7. Cong(w * b, 0)
    BY <2>5, <2>6, CongEquivalence
  <2>8. QED
    BY <2>2, <2>3, <2>7
<1>3. PICK d \in Z : \A i \in Z : ~ (<<i, d>> \in R)
  <2>1. Z \subseteq Nat /\ Z # {} /\ IsWellFoundedOn(R, Nat)
    BY <1>2, NatLessThanWellFounded
  <2> HIDE DEF Z, R
  <2>2. QED
    BY <2>1, WFMin
<1>4. d \in Nat /\ d > 0 /\ Cong(d * b, 0)
  OBVIOUS
<1>5. ASSUME NEW i \in Z PROVE i >= d
  <2>1. i \in Nat
    OBVIOUS
  <2>2. ~ (<<i, d>> \in R)
    BY <1>3
  <2> HIDE DEF Z
  <2>3. ~ (i < d)
    BY <1>4, <2>1, <2>2 DEF OpToRel
  <2> HIDE DEF R
  <2>4. QED
    BY <1>4, <2>1, <2>3
<1>6. d <= w /\ w \in Nat
  BY <1>2, <1>5
<1>7. d # 1
  <2>1. SUFFICES ASSUME d = 1 PROVE FALSE
    OBVIOUS
  <2>2. d * b = b
    BY <2>1
  <2>3. QED
    BY <1>1, <1>4, <2>2
<1> DEFINE q == Field \div d
           r == Field % d
<1>8. r \in 0 .. (d-1) /\ q \in Int /\ Field = d * q + r
  BY <1>4, FieldSize, DivMod
<1> HIDE DEF q, r, w, Z
<1>9. Cong(r * b, 0)
  <2>1. Field * b \in Int /\ Cong(Field * b, 0)
    BY CongMultiple
  <2>2. d * b \in Int /\ q * (d * b) \in Int /\ r * b \in Int /\ q * 0 = 0
    BY <1>4, <1>8
  <2>3. Cong(q, q)
    BY <1>8, CongEquivalence
  <2>4. Cong(q * (d * b), 0)
    BY <1>4, <1>8, <2>2, <2>3, CongProduct
  <2>5. Cong(Field * b - q * (d * b), 0)
    BY <2>1, <2>2, <2>4, CongMinus
  <2>6. Field * b - q * (d * b) = r * b
    <3>1. r \in Int
      BY <1>4, <1>8
    <3>2. (d * q + r) * b - q * (d * b) = r * b
      BY <1>4, <1>8, <3>1
    <3>3. QED
      BY <1>8, <3>2
  <2>7. QED
    BY <2>5, <2>6
<1>10. r = 0
  <2>1. SUFFICES ASSUME r # 0 PROVE FALSE
    OBVIOUS
  <2>2. r \in Z
    BY <1>4, <1>8, <1>9, <2>1 DEF Z
  <2>3. QED
    BY <1>4, <1>5, <1>8, <2>2
<1>11. d \in 2 .. (Field-1) /\ Field % d = 0
  BY <1>2, <1>4, <1>6, <1>7, <1>10, FieldSize DEF r
<1>12. QED
  BY <1>11, CurveAssumption

\* A factor that the prime does not divide can be cancelled.
LEMMA CongCancel ==
  ASSUME NEW a \in Int, NEW b \in Int, NEW c \in Int, ~Cong(c, 0), Cong(a * c, b * c)
  PROVE  Cong(a, b)
<1>1. a * c \in Int /\ b * c \in Int /\ a * c - b * c = (a - b) * c /\ a - b \in Int
  OBVIOUS
<1>2. Cong((a - b) * c, 0)
  BY <1>1, CongDifference
<1>3. Cong(a - b, 0)
  BY <1>1, <1>2, ZeroProduct
<1>4. QED
  BY <1>3, CongDifference
-----------------------------------------------------------------------------
(* Recursion on a number that decreases.                                   *)

\* f is the recursive function of the states with a measure below the bound: a
\* state in Z has its value, any other the combination of its successor's.
IsBody(f, s, Z, D, C, v) == f[s] = IF s \in Z THEN v[s] ELSE C[<<s, f[D[s]]>>]

Defines(f, b, S, Z, D, C, v, measure) ==
  \A s \in S : measure[s] < b => IsBody(f, s, Z, D, C, v)

\* Two functions with the same recursive equation agree wherever the number is below b.
LEMMA RecursionUnique ==
  ASSUME NEW S, NEW Z, NEW D \in [S -> S], NEW C, NEW v, NEW measure \in [S -> Nat],
         \A s \in S \ Z : measure[D[s]] < measure[s],
         NEW b \in Nat, NEW f, NEW g,
         Defines(f, b, S, Z, D, C, v, measure), Defines(g, b, S, Z, D, C, v, measure)
  PROVE  \A s \in S : measure[s] < b => f[s] = g[s]
<1> DEFINE I == {i \in Nat : \A s \in S : measure[s] < i /\ measure[s] < b => f[s] = g[s]}
<1>1. 0 \in I
  OBVIOUS
<1>2. ASSUME NEW i \in I PROVE i + 1 \in I
  <2>1. SUFFICES ASSUME NEW s \in S, measure[s] < i + 1, measure[s] < b PROVE f[s] = g[s]
    OBVIOUS
  <2>2. IsBody(f, s, Z, D, C, v) /\ IsBody(g, s, Z, D, C, v)
    BY <2>1 DEF Defines
  <2>3. CASE s \in Z
    BY <2>2, <2>3 DEF IsBody
  <2>4. CASE s \notin Z
    <3>1. D[s] \in S /\ measure[D[s]] < measure[s] /\ measure[s] \in Nat /\ measure[D[s]] \in Nat
      BY <2>4
    <3>2. measure[D[s]] < i /\ measure[D[s]] < b
      BY <2>1, <3>1
    <3>3. f[D[s]] = g[D[s]]
      BY <3>1, <3>2
    <3>4. QED
      BY <2>2, <2>4, <3>3 DEF IsBody
  <2>5. QED
    BY <2>3, <2>4
<1>3. I = Nat
  BY <1>1, <1>2, SetInduction
<1>4. ASSUME NEW s \in S, measure[s] < b PROVE f[s] = g[s]
  <2>1. b \in I
    BY <1>3
  <2>2. QED
    BY <2>1, <1>4
<1>5. QED
  BY <1>4

\* A recursion on a number that decreases defines a function.
LEMMA RecursionExists ==
  ASSUME NEW S, NEW T, NEW Z, NEW D \in [S -> S], NEW C \in [S \X T -> T],
         NEW v \in [S -> T], NEW measure \in [S -> Nat],
         \A s \in S \ Z : measure[D[s]] < measure[s]
  PROVE  \E f \in [S -> T] : \A s \in S : IsBody(f, s, Z, D, C, v)
<1> DEFINE Good(f, b) == f \in [S -> T] /\ Defines(f, b, S, Z, D, C, v, measure)
           I == {b \in Nat : \E f : Good(f, b)}
<1>1. 0 \in I
  <2>1. Good(v, 0)
    BY DEF Defines
  <2>2. QED
    BY <2>1
<1>2. ASSUME NEW b \in I PROVE b + 1 \in I
  <2>1. PICK f : Good(f, b)
    OBVIOUS
  <2> DEFINE Body(s) == IF s \in Z THEN v[s] ELSE C[<<s, f[D[s]]>>]
             g == [s \in S |-> IF measure[s] < b THEN f[s] ELSE Body(s)]
  <2>2. ASSUME NEW s \in S PROVE Body(s) \in T /\ f[s] \in T /\ D[s] \in S
    <3>1. f[D[s]] \in T /\ D[s] \in S
      BY <2>1
    <3>2. <<s, f[D[s]]>> \in S \X T
      BY <3>1
    <3>3. QED
      BY <2>1, <3>1, <3>2
  <2>3. g \in [S -> T]
    BY <2>2
  <2>4. ASSUME NEW s \in S, measure[s] < b + 1 PROVE IsBody(g, s, Z, D, C, v)
    <3>1. measure[s] < b => f[s] = Body(s)
      BY <2>1 DEF Defines, IsBody
    <3>2. g[s] = Body(s)
      BY <3>1
    <3>3. CASE s \in Z
      BY <3>2, <3>3 DEF IsBody
    <3>4. CASE s \notin Z
      <4>1. /\ D[s] \in S /\ measure[D[s]] \in Nat /\ measure[s] \in Nat
            /\ measure[D[s]] < measure[s] /\ b \in Nat
        BY <2>2, <3>4
      <4>2. measure[D[s]] < b
        BY <2>4, <4>1
      <4>3. g[D[s]] = f[D[s]]
        BY <4>1, <4>2
      <4> HIDE DEF g
      <4>4. QED
        BY <3>2, <3>4, <4>3 DEF IsBody
    <3>5. QED
      BY <3>3, <3>4
  <2> HIDE DEF g
  <2>5. Good(g, b + 1)
    BY <2>3, <2>4 DEF Defines
  <2>6. QED
    BY <2>5
<1>3. I = Nat
  BY <1>1, <1>2, SetInduction
<1> DEFINE F == [b \in Nat |-> CHOOSE f : Good(f, b)]
           G == [s \in S |-> F[measure[s] + 1][s]]
<1>4. ASSUME NEW b \in Nat PROVE Good(F[b], b)
  <2>1. \E f : Good(f, b)
    BY <1>3
  <2> HIDE DEF Good
  <2>2. QED
    BY <2>1
<1> HIDE DEF F
<1>5. ASSUME NEW s \in S PROVE G[s] \in T /\ IsBody(G, s, Z, D, C, v)
  <2> DEFINE b == measure[s] + 1
  <2>1. b \in Nat /\ measure[s] \in Nat /\ measure[s] < b
    OBVIOUS
  <2>2. Good(F[b], b)
    BY <1>4, <2>1
  <2>3. G[s] = F[b][s] /\ G[s] \in T
    BY <2>2
  <2>4. IsBody(F[b], s, Z, D, C, v)
    BY <2>1, <2>2 DEF Defines
  <2>5. CASE s \in Z
    BY <2>3, <2>4, <2>5 DEF IsBody
  <2>6. CASE s \notin Z
    <3> DEFINE e == measure[D[s]] + 1
    <3>1. /\ D[s] \in S /\ e \in Nat /\ measure[D[s]] \in Nat /\ measure[D[s]] < e
          /\ measure[D[s]] < measure[s]
      BY <2>6
    <3>2. e < b
      BY <2>1, <3>1
    <3>3. G[D[s]] = F[e][D[s]]
      BY <3>1
    <3>4. Good(F[e], e)
      BY <1>4, <3>1
    <3> HIDE DEF b, e, G
    <3>5. ASSUME NEW t \in S, measure[t] < e PROVE measure[t] < b
      BY <2>1, <3>1, <3>2, <3>5
    <3>6. Defines(F[e], e, S, Z, D, C, v, measure) /\ Defines(F[b], e, S, Z, D, C, v, measure)
      BY <2>2, <3>4, <3>5 DEF Defines
    <3>7. F[e][D[s]] = F[b][D[s]]
      <4>1. \A t \in S : measure[t] < e => F[e][t] = F[b][t]
        BY <3>1, <3>6, RecursionUnique
      <4>2. QED
        BY <3>1, <4>1
    <3>8. QED
      BY <2>3, <2>4, <2>6, <3>3, <3>7 DEF IsBody
  <2>7. QED
    BY <2>3, <2>5, <2>6
<1>6. G \in [S -> T]
  BY <1>5
<1> HIDE DEF G
<1>7. QED
  BY <1>5, <1>6

\* f is a loop that maps a state by its body D until it is in Z, and returns it.
IsLoop(f, S, Z, D) == f = [s \in S |-> IF s \in Z THEN s ELSE f[D[s]]]

\* A loop on a number that decreases ends for every state.
LEMMA LoopExists ==
  ASSUME NEW S, NEW Z, NEW D \in [S -> S], NEW measure \in [S -> Nat],
         \A s \in S \ Z : measure[D[s]] < measure[s]
  PROVE  \E f : IsLoop(f, S, Z, D)
<1> DEFINE C == [p \in S \X S |-> p[2]]
           v == [s \in S |-> s]
<1>1. C \in [S \X S -> S] /\ v \in [S -> S]
  OBVIOUS
<1>2. PICK f \in [S -> S] : \A s \in S : IsBody(f, s, Z, D, C, v)
  <2> HIDE DEF C, v
  <2>1. QED
    BY <1>1, RecursionExists
<1>3. ASSUME NEW s \in S PROVE f[s] = IF s \in Z THEN s ELSE f[D[s]]
  <2>1. f[s] = IF s \in Z THEN v[s] ELSE C[<<s, f[D[s]]>>]
    BY <1>2 DEF IsBody
  <2>2. v[s] = s
    OBVIOUS
  <2>3. <<s, f[D[s]]>> \in S \X S
    OBVIOUS
  <2>4. C[<<s, f[D[s]]>>] = f[D[s]]
    BY <2>3
  <2> HIDE DEF C, v
  <2>5. QED
    BY <2>1, <2>2, <2>4
<1>4. IsLoop(f, S, Z, D)
  BY <1>3 DEF IsLoop
<1>5. QED
  BY <1>4

\* What the body of a loop preserves holds in the final state.
LEMMA LoopEnds ==
  ASSUME NEW S, NEW Z, NEW D \in [S -> S], NEW measure \in [S -> Nat],
         \A s \in S \ Z : measure[D[s]] < measure[s],
         NEW f, IsLoop(f, S, Z, D),
         NEW I \in SUBSET S, \A s \in I \ Z : D[s] \in I,
         NEW start \in I
  PROVE  f[start] \in I /\ f[start] \in Z
<1> DEFINE B == {b \in Nat : \A s \in I : measure[s] < b => f[s] \in I /\ f[s] \in Z}
<1>1. 0 \in B
  OBVIOUS
<1>2. ASSUME NEW b \in B PROVE b + 1 \in B
  <2>1. SUFFICES ASSUME NEW s \in I, measure[s] < b + 1 PROVE f[s] \in I /\ f[s] \in Z
    OBVIOUS
  <2>2. f[s] = IF s \in Z THEN s ELSE f[D[s]]
    BY DEF IsLoop
  <2>3. CASE s \in Z
    BY <2>2, <2>3
  <2>4. CASE s \notin Z
    <3>1. s \in S /\ D[s] \in I
      BY <2>4
    <3>2. /\ measure[D[s]] < measure[s] /\ measure[s] \in Nat /\ measure[D[s]] \in Nat
          /\ b \in Nat
      BY <2>4, <3>1
    <3>3. measure[D[s]] < b
      BY <2>1, <3>2
    <3>4. f[D[s]] \in I /\ f[D[s]] \in Z
      BY <3>1, <3>3
    <3>5. QED
      BY <2>2, <2>4, <3>4
  <2>5. QED
    BY <2>3, <2>4
<1>3. B = Nat
  BY <1>1, <1>2, SetInduction
<1>4. measure[start] \in Nat
  OBVIOUS
<1>5. measure[start] + 1 \in B /\ measure[start] < measure[start] + 1
  BY <1>3, <1>4
<1>6. QED
  BY <1>5
-----------------------------------------------------------------------------
(* modInverse.                                                             *)

EuclidState == [t : Int, newT : Int, r : Nat, newR : Nat]

EuclidIteration(st) ==
  [ t    |-> st.newT,
    newT |-> st.t - (st.r \div st.newR) * st.newT,
    r    |-> st.newR,
    newR |-> st.r % st.newR ]

\* number is an integer combination of the two remainders.
Combines(number, st) == \E c, d \in Int : number = c * st.r + d * st.newR

\* The remainders are multiples of w, and Field and w are combinations of them.
EuclidInv(st, w) ==
  /\ st.r > 0
  /\ Cong(st.t * w, st.r) /\ Cong(st.newT * w, st.newR)
  /\ Combines(Field, st) /\ Combines(w, st)

\* The body of modInverse's loop keeps the invariant and decreases newR.
LEMMA EuclidStep ==
  ASSUME NEW w \in Nat, NEW st \in EuclidState, st.newR # 0
  PROVE  /\ EuclidIteration(st) \in EuclidState
         /\ EuclidIteration(st).newR < st.newR
         /\ EuclidInv(st, w) => EuclidInv(EuclidIteration(st), w)
<1> DEFINE q == st.r \div st.newR
           e == st.r % st.newR
           next == EuclidIteration(st)
<1>1. st.t \in Int /\ st.newT \in Int /\ st.r \in Nat /\ st.newR \in Nat /\ st.newR > 0
  BY DEF EuclidState
<1>2. e \in 0 .. (st.newR - 1) /\ q \in Int /\ st.r = st.newR * q + e
  BY <1>1, DivMod
<1>3. next = [t |-> st.newT, newT |-> st.t - q * st.newT, r |-> st.newR, newR |-> e]
  BY DEF EuclidIteration
<1> HIDE DEF q, e, next
<1>4. next \in EuclidState /\ next.newR < st.newR
  BY <1>1, <1>2, <1>3 DEF EuclidState
<1>5. ASSUME EuclidInv(st, w) PROVE EuclidInv(next, w)
  <2>1. next.r > 0 /\ Cong(next.t * w, next.r)
    BY <1>1, <1>3, <1>5 DEF EuclidInv
  <2>2. Cong(next.newT * w, next.newR)
    <3> DEFINE a == st.t * w
               b == st.newT * w
    <3>1. Cong(a, st.r) /\ Cong(b, st.newR) /\ Cong(q, q)
      BY <1>2, <1>5, CongEquivalence DEF EuclidInv
    <3>2. a - q * b = (st.t - q * st.newT) * w /\ st.r - q * st.newR = e
      BY <1>1, <1>2
    <3>3. a \in Int /\ b \in Int /\ q \in Int /\ st.r \in Int /\ st.newR \in Int
      BY <1>1, <1>2
    <3>4. q * b \in Int /\ q * st.newR \in Int
      BY <3>3
    <3> HIDE DEF a, b
    <3>5. Cong(q * b, q * st.newR)
      BY <3>1, <3>3, CongProduct
    <3>6. Cong(a - q * b, st.r - q * st.newR)
      BY <3>1, <3>3, <3>4, <3>5, CongMinus
    <3>7. QED
      BY <1>3, <3>2, <3>6
  <2>3. ASSUME NEW m \in Int, Combines(m, st) PROVE Combines(m, next)
    <3>1. PICK c \in Int, d \in Int : m = c * st.r + d * st.newR
      BY <2>3 DEF Combines
    <3>2. c * q + d \in Int /\ m = (c * q + d) * st.newR + c * e
      BY <1>1, <1>2, <3>1
    <3>3. QED
      BY <1>3, <3>1, <3>2 DEF Combines
  <2>4. QED
    BY <1>5, <2>1, <2>2, <2>3, FieldSize DEF EuclidInv
<1>6. QED
  BY <1>4, <1>5 DEF next

\* The loop ends with 1 for every number that Field does not divide.
LEMMA EuclidCorrect ==
  ASSUME NEW number \in Int, ~Cong(number, 0)
  PROVE  /\ Euclid(number, Field).t \in Int /\ Euclid(number, Field).r = 1
         /\ Cong(Euclid(number, Field).t * number, 1)
<1> DEFINE w == number % Field
           start == [t |-> 0, newT |-> 1, r |-> Field, newR |-> w]
           Z == {st \in EuclidState : st.newR = 0}
           D == [st \in EuclidState |-> IF st \in Z THEN st ELSE EuclidIteration(st)]
           measure == [st \in EuclidState |-> st.newR]
           I == {st \in EuclidState : EuclidInv(st, w)}
           e == Euclid(number, Field)
<1>1. w \in 0 .. (Field-1) /\ Cong(w, number)
  BY CongResidue
<1>2. w \in Nat /\ w > 0 /\ w < Field
  <2>1. w \in Nat /\ w < Field
    BY <1>1, FieldSize
  <2>2. w # 0
    BY <1>1, CongEquivalence
  <2> HIDE DEF w
  <2>3. QED
    BY <2>1, <2>2
<1>3. /\ D \in [EuclidState -> EuclidState] /\ measure \in [EuclidState -> Nat]
      /\ \A st \in EuclidState \ Z : D[st] = EuclidIteration(st)
      /\ \A st \in EuclidState \ Z : measure[D[st]] < measure[st]
  <2>1. D \in [EuclidState -> EuclidState]
    BY <1>2, EuclidStep
  <2>2. measure \in [EuclidState -> Nat]
    BY DEF EuclidState
  <2>3. ASSUME NEW st \in EuclidState \ Z
        PROVE  D[st] = EuclidIteration(st) /\ measure[D[st]] < measure[st]
    <3>1. EuclidIteration(st) \in EuclidState /\ EuclidIteration(st).newR < st.newR
      BY <1>2, <2>3, EuclidStep
    <3>2. QED
      BY <3>1
  <2>4. QED
    BY <2>1, <2>2, <2>3
<1>4. PICK loop :
        /\ IsLoop(loop, EuclidState, Z, D)
        /\ e = loop[start]
  <2> DEFINE f[st \in [t : Int, newT : Int, r : Nat, newR : Nat]] ==
               IF st.newR = 0 THEN st
               ELSE f[ [ t    |-> st.newT,
                         newT |-> st.t - (st.r \div st.newR) * st.newT,
                         r    |-> st.newR,
                         newR |-> st.r % st.newR ] ]
  <2>1. PICK h : IsLoop(h, EuclidState, Z, D)
    <3>1. /\ D \in [EuclidState -> EuclidState] /\ measure \in [EuclidState -> Nat]
          /\ \A st \in EuclidState \ Z : measure[D[st]] < measure[st]
      BY <1>3
    <3> HIDE DEF Z, D, measure
    <3>2. QED
      BY <3>1, LoopExists
  <2>2. h = [st \in EuclidState |-> IF st.newR = 0 THEN st ELSE h[EuclidIteration(st)]]
    BY <1>3, <2>1 DEF IsLoop
  <2>3. f = [st \in EuclidState |-> IF st.newR = 0 THEN st ELSE f[EuclidIteration(st)]]
    BY <2>2 DEF EuclidState, EuclidIteration
  <2>4. e = f[start]
    BY DEF Euclid
  <2> HIDE DEF f
  <2>5. IsLoop(f, EuclidState, Z, D)
    BY <1>3, <2>3 DEF IsLoop
  <2>6. QED
    BY <2>4, <2>5
<1>5. start \in I
  <2>1. start \in EuclidState /\ start.r = Field /\ start.newR = w
    BY <1>2, FieldSize DEF EuclidState
  <2>2. Combines(Field, start) /\ Combines(w, start)
    <3>1. Field = 1 * Field + 0 * w /\ w = 0 * Field + 1 * w /\ 0 \in Int /\ 1 \in Int
      BY <1>2, FieldSize
    <3> HIDE DEF w
    <3>2. QED
      BY <3>1 DEF Combines
  <2>3. Cong(0 * w, Field) /\ Cong(1 * w, w)
    <3>1. 0 * w = 0 /\ 1 * w = w /\ Field * 1 = Field /\ 0 \in Int /\ Field \in Int
      BY <1>2, FieldSize
    <3>2. Cong(Field, 0)
      BY <3>1, CongMultiple
    <3>3. QED
      BY <1>2, <3>1, <3>2, CongEquivalence
  <2>4. QED
    BY <2>1, <2>2, <2>3, FieldSize DEF EuclidInv
<1>6. \A st \in I \ Z : D[st] \in I
  BY <1>2, <1>3, EuclidStep
<1>7. e \in I /\ e \in Z
  <2> HIDE DEF start, Z, D, measure, I, e
  <2>1. I \in SUBSET EuclidState
    BY DEF I
  <2>2. QED
    BY <1>3, <1>4, <1>5, <1>6, <2>1, LoopEnds
<1>8. /\ e \in EuclidState /\ EuclidInv(e, w) /\ e.newR = 0
      /\ e.t \in Int /\ e.r \in Nat /\ e.r > 0
  BY <1>7 DEF EuclidState, EuclidInv
<1> HIDE DEF w, e, Z, I, start, D, measure
<1>9. PICK c \in Int : Field = c * e.r
  BY <1>8 DEF EuclidInv, Combines
<1>10. PICK d \in Int : w = d * e.r
  BY <1>8 DEF EuclidInv, Combines
<1>11. e.r = 1
  <2>1. e.r # Field
    <3>1. SUFFICES ASSUME e.r = Field PROVE FALSE
      OBVIOUS
    <3>2. d >= 1 => d * Field >= Field
      BY FieldSize
    <3>3. d <= 0 => d * Field <= 0
      BY FieldSize
    <3>4. QED
      BY <1>2, <1>10, <3>1, <3>2, <3>3, FieldSize
  <2>2. e.r <= Field
    <3>1. c >= 1 => c * e.r >= e.r
      BY <1>8
    <3>2. c <= 0 => c * e.r <= 0
      BY <1>8
    <3>3. QED
      BY <1>8, <1>9, <3>1, <3>2, FieldSize
  <2>3. Field % e.r = 0
    <3>1. e.r \in Nat /\ e.r > 0 /\ Field \in Int
      BY <1>8, FieldSize
    <3>2. Field = e.r * c + 0 /\ 0 \in 0 .. (e.r - 1)
      BY <1>9, <3>1
    <3>3. QED
      BY <3>1, <3>2, DivModUnique
  <2>4. e.r \in 2 .. (Field-1) => Field % e.r # 0
    BY CurveAssumption
  <2>5. QED
    BY <1>8, <2>1, <2>2, <2>3, <2>4, FieldSize
<1>12. Cong(e.t * number, 1)
  <2>1. Cong(e.t * w, 1)
    BY <1>8, <1>11 DEF EuclidInv
  <2>2. Cong(number, w) /\ Cong(e.t, e.t)
    BY <1>1, <1>2, <1>8, CongEquivalence
  <2>3. Cong(e.t * number, e.t * w)
    <3>1. e.t \in Int /\ w \in Int
      BY <1>2, <1>8
    <3>2. QED
      BY <2>2, <3>1, CongProduct
  <2>4. e.t * number \in Int /\ e.t * w \in Int /\ 1 \in Int
    BY <1>2, <1>8
  <2>5. QED
    BY <2>1, <2>3, <2>4, CongEquivalence
<1>13. QED
  BY <1>8, <1>11, <1>12 DEF e

\* modInverse finds the inverse of every number that the prime does not divide.
LEMMA ModInverseCorrect ==
  ASSUME NEW number \in Int, ~Cong(number, 0)
  PROVE  ModInverse(number, Field) \in Int /\ Cong(ModInverse(number, Field) * number, 1)
<1> DEFINE e == Euclid(number, Field)
<1>1. e.t \in Int /\ e.r = 1 /\ Cong(e.t * number, 1)
  BY EuclidCorrect
<1> HIDE DEF e
<1>2. Cong((e.t + Field) * number, 1)
  <2>1. /\ (e.t + Field) * number = e.t * number + Field * number
        /\ e.t * number \in Int /\ Field * number \in Int /\ 1 + 0 = 1 /\ 0 \in Int /\ 1 \in Int
    BY <1>1, FieldSize
  <2>2. Cong(Field * number, 0)
    BY CongMultiple
  <2>3. Cong(e.t * number + Field * number, 1 + 0)
    BY <1>1, <2>1, <2>2, CongSum
  <2>4. QED
    BY <2>1, <2>3
<1>3. ModInverse(number, Field) = IF e.t < 0 THEN e.t + Field ELSE e.t
  BY <1>1 DEF ModInverse, e
<1>4. QED
  BY <1>1, <1>2, <1>3, FieldSize
-----------------------------------------------------------------------------
(* Products and powers.                                                    *)

\* g[i] is the product of f[1], ..., f[i].
IsProduct(g, f) ==
  g \in [Nat -> Int] /\ g[0] = 1 /\ \A i \in Nat : g[i+1] = g[i] * f[i+1]

Product(f) == CHOOSE g : IsProduct(g, f)
Constantly(a) == [i \in Nat |-> a]
Identically   == [i \in Nat |-> i]
Power(a) == Product(Constantly(a))

\* Products exist.
LEMMA ProductDef ==
  ASSUME NEW f \in [Nat -> Int]
  PROVE  IsProduct(Product(f), f)
<1> DEFINE D == [i \in Nat |-> IF i = 0 THEN 0 ELSE i - 1]
           C == [p \in Nat \X Int |-> p[2] * f[p[1]]]
           v == [i \in Nat |-> 1]
           measure == [i \in Nat |-> i]
<1>1. /\ D \in [Nat -> Nat] /\ C \in [Nat \X Int -> Int] /\ v \in [Nat -> Int]
      /\ measure \in [Nat -> Nat] /\ \A i \in Nat \ {0} : measure[D[i]] < measure[i]
  OBVIOUS
<1>2. PICK g \in [Nat -> Int] : \A i \in Nat : IsBody(g, i, {0}, D, C, v)
  <2> HIDE DEF D, C, v, measure
  <2>1. QED
    BY <1>1, RecursionExists
<1>3. \A i \in Nat : g[i] = IF i \in {0} THEN v[i] ELSE C[<<i, g[D[i]]>>]
  BY <1>2 DEF IsBody
<1>4. g[0] = 1
  BY <1>3
<1>5. ASSUME NEW i \in Nat PROVE g[i+1] = g[i] * f[i+1]
  <2>1. i + 1 \in Nat /\ i + 1 \notin {0} /\ D[i+1] = i /\ g[i] \in Int
    OBVIOUS
  <2>2. g[i+1] = C[<<i+1, g[i]>>]
    BY <1>3, <2>1
  <2>3. <<i+1, g[i]>> \in Nat \X Int
    BY <2>1
  <2>4. C[<<i+1, g[i]>>] = g[i] * f[i+1]
    BY <2>3
  <2>5. QED
    BY <2>2, <2>4
<1>6. IsProduct(g, f)
  BY <1>4, <1>5 DEF IsProduct
<1>7. QED
  BY <1>6 DEF Product

\* A product grows by one factor.
LEMMA ProductFacts ==
  ASSUME NEW f \in [Nat -> Int]
  PROVE  /\ Product(f) \in [Nat -> Int] /\ Product(f)[0] = 1
         /\ \A i \in Nat : Product(f)[i+1] = Product(f)[i] * f[i+1]
BY ProductDef DEF IsProduct

\* Two products whose factors differ at one place only.
LEMMA ProductReplace ==
  ASSUME NEW f \in [Nat -> Int], NEW h \in [Nat -> Int], NEW j \in Nat \ {0},
         \A i \in Nat \ {j} : f[i] = h[i]
  PROVE  \A i \in Nat : i >= j => Product(f)[i] * h[j] = Product(h)[i] * f[j]
<1> DEFINE F == Product(f)
           H == Product(h)
           T == {i \in Nat : IF i < j THEN F[i] = H[i] ELSE F[i] * h[j] = H[i] * f[j]}
<1>1. /\ F \in [Nat -> Int] /\ F[0] = 1 /\ \A i \in Nat : F[i+1] = F[i] * f[i+1]
      /\ H \in [Nat -> Int] /\ H[0] = 1 /\ \A i \in Nat : H[i+1] = H[i] * h[i+1]
  BY ProductFacts
<1> HIDE DEF F, H
<1>2. 0 \in T
  BY <1>1
<1>3. ASSUME NEW i \in T PROVE i + 1 \in T
  <2>1. i \in Nat /\ F[i] \in Int /\ H[i] \in Int /\ f[i+1] \in Int /\ h[i+1] \in Int
    BY <1>1
  <2>2. F[i+1] = F[i] * f[i+1] /\ H[i+1] = H[i] * h[i+1]
    BY <1>1, <2>1
  <2>3. CASE i + 1 < j
    <3>1. i < j /\ F[i] = H[i] /\ f[i+1] = h[i+1]
      BY <2>1, <2>3
    <3>2. QED
      BY <2>1, <2>2, <2>3, <3>1
  <2>4. CASE i + 1 = j
    <3>1. i < j /\ F[i] = H[i] /\ ~(i + 1 < j)
      BY <2>1, <2>4
    <3>2. F[i] * f[j] * h[j] = F[i] * h[j] * f[j]
      BY <2>1, <2>4
    <3>3. QED
      BY <2>1, <2>2, <2>4, <3>1, <3>2
  <2>5. CASE i + 1 > j
    <3>1. ~(i < j) /\ ~(i + 1 < j) /\ i + 1 # j
      BY <2>1, <2>5
    <3>2. F[i] * h[j] = H[i] * f[j] /\ f[i+1] = h[i+1] /\ f[j] \in Int /\ h[j] \in Int
      BY <2>1, <3>1
    <3>3. F[i] * f[i+1] * h[j] = (F[i] * h[j]) * f[i+1]
      BY <2>1, <3>2
    <3>4. H[i] * f[i+1] * f[j] = (H[i] * f[j]) * f[i+1]
      BY <2>1, <3>2
    <3>5. F[i+1] * h[j] = H[i+1] * f[j]
      BY <2>2, <3>2, <3>3, <3>4
    <3>6. QED
      BY <2>1, <3>1, <3>5
  <2>6. QED
    BY <2>1, <2>3, <2>4, <2>5
<1>4. T = Nat
  BY <1>2, <1>3, SetInduction
<1>5. QED
  BY <1>4 DEF F, H

\* f permutes the numbers 1 .. i.
Permutes(f, i) ==
  /\ \A j \in 1 .. i : f[j] \in 1 .. i
  /\ \A j, k \in 1 .. i : f[j] = f[k] => j = k
  /\ \A k \in 1 .. i : \E j \in 1 .. i : f[j] = k

\* The order of the factors does not matter: the last one is exchanged with i.
LEMMA ProductPermuted ==
  \A i \in Nat : \A f \in [Nat -> Int] :
    Permutes(f, i) => Product(f)[i] = Product(Identically)[i]
<1> DEFINE T == {i \in Nat : \A f \in [Nat -> Int] :
                   Permutes(f, i) => Product(f)[i] = Product(Identically)[i]}
<1>1. Identically \in [Nat -> Int] /\ \A i \in Nat : Identically[i] = i
  BY DEF Identically
<1>2. 0 \in T
  BY <1>1, ProductFacts
<1>3. ASSUME NEW i \in T PROVE i + 1 \in T
  <2>1. SUFFICES ASSUME NEW f \in [Nat -> Int], Permutes(f, i+1)
                 PROVE  Product(f)[i+1] = Product(Identically)[i+1]
    OBVIOUS
  <2>2. /\ i \in Nat /\ i + 1 \in 1 .. (i+1) /\ i + 1 \in Nat
        /\ 1 .. i \subseteq Nat /\ 1 .. i \subseteq 1 .. (i+1) /\ i + 1 \notin 1 .. i
        /\ \A k \in 1 .. (i+1) : k # i + 1 => k \in 1 .. i
    OBVIOUS
  <2>3. PICK j \in 1 .. (i+1) : f[j] = i + 1
    BY <2>1, <2>2 DEF Permutes
  <2> DEFINE g == [f EXCEPT ![j] = f[i+1]]
  <2>4. /\ j \in Nat \ {0} /\ g \in [Nat -> Int] /\ g[j] = f[i+1]
        /\ \A k \in Nat \ {j} : f[k] = g[k]
    BY <2>2
  <2> HIDE DEF g
  <2>5. Permutes(g, i)
    <3>1. ASSUME NEW k \in 1 .. i PROVE g[k] \in 1 .. i
      <4>1. CASE k = j
        <5>1. j # i + 1 /\ f[i+1] \in 1 .. (i+1) /\ f[i+1] # i + 1
          BY <2>1, <2>2, <2>3, <4>1, <3>1 DEF Permutes
        <5>2. QED
          BY <2>2, <2>4, <4>1, <5>1
      <4>2. CASE k # j
        <5>1. k \in 1 .. (i+1) /\ f[k] \in 1 .. (i+1) /\ f[k] # i + 1
          BY <2>1, <2>2, <2>3, <4>2, <3>1 DEF Permutes
        <5>2. g[k] = f[k]
          BY <2>2, <2>4, <4>2, <3>1
        <5>3. QED
          BY <2>2, <5>1, <5>2
      <4>3. QED
        BY <4>1, <4>2
    <3>2. ASSUME NEW k \in 1 .. i, NEW m \in 1 .. i, g[k] = g[m] PROVE k = m
      <4>1. /\ k \in 1 .. (i+1) /\ m \in 1 .. (i+1) /\ k # i + 1 /\ m # i + 1
            /\ k \in Nat /\ m \in Nat
        BY <2>2
      <4>2. \A c, d \in 1 .. (i+1) : f[c] = f[d] => c = d
        BY <2>1 DEF Permutes
      <4>3. CASE k = j /\ m # j
        <5>1. f[m] = f[i+1]
          BY <2>4, <3>2, <4>1, <4>3
        <5>2. QED
          BY <2>2, <4>1, <4>2, <5>1
      <4>4. CASE m = j /\ k # j
        <5>1. f[k] = f[i+1]
          BY <2>4, <3>2, <4>1, <4>4
        <5>2. QED
          BY <2>2, <4>1, <4>2, <5>1
      <4>5. CASE m # j /\ k # j
        <5>1. f[k] = f[m]
          BY <2>4, <3>2, <4>1, <4>5
        <5>2. QED
          BY <4>1, <4>2, <5>1
      <4>6. QED
        BY <4>3, <4>4, <4>5
    <3>3. ASSUME NEW k \in 1 .. i PROVE \E m \in 1 .. i : g[m] = k
      <4>1. k \in 1 .. (i+1) /\ k # i + 1
        BY <2>2
      <4>2. PICK m \in 1 .. (i+1) : f[m] = k
        BY <2>1, <4>1 DEF Permutes
      <4>3. m # j /\ m \in Nat
        BY <2>3, <4>1, <4>2
      <4>4. CASE m = i + 1
        <5>1. j \in 1 .. i /\ g[j] = k
          BY <2>2, <2>4, <4>2, <4>3, <4>4
        <5>2. QED
          BY <5>1
      <4>5. CASE m # i + 1
        <5>1. m \in 1 .. i /\ g[m] = k
          BY <2>2, <2>4, <4>2, <4>3, <4>5
        <5>2. QED
          BY <5>1
      <4>6. QED
        BY <4>4, <4>5
    <3>4. QED
      BY <3>1, <3>2, <3>3 DEF Permutes
  <2>6. Product(g)[i] = Product(Identically)[i]
    BY <2>4, <2>5
  <2>7. /\ Product(f)[i+1] = Product(f)[i] * f[i+1]
        /\ Product(Identically)[i+1] = Product(Identically)[i] * (i+1)
    BY <1>1, <2>2, ProductFacts
  <2>8. Product(f)[i] * f[i+1] = Product(g)[i] * (i+1)
    <3>1. CASE j = i + 1
      <4>1. g = f
        BY <2>4, <3>1
      <4>2. QED
        BY <2>3, <3>1, <4>1
    <3>2. CASE j # i + 1
      <4>1. i >= j
        BY <2>2, <2>4, <3>2
      <4>2. Product(f)[i] * g[j] = Product(g)[i] * f[j]
        BY <2>2, <2>4, <4>1, ProductReplace
      <4>3. QED
        BY <2>3, <2>4, <4>2
    <3>3. QED
      BY <3>1, <3>2
  <2>9. QED
    BY <2>6, <2>7, <2>8
<1>4. T = Nat
  BY <1>2, <1>3, SetInduction
<1>5. QED
  BY <1>4

\* Congruent factors have congruent products.
LEMMA ProductCong ==
  ASSUME NEW f \in [Nat -> Int], NEW h \in [Nat -> Int], \A i \in Nat : Cong(f[i], h[i])
  PROVE  \A i \in Nat : Cong(Product(f)[i], Product(h)[i])
<1> DEFINE F == Product(f)
           H == Product(h)
           T == {i \in Nat : Cong(F[i], H[i])}
<1>1. /\ F \in [Nat -> Int] /\ F[0] = 1 /\ \A i \in Nat : F[i+1] = F[i] * f[i+1]
      /\ H \in [Nat -> Int] /\ H[0] = 1 /\ \A i \in Nat : H[i+1] = H[i] * h[i+1]
  BY ProductFacts
<1> HIDE DEF F, H
<1>2. 0 \in T
  BY <1>1, CongEquivalence
<1>3. ASSUME NEW i \in T PROVE i + 1 \in T
  <2>1. /\ i + 1 \in Nat /\ F[i] \in Int /\ H[i] \in Int /\ f[i+1] \in Int /\ h[i+1] \in Int
        /\ Cong(F[i], H[i]) /\ Cong(f[i+1], h[i+1])
    BY <1>1
  <2>2. Cong(F[i] * f[i+1], H[i] * h[i+1])
    BY <2>1, CongProduct
  <2>3. QED
    BY <1>1, <2>1, <2>2
<1>4. T = Nat
  BY <1>2, <1>3, SetInduction
<1>5. QED
  BY <1>4 DEF F, H

\* A common factor of all the factors.
LEMMA ProductScaled ==
  ASSUME NEW f \in [Nat -> Int], NEW a \in Int
  PROVE  \A i \in Nat :
           Product([j \in Nat |-> a * f[j]])[i] = Power(a)[i] * Product(f)[i]
<1> DEFINE h == [j \in Nat |-> a * f[j]]
           c == Constantly(a)
           F == Product(f)
           H == Product(h)
           A == Power(a)
           T == {i \in Nat : H[i] = A[i] * F[i]}
<1>1. h \in [Nat -> Int] /\ c \in [Nat -> Int] /\ \A i \in Nat : c[i] = a /\ h[i] = a * f[i]
  BY DEF Constantly
<1>2. /\ F \in [Nat -> Int] /\ F[0] = 1 /\ \A i \in Nat : F[i+1] = F[i] * f[i+1]
      /\ H \in [Nat -> Int] /\ H[0] = 1 /\ \A i \in Nat : H[i+1] = H[i] * (a * f[i+1])
      /\ A \in [Nat -> Int] /\ A[0] = 1 /\ \A i \in Nat : A[i+1] = A[i] * a
  <2> HIDE DEF h, c
  <2>1. \A i \in Nat : i + 1 \in Nat
    OBVIOUS
  <2>2. QED
    BY <1>1, <2>1, ProductFacts DEF Power, c
<1> HIDE DEF F, H, A
<1>3. 0 \in T
  BY <1>2
<1>4. ASSUME NEW i \in T PROVE i + 1 \in T
  <2>1. /\ i \in Nat /\ i + 1 \in Nat /\ F[i] \in Int /\ A[i] \in Int /\ f[i+1] \in Int
        /\ H[i] = A[i] * F[i]
    BY <1>2
  <2>2. H[i+1] = H[i] * (a * f[i+1]) /\ A[i+1] = A[i] * a /\ F[i+1] = F[i] * f[i+1]
    BY <1>2, <2>1
  <2>3. (A[i] * F[i]) * (a * f[i+1]) = (A[i] * a) * (F[i] * f[i+1])
    BY <2>1
  <2>4. H[i+1] = A[i+1] * F[i+1]
    BY <2>1, <2>2, <2>3
  <2>5. QED
    BY <2>1, <2>4
<1>5. T = Nat
  BY <1>3, <1>4, SetInduction
<1>6. QED
  BY <1>5 DEF F, H, A

\* A power grows by one factor.
LEMMA PowerFacts ==
  ASSUME NEW a \in Int
  PROVE  /\ Power(a) \in [Nat -> Int] /\ Power(a)[0] = 1
         /\ \A i \in Nat : Power(a)[i+1] = Power(a)[i] * a
<1>1. Constantly(a) \in [Nat -> Int] /\ \A i \in Nat : i + 1 \in Nat /\ Constantly(a)[i+1] = a
  BY DEF Constantly
<1>2. QED
  BY <1>1, ProductFacts DEF Power

\* The power of a sum is a product.
LEMMA PowerSum ==
  ASSUME NEW a \in Int, NEW i \in Nat, NEW j \in Nat
  PROVE  Power(a)[i + j] = Power(a)[i] * Power(a)[j]
<1> DEFINE A == Power(a)
           T == {k \in Nat : A[i + k] = A[i] * A[k]}
<1>1. A \in [Nat -> Int] /\ A[0] = 1 /\ \A k \in Nat : A[k+1] = A[k] * a
  BY PowerFacts
<1> HIDE DEF A
<1>2. 0 \in T
  BY <1>1
<1>3. ASSUME NEW k \in T PROVE k + 1 \in T
  <2>1. /\ k \in Nat /\ i + k \in Nat /\ i + (k + 1) = (i + k) + 1
        /\ A[i] \in Int /\ A[k] \in Int /\ A[i + k] = A[i] * A[k]
    BY <1>1
  <2>2. A[(i + k) + 1] = A[i + k] * a /\ A[k+1] = A[k] * a
    BY <1>1, <2>1
  <2>3. (A[i] * A[k]) * a = A[i] * (A[k] * a)
    BY <2>1
  <2>4. QED
    BY <2>1, <2>2, <2>3
<1>4. T = Nat
  BY <1>2, <1>3, SetInduction
<1>5. QED
  BY <1>4 DEF A

\* The power of a product is a product.
LEMMA PowerProduct ==
  ASSUME NEW a \in Int, NEW b \in Int, NEW i \in Nat
  PROVE  Power(a * b)[i] = Power(a)[i] * Power(b)[i]
<1>1. Constantly(b) \in [Nat -> Int]
  BY DEF Constantly
<1>2. [j \in Nat |-> a * Constantly(b)[j]] = Constantly(a * b)
  BY DEF Constantly
<1>3. QED
  BY <1>1, <1>2, ProductScaled DEF Power

\* Congruent numbers have congruent powers.
LEMMA PowerCong ==
  ASSUME NEW a \in Int, NEW b \in Int, Cong(a, b), NEW i \in Nat
  PROVE  Cong(Power(a)[i], Power(b)[i])
<1>1. /\ Constantly(a) \in [Nat -> Int] /\ Constantly(b) \in [Nat -> Int]
      /\ \A j \in Nat : Cong(Constantly(a)[j], Constantly(b)[j])
  BY DEF Constantly
<1>2. QED
  BY <1>1, ProductCong DEF Power

\* The prime divides no smaller number ...
LEMMA SmallNotZero ==
  ASSUME NEW i \in 1 .. (Field-1)
  PROVE  ~Cong(i, 0)
<1>1. i \in 0 .. (Field-1) /\ 0 \in 0 .. (Field-1) /\ i # 0 /\ i \in Int /\ 0 \in Int
  BY FieldSize
<1>2. i % Field = i /\ 0 % Field = 0 /\ (Cong(i, 0) => i % Field = 0 % Field)
  BY <1>1, CongResidue
<1>3. QED
  BY <1>1, <1>2

\* ... and no product of smaller ones.
LEMMA FactorialNotZero ==
  ASSUME NEW i \in Nat, i < Field
  PROVE  ~Cong(Product(Identically)[i], 0)
<1> DEFINE F == Product(Identically)
           T == {k \in Nat : k < Field => ~Cong(F[k], 0)}
<1>1. F \in [Nat -> Int] /\ F[0] = 1 /\ \A k \in Nat : F[k+1] = F[k] * (k+1)
  <2>1. Identically \in [Nat -> Int] /\ \A k \in Nat : k + 1 \in Nat /\ Identically[k+1] = k + 1
    BY DEF Identically
  <2>2. QED
    BY <2>1, ProductFacts
<1> HIDE DEF F
<1>2. 0 \in T
  <2>1. 1 \in 1 .. (Field-1)
    BY FieldSize
  <2>2. QED
    BY <1>1, <2>1, SmallNotZero
<1>3. ASSUME NEW k \in T PROVE k + 1 \in T
  <2>1. SUFFICES ASSUME k + 1 < Field PROVE ~Cong(F[k+1], 0)
    OBVIOUS
  <2>2. k \in Nat /\ k + 1 \in Int /\ k + 1 \in 1 .. (Field-1) /\ F[k] \in Int /\ ~Cong(F[k], 0)
    BY <1>1, <2>1, FieldSize
  <2>3. F[k+1] = F[k] * (k+1) /\ ~Cong(k+1, 0)
    BY <1>1, <2>2, SmallNotZero
  <2>4. QED
    BY <2>2, <2>3, ZeroProduct
<1>4. T = Nat
  BY <1>2, <1>3, SetInduction
<1>5. QED
  BY <1>4 DEF F

\* Fermat's little theorem: multiplication by a permutes the residues but zero.
LEMMA Fermat ==
  ASSUME NEW a \in Int, ~Cong(a, 0)
  PROVE  Cong(Power(a)[Field-1], 1)
<1> DEFINE m == Field - 1
           f == [i \in Nat |-> (a * i) % Field]
           h == [i \in Nat |-> a * Identically[i]]
           inv == ModInverse(a, Field)
<1>1. /\ m \in Nat /\ Field \in Nat /\ m < Field
      /\ \A i \in 1 .. m : i \in Nat /\ i \in Int /\ i \in 0 .. m
  BY FieldSize
<1>2. Identically \in [Nat -> Int] /\ \A i \in Nat : Identically[i] = i /\ a * i \in Int
  BY DEF Identically
<1>3. /\ f \in [Nat -> Int] /\ h \in [Nat -> Int]
      /\ \A i \in Nat : f[i] = (a * i) % Field /\ h[i] = a * i
  <2>1. \A i \in Nat : (a * i) % Field \in Int
    BY <1>1, <1>2, CongResidue
  <2>2. QED
    BY <1>2, <2>1
<1>4. \A i \in Nat : f[i] \in 0 .. m /\ Cong(f[i], a * i) /\ Cong(a * i, f[i])
  BY <1>2, <1>3, CongResidue
<1> HIDE DEF f, h
<1>5. \A i \in 1 .. m : ~Cong(i, 0)
  BY SmallNotZero
<1>6. Permutes(f, m)
  <2>1. ASSUME NEW i \in 1 .. m PROVE f[i] \in 1 .. m
    <3>1. ~Cong(a * i, 0) /\ a * i \in Int /\ i \in Nat
      BY <1>1, <1>2, <1>5, ZeroProduct
    <3>2. f[i] # 0
      BY <1>4, <3>1
    <3>3. f[i] \in 0 .. m
      BY <1>4, <3>1
    <3>4. QED
      BY <1>1, <3>2, <3>3
  <2>2. ASSUME NEW i \in 1 .. m, NEW k \in 1 .. m, f[i] = f[k] PROVE i = k
    <3>1. i \in Nat /\ k \in Nat /\ a * i \in Int /\ a * k \in Int /\ i \in Int /\ k \in Int
      BY <1>1
    <3>2. Cong(a * i, a * k)
      BY <1>3, <2>2, <3>1, CongResidue
    <3>3. a * i = i * a /\ a * k = k * a
      BY <3>1
    <3>4. Cong(i, k)
      BY <3>1, <3>2, <3>3, CongCancel
    <3>5. i % Field = k % Field /\ i % Field = i /\ k % Field = k
      BY <1>1, <3>1, <3>4, CongResidue
    <3>6. QED
      BY <3>5
  <2>3. ASSUME NEW k \in 1 .. m PROVE \E i \in 1 .. m : f[i] = k
    <3> DEFINE i == (inv * k) % Field
    <3>1. inv \in Int /\ Cong(inv * a, 1) /\ k \in Int /\ k \in Nat /\ k \in 0 .. m
      BY <1>1, ModInverseCorrect
    <3> HIDE DEF inv
    <3>2. inv * k \in Int /\ inv * a \in Int /\ a * (inv * k) = (inv * a) * k /\ 1 * k = k
      BY <3>1
    <3>3. i \in 0 .. m /\ Cong(i, inv * k)
      BY <3>2, CongResidue
    <3> HIDE DEF i
    <3>4. i \in Nat /\ i \in Int /\ a * i \in Int
      BY <1>1, <3>3
    <3>5. Cong(a * i, k)
      <4>1. Cong(a, a) /\ Cong(k, k)
        BY <3>1, CongEquivalence
      <4>2. Cong(a * i, a * (inv * k))
        BY <3>2, <3>3, <3>4, <4>1, CongProduct
      <4>3. Cong((inv * a) * k, 1 * k)
        BY <3>1, <3>2, <4>1, CongProduct
      <4>4. QED
        BY <3>1, <3>2, <3>4, <4>2, <4>3, CongEquivalence
    <3>6. f[i] = k
      <4>1. (a * i) % Field = k % Field /\ k % Field = k
        BY <3>1, <3>4, <3>5, CongResidue
      <4>2. QED
        BY <1>3, <3>4, <4>1
    <3>7. i # 0
      <4>1. SUFFICES ASSUME i = 0 PROVE FALSE
        OBVIOUS
      <4>2. a * i = 0 /\ 0 \in Int
        BY <4>1
      <4>3. Cong(k, 0)
        BY <3>1, <3>5, <4>2, CongEquivalence
      <4>4. QED
        BY <1>5, <4>3
    <3>8. i \in 1 .. m
      BY <1>1, <3>3, <3>4, <3>7
    <3>9. QED
      BY <3>6, <3>8
  <2>4. QED
    BY <2>1, <2>2, <2>3 DEF Permutes
<1> DEFINE F == Product(Identically)[m]
           A == Power(a)[m]
<1>7. F \in Int /\ A \in Int /\ ~Cong(F, 0)
  BY <1>1, <1>2, ProductFacts, PowerFacts, FactorialNotZero
<1>8. Product(f)[m] = F
  BY <1>1, <1>3, <1>6, ProductPermuted
<1>9. Product(h)[m] = A * F
  BY <1>1, <1>2, ProductScaled DEF h
<1>10. Cong(Product(f)[m], Product(h)[m])
  BY <1>1, <1>3, <1>4, ProductCong
<1> HIDE DEF F, A
<1>11. Cong(A * F, 1 * F)
  <2>1. A * F \in Int /\ 1 * F = F
    BY <1>7
  <2>2. QED
    BY <1>7, <1>8, <1>9, <1>10, <2>1, CongEquivalence
<1>12. Cong(A, 1)
  BY <1>7, <1>11, CongCancel
<1>13. QED
  BY <1>12 DEF A
-----------------------------------------------------------------------------
(* modPow, and the square root of decodeCompressedPoint.                   *)

PowState == [power : Nat, current : Nat, result : Nat]

PowIteration(st) ==
  [ power   |-> st.power \div 2,
    current |-> (st.current * st.current) % Field,
    result  |-> IF st.power % 2 = 1 THEN (st.result * st.current) % Field ELSE st.result ]

\* What the result still has to be multiplied by.
PowInv(st, target) ==
  /\ st.result \in 0 .. (Field-1)
  /\ Cong(st.result * Power(st.current)[st.power], target)

\* The body of modPow's loop keeps the invariant and halves the exponent.
LEMMA PowStep ==
  ASSUME NEW target \in Int, NEW st \in PowState, st.power # 0
  PROVE  /\ PowIteration(st) \in PowState
         /\ PowIteration(st).power < st.power
         /\ PowInv(st, target) => PowInv(PowIteration(st), target)
<1> DEFINE q == st.power \div 2
           e == st.power % 2
           c == st.current
           s == st.result
           c2 == (c * c) % Field
           s2 == IF e = 1 THEN (s * c) % Field ELSE s
           next == PowIteration(st)
<1>1. /\ st.power \in Nat /\ st.power > 0 /\ st.power \in Int
      /\ c \in Nat /\ c \in Int /\ s \in Nat /\ c * c \in Int /\ s * c \in Int
  BY DEF PowState
<1>2. e \in 0 .. 1 /\ q \in Nat /\ st.power = q + q + e /\ q < st.power
  <2> DEFINE p == st.power
  <2>1. p \in Int /\ p > 0
    BY <1>1
  <2> HIDE DEF p
  <2>2. /\ p % 2 \in 0 .. 1 /\ p \div 2 \in Nat /\ p \div 2 < p
        /\ p = (p \div 2) + (p \div 2) + (p % 2)
    BY <2>1
  <2>3. QED
    BY <2>2 DEF p
<1>3. next = [power |-> q, current |-> c2, result |-> s2]
  BY DEF PowIteration
<1>4. /\ c2 \in 0 .. (Field-1) /\ Cong(c2, c * c)
      /\ (s * c) % Field \in 0 .. (Field-1) /\ Cong((s * c) % Field, s * c)
  BY <1>1, CongResidue
<1>5. c2 \in Nat /\ s2 \in Nat
  BY <1>1, <1>4, FieldSize
<1> DEFINE ce == IF e = 1 THEN c ELSE 1
<1>6. s2 \in Int /\ s * ce \in Int /\ ce \in Int /\ Cong(s2, s * ce)
  BY <1>1, <1>4, <1>5, CongEquivalence
<1>7. Power(c)[e] = ce
  <2>1. Power(c)[0] = 1 /\ Power(c)[0+1] = Power(c)[0] * c
    <3> HIDE DEF c
    <3>1. QED
      BY <1>1, PowerFacts
  <2>2. Power(c)[1] = c
    <3>1. 0 + 1 = 1 /\ 1 * c = c
      BY <1>1
    <3>2. QED
      BY <2>1, <3>1
  <2> HIDE DEF e
  <2>3. QED
    BY <1>2, <2>1, <2>2
<1> HIDE DEF q, e, c, s, c2, next, ce
<1>8. next \in PowState /\ next.power < st.power
  <2> HIDE DEF s2
  <2>1. QED
    BY <1>2, <1>3, <1>5 DEF PowState
<1>9. ASSUME PowInv(st, target) PROVE PowInv(next, target)
  <2>1. s \in 0 .. (Field-1) /\ Cong(s * Power(c)[st.power], target)
    BY <1>9 DEF PowInv, s, c
  <2>2. s2 \in 0 .. (Field-1)
    BY <1>4, <2>1
  <2> HIDE DEF s2
  <2> DEFINE u == Power(c)[q]
             u2 == Power(c2)[q]
  <2>3. c \in Int /\ c2 \in Int /\ s \in Int /\ st.power \in Int
    BY <1>1, <1>5
  <2>4. Power(c) \in [Nat -> Int] /\ Power(c2) \in [Nat -> Int]
    BY <2>3, PowerFacts
  <2>5. u \in Int /\ u2 \in Int /\ u * u \in Int
    BY <1>2, <2>4
  <2>6. Power(c)[st.power] = u * u * ce
    <3>1. Power(c)[q + q] = u * u /\ q + q \in Nat /\ e \in Nat
      BY <1>2, <2>3, <2>5, PowerSum
    <3>2. Power(c)[(q + q) + e] = Power(c)[q + q] * Power(c)[e]
      BY <2>3, <2>5, <3>1, PowerSum
    <3>3. QED
      BY <1>2, <1>7, <3>1, <3>2
  <2>7. Power(c * c)[q] = u * u
    BY <1>2, <2>3, <2>5, PowerProduct
  <2>8. Cong(u2, u * u)
    BY <1>1, <1>2, <1>4, <2>3, <2>5, <2>7, PowerCong
  <2> HIDE DEF u, u2
  <2>9. Cong(s2 * u2, (s * ce) * (u * u))
    BY <1>6, <2>3, <2>5, <2>8, CongProduct
  <2>10. (s * ce) * (u * u) = s * (u * u * ce) /\ (s * ce) * (u * u) \in Int /\ s2 * u2 \in Int
    BY <1>6, <2>3, <2>5
  <2>11. Cong(s2 * u2, target)
    BY <2>1, <2>6, <2>9, <2>10, CongEquivalence
  <2>12. QED
    BY <1>3, <2>2, <2>11 DEF PowInv, u2
<1>10. QED
  BY <1>8, <1>9 DEF next

\* modPow computes the residue of the power.
LEMMA ModPowCorrect ==
  ASSUME NEW base \in Int, NEW exponent \in Nat
  PROVE  /\ ModPow(base, exponent, Field) \in 0 .. (Field-1)
         /\ Cong(ModPow(base, exponent, Field), Power(base)[exponent])
<1> DEFINE b == base % Field
           start == [power |-> exponent, current |-> b, result |-> 1]
           target == Power(base)[exponent]
           Z == {st \in PowState : st.power = 0}
           D == [st \in PowState |-> IF st \in Z THEN st ELSE PowIteration(st)]
           measure == [st \in PowState |-> st.power]
           I == {st \in PowState : PowInv(st, target)}
<1>1. b \in 0 .. (Field-1) /\ b \in Nat /\ b \in Int /\ Cong(b, base) /\ target \in Int
  <2>1. b \in 0 .. (Field-1) /\ Cong(b, base)
    BY CongResidue
  <2>2. target \in Int
    BY PowerFacts
  <2>3. QED
    BY <2>1, <2>2, FieldSize
<1> HIDE DEF target, b
<1>2. /\ D \in [PowState -> PowState] /\ measure \in [PowState -> Nat]
      /\ \A st \in PowState \ Z : D[st] = PowIteration(st)
      /\ \A st \in PowState \ Z : measure[D[st]] < measure[st]
  <2>1. D \in [PowState -> PowState]
    BY <1>1, PowStep
  <2>2. measure \in [PowState -> Nat]
    BY DEF PowState
  <2>3. ASSUME NEW st \in PowState \ Z
        PROVE  D[st] = PowIteration(st) /\ measure[D[st]] < measure[st]
    <3>1. PowIteration(st) \in PowState /\ PowIteration(st).power < st.power
      BY <1>1, <2>3, PowStep
    <3>2. QED
      BY <3>1
  <2>4. QED
    BY <2>1, <2>2, <2>3
<1>3. PICK loop :
        /\ IsLoop(loop, PowState, Z, D)
        /\ ModPow(base, exponent, Field) = loop[start].result
  <2> DEFINE f[st \in [power : Nat, current : Nat, result : Nat]] ==
               IF st.power = 0 THEN st
               ELSE f[ [ power   |-> st.power \div 2,
                         current |-> (st.current * st.current) % Field,
                         result  |-> IF st.power % 2 = 1 THEN (st.result * st.current) % Field
                                     ELSE st.result ] ]
  <2>1. PICK h : IsLoop(h, PowState, Z, D)
    <3>1. /\ D \in [PowState -> PowState] /\ measure \in [PowState -> Nat]
          /\ \A st \in PowState \ Z : measure[D[st]] < measure[st]
      BY <1>2
    <3> HIDE DEF Z, D, measure
    <3>2. QED
      BY <3>1, LoopExists
  <2>2. h = [st \in PowState |-> IF st.power = 0 THEN st ELSE h[PowIteration(st)]]
    BY <1>2, <2>1 DEF IsLoop
  <2>3. f = [st \in PowState |-> IF st.power = 0 THEN st ELSE f[PowIteration(st)]]
    BY <2>2 DEF PowState, PowIteration
  <2>4. ModPow(base, exponent, Field) = f[start].result
    BY DEF ModPow, b
  <2> HIDE DEF f
  <2>5. IsLoop(f, PowState, Z, D)
    BY <1>2, <2>3 DEF IsLoop
  <2>6. QED
    BY <2>4, <2>5
<1>4. start \in I
  <2>1. start \in PowState /\ start.result = 1 /\ start.current = b /\ start.power = exponent
    BY <1>1 DEF PowState
  <2>2. Cong(Power(b)[exponent], target)
    BY <1>1, PowerCong DEF target
  <2>3. Power(b)[exponent] \in Int /\ 1 * Power(b)[exponent] = Power(b)[exponent]
    <3>1. Power(b) \in [Nat -> Int]
      BY <1>1, PowerFacts
    <3>2. QED
      BY <3>1
  <2>4. QED
    BY <2>1, <2>2, <2>3, FieldSize DEF PowInv
<1>5. \A st \in I \ Z : D[st] \in I
  BY <1>1, <1>2, PowStep
<1>6. loop[start] \in I /\ loop[start] \in Z
  <2>1. I \in SUBSET PowState
    OBVIOUS
  <2> HIDE DEF start, Z, D, measure, I
  <2>2. QED
    BY <1>2, <1>3, <1>4, <1>5, <2>1, LoopEnds
<1> DEFINE end == loop[start]
<1>7. /\ end.result \in 0 .. (Field-1) /\ end.power = 0 /\ end.current \in Nat
      /\ Cong(end.result * Power(end.current)[0], target)
  BY <1>6 DEF PowInv, PowState
<1> HIDE DEF end
<1>8. end.result \in Int /\ end.current \in Int /\ Power(end.current)[0] = 1
  <2>1. end.result \in Int /\ end.current \in Int
    BY <1>7, FieldSize
  <2>2. QED
    BY <2>1, PowerFacts
<1>9. Cong(end.result, target)
  BY <1>7, <1>8
<1>10. QED
  BY <1>3, <1>7, <1>9 DEF end, target

\* Field is 3 modulo 4: a power of a square is its root.
LEMMA SquareRoot ==
  ASSUME NEW py \in Int, ~Cong(py, 0), NEW rhs \in Int, Cong(rhs, py * py)
  PROVE  LET root == ModPow(rhs, (Field + 1) \div 4, Field) IN
         root \in 0 .. (Field-1) /\ Cong(root * root, rhs)
<1> DEFINE e == (Field + 1) \div 4
           root == ModPow(rhs, e, Field)
           u == Power(rhs)[e]
           y2 == py * py
<1>1. e \in Nat /\ e + e + e + e = (Field - 1) + 2 /\ e + e \in Nat /\ Field - 1 \in Nat
  BY CurveAssumption
<1> HIDE DEF e
<1>2. root \in 0 .. (Field-1) /\ Cong(root, u)
  BY <1>1, ModPowCorrect
<1>3. root \in Int /\ u \in Int /\ u * u \in Int /\ root * root \in Int /\ y2 \in Int
  <2>1. u \in Int
    BY <1>1, PowerFacts
  <2> HIDE DEF root, u
  <2>2. QED
    BY <1>2, <2>1, FieldSize
<1>4. Cong(root * root, u * u)
  <2> HIDE DEF root, u
  <2>1. QED
    BY <1>2, <1>3, CongProduct
<1>5. u * u = Power(rhs)[e + e]
  BY <1>1, PowerSum
<1>6. Cong(Power(rhs)[e + e], Power(y2)[e + e])
  BY <1>1, <1>3, PowerCong
<1>7. Power(y2)[e + e] = Power(py)[(Field - 1) + 2]
  <2>1. Power(y2)[e + e] = Power(py)[e + e] * Power(py)[e + e]
    BY <1>1, PowerProduct
  <2>2. Power(py)[(e + e) + (e + e)] = Power(py)[e + e] * Power(py)[e + e]
    BY <1>1, PowerSum
  <2>3. (e + e) + (e + e) = (Field - 1) + 2
    BY <1>1
  <2>4. QED
    BY <2>1, <2>2, <2>3
<1>8. Power(py)[(Field - 1) + 2] = Power(py)[Field - 1] * y2
  <2>1. Power(py)[(Field - 1) + 2] = Power(py)[Field - 1] * Power(py)[2]
    BY <1>1, PowerSum
  <2>2. Power(py)[0] = 1 /\ Power(py)[0+1] = Power(py)[0] * py /\ Power(py)[1+1] = Power(py)[1] * py
    BY PowerFacts
  <2>3. Power(py)[2] = y2
    BY <2>2
  <2>4. QED
    BY <2>1, <2>3
<1> DEFINE f == Power(py)[Field - 1]
<1>9. f \in Int /\ Cong(f, 1)
  BY <1>1, PowerFacts, Fermat
<1> HIDE DEF root, u, y2, f
<1>10. Cong(f * y2, 1 * y2)
  BY <1>3, <1>9, CongEquivalence, CongProduct
<1>11. f * y2 \in Int /\ 1 * y2 = y2
  BY <1>3, <1>9
<1>12. Cong(u * u, f * y2)
  BY <1>5, <1>6, <1>7, <1>8 DEF f
<1>13. Cong(u * u, y2)
  BY <1>3, <1>10, <1>11, <1>12, CongEquivalence
<1>14. Cong(y2, rhs)
  BY <1>3, CongEquivalence DEF y2
<1>15. Cong(root * root, y2)
  BY <1>3, <1>4, <1>13, CongEquivalence
<1>16. Cong(root * root, rhs)
  BY <1>3, <1>14, <1>15, CongEquivalence
<1>17. QED
  BY <1>2, <1>16 DEF root, e
-----------------------------------------------------------------------------
(* Points.                                                                 *)

\* Congruent residues are equal.
LEMMA ResidueUnique ==
  ASSUME NEW a \in 0 .. (Field-1), NEW b \in 0 .. (Field-1), Cong(a, b)
  PROVE  a = b
<1>1. a \in Int /\ b \in Int
  BY FieldSize
<1>2. a % Field = b % Field /\ a % Field = a /\ b % Field = b
  BY <1>1, CongResidue
<1>3. QED
  BY <1>2

\* The coordinates of a point of the curve are residues, and y is not 0.
LEMMA PointFacts ==
  ASSUME NEW P \in OnCurve
  PROVE  /\ ~P.infinity /\ P = Affine(P.x, P.y)
         /\ P.x \in 0 .. (Field-1) /\ P.y \in 1 .. (Field-1)
         /\ P.x \in Int /\ P.y \in Int
         /\ Cong(P.y * P.y, P.x * P.x * P.x + 7)
         /\ ~Cong(P.y, 0) /\ ~Cong(2 * P.y, 0)
<1>1. /\ P \in [infinity : {FALSE}, x : 0 .. (Field-1), y : 0 .. (Field-1)]
      /\ (P.y * P.y) % Field = (P.x * P.x * P.x + 7) % Field
  BY DEF OnCurve
<1>2. /\ P.x \in 0 .. (Field-1) /\ P.y \in 0 .. (Field-1) /\ P.x \in Int /\ P.y \in Int
      /\ ~P.infinity /\ P = [infinity |-> FALSE, x |-> P.x, y |-> P.y]
  <2>1. P.x \in 0 .. (Field-1) /\ P.y \in 0 .. (Field-1) /\ P.infinity \in {FALSE}
    BY <1>1
  <2>2. P.x \in Int /\ P.y \in Int
    BY <2>1, FieldSize
  <2>3. P = [infinity |-> P.infinity, x |-> P.x, y |-> P.y]
    BY <1>1
  <2>4. P.infinity = FALSE
    BY <2>1
  <2>5. QED
    BY <2>1, <2>2, <2>3, <2>4
<1>3. P.y * P.y \in Int /\ P.x * P.x * P.x + 7 \in Int
  BY <1>2
<1>4. Cong(P.y * P.y, P.x * P.x * P.x + 7)
  BY <1>1, <1>3, CongResidue
<1>5. P.y # 0
  <2>1. SUFFICES ASSUME P.y = 0 PROVE FALSE
    OBVIOUS
  <2>2. (P.y * P.y) % Field = 0
    BY <2>1, FieldSize
  <2>3. QED
    BY <1>1, <1>2, <2>2, CurveAssumption
<1>6. P.y \in 1 .. (Field-1) /\ ~Cong(P.y, 0)
  <2>1. P.y \in 1 .. (Field-1)
    BY <1>2, <1>5, FieldSize
  <2>2. QED
    BY <2>1, SmallNotZero
<1>7. ~Cong(2 * P.y, 0)
  <2>1. 2 \in 1 .. (Field-1) /\ 2 \in Int
    BY FieldSize
  <2>2. QED
    BY <1>2, <1>6, <2>1, SmallNotZero, ZeroProduct
<1>8. QED
  BY <1>2, <1>4, <1>6, <1>7 DEF Affine

\* Residues that satisfy the equation are a point.
LEMMA PointIntro ==
  ASSUME NEW px \in 0 .. (Field-1), NEW py \in 0 .. (Field-1),
         Cong(py * py, px * px * px + 7)
  PROVE  Affine(px, py) \in OnCurve
<1>1. px \in Int /\ py \in Int
  BY FieldSize
<1>2. py * py \in Int /\ px * px * px + 7 \in Int
  BY <1>1
<1>3. (py * py) % Field = (px * px * px + 7) % Field
  BY <1>2, CongResidue
<1>4. QED
  BY <1>3 DEF OnCurve, Affine

\* Of two points with the same x one is the other or its opposite.
LEMMA SameX ==
  ASSUME NEW P \in OnCurve, NEW Q \in OnCurve, P.x = Q.x
  PROVE  P = Q \/ (P.y + Q.y) % Field = 0
<1>1. P.y \in Int /\ Q.y \in Int /\ P.x \in Int /\ P.y \in 0 .. (Field-1) /\ Q.y \in 0 .. (Field-1)
  BY PointFacts, FieldSize
<1> DEFINE c == P.x * P.x * P.x + 7
           a == P.y * P.y
           b == Q.y * Q.y
<1>2. Cong(a, c) /\ Cong(b, c) /\ a \in Int /\ b \in Int /\ c \in Int
  BY <1>1, PointFacts
<1>3. (P.y - Q.y) * (P.y + Q.y) = a - b /\ P.y - Q.y \in Int /\ P.y + Q.y \in Int
  BY <1>1
<1> HIDE DEF a, b, c
<1>4. Cong(a, b)
  BY <1>2, CongEquivalence
<1>5. Cong((P.y - Q.y) * (P.y + Q.y), 0)
  BY <1>2, <1>3, <1>4, CongDifference
<1>6. CASE Cong(P.y - Q.y, 0)
  <2>1. P.y = Q.y
    BY <1>1, <1>6, CongDifference, ResidueUnique
  <2>2. QED
    BY <2>1, PointFacts
<1>7. CASE Cong(P.y + Q.y, 0)
  <2>1. (P.y + Q.y) % Field = 0 % Field /\ 0 % Field = 0
    BY <1>3, <1>7, CongResidue, FieldSize
  <2>2. QED
    BY <2>1
<1>8. QED
  BY <1>3, <1>5, <1>6, <1>7, ZeroProduct

\* The line with slope l through a point of the curve that meets x2, too, meets
\* the curve at a third x: the mirrored third point is on the curve.
LEMMA ThirdPoint ==
  ASSUME NEW x1 \in Int, NEW y1 \in Int, NEW x2 \in Int, NEW l \in Int,
         NEW x3 \in Int, NEW y3 \in Int,
         Cong(y1 * y1, x1 * x1 * x1 + 7),
         Cong(2 * y1 * l + l * l * (x2 - x1), x1 * x1 + x1 * x2 + x2 * x2),
         Cong(x3, l * l - x1 - x2),
         Cong(y3, l * (x1 - x3) - y1)
  PROVE  Cong(y3 * y3, x3 * x3 * x3 + 7)
<1> USE FieldSize
<1>1. PICK a \in Int : y1 * y1 = x1 * x1 * x1 + 7 + Field * a
  BY DEF Cong
<1>2. PICK b \in Int : 2 * y1 * l + l * l * (x2 - x1) = x1 * x1 + x1 * x2 + x2 * x2 + Field * b
  BY DEF Cong
<1>3. PICK c \in Int : x3 = l * l - x1 - x2 + Field * c
  BY DEF Cong
<1>4. PICK d \in Int : y3 = l * (x1 - x3) - y1 + Field * d
  BY DEF Cong
<1> DEFINE m == l * (x1 - x3) - y1
<1>5. m \in Int /\ y3 * y3 = m * m + Field * (2 * m * d + Field * d * d)
  BY <1>4
<1>6. m * m = l * l * (x1 - x3) * (x1 - x3) - (2 * y1 * l) * (x1 - x3) + y1 * y1
  OBVIOUS
<1>7. (2 * y1 * l) * (x1 - x3)
        = (x1 * x1 + x1 * x2 + x2 * x2 + Field * b - l * l * (x2 - x1)) * (x1 - x3)
  BY <1>2
<1>8. m * m = l * l * (x1 - x3) * (x1 - x3)
              - (x1 * x1 + x1 * x2 + x2 * x2 + Field * b - l * l * (x2 - x1)) * (x1 - x3)
              + (x1 * x1 * x1 + 7 + Field * a)
  BY <1>1, <1>6, <1>7
<1> DEFINE k == l * l - x1 - x2 - x3
<1>9. m * m = x3 * x3 * x3 + 7 + (x1 - x3) * (x2 - x3) * k + Field * (a - b * (x1 - x3))
  BY <1>8
<1>10. k = Field * (-c) /\ -c \in Int
  BY <1>3
<1> DEFINE w == (x1 - x3) * (x2 - x3) * (-c) + a - b * (x1 - x3) + 2 * m * d + Field * d * d
<1>11. w \in Int
  BY <1>5
<1>12. y3 * y3 = x3 * x3 * x3 + 7 + Field * w
  <2>1. (x1 - x3) * (x2 - x3) * k = Field * ((x1 - x3) * (x2 - x3) * (-c))
    <3> HIDE DEF k
    <3>1. QED
      BY <1>10
  <2> HIDE DEF k, m
  <2>2. QED
    BY <1>5, <1>9, <2>1
<1>13. QED
  BY <1>11, <1>12 DEF Cong

\* l is the slope of the line through P and Q, or of the tangent.
IsSlope(l, P, Q) ==
  /\ l \in Int
  /\ IF P = Q THEN Cong(2 * P.y * l, 3 * P.x * P.x) ELSE Cong(l * (Q.x - P.x), Q.y - P.y)

\* The point that addPoints computes from a slope.
SumBySlope(l, P, Q) ==
  LET x3 == (l * l - P.x - Q.x) % Field IN
  Affine(x3, (l * (P.x - x3) - P.y) % Field)

Opposite(P, Q) == P.x = Q.x /\ (P.y + Q.y) % Field = 0

\* What addPoints computes as lambda is the slope.
LEMMA LambdaIsSlope ==
  ASSUME NEW P \in OnCurve, NEW Q \in OnCurve, ~Opposite(P, Q)
  PROVE  IsSlope(Lambda(P, Q), P, Q)
<1>1. /\ P.x \in Int /\ P.y \in Int /\ Q.x \in Int /\ Q.y \in Int
      /\ P.x \in 0 .. (Field-1) /\ Q.x \in 0 .. (Field-1) /\ ~Cong(2 * P.y, 0) /\ 2 * P.y \in Int
  BY PointFacts
<1>2. CASE P = Q
  <2> DEFINE d == 2 * P.y
             inv == ModInverse(d, Field)
             u == 3 * P.x * P.x
             l == (u * inv) % Field
  <2>1. Lambda(P, Q) = l
    BY <1>2 DEF Lambda
  <2>2. d \in Int /\ ~Cong(d, 0) /\ u \in Int
    BY <1>1
  <2> HIDE DEF d, u
  <2>3. inv \in Int /\ Cong(inv * d, 1)
    BY <2>2, ModInverseCorrect
  <2> HIDE DEF inv
  <2>4. u * inv \in Int /\ inv * d \in Int /\ d * (u * inv) = (inv * d) * u /\ 1 * u = u
    BY <2>2, <2>3
  <2> DEFINE v == u * inv
             o == inv * d
  <2>5. v \in Int /\ o \in Int /\ l = v % Field /\ Cong(o, 1)
    BY <2>3, <2>4
  <2>6. d * v = o * u
    BY <2>4
  <2> HIDE DEF l, v, o
  <2>7. l \in Int /\ Cong(l, v)
    BY <2>5, ModFacts
  <2>8. Cong(d * l, d * v) /\ Cong(o * u, 1 * u)
    <3>1. Cong(d * l, d * v)
      BY <2>2, <2>5, <2>7, CongFactor
    <3>2. 1 \in Int
      OBVIOUS
    <3>3. Cong(o * u, 1 * u)
      BY <2>2, <2>5, <3>2, CongFactor
    <3>4. QED
      BY <3>1, <3>3
  <2>9. Cong(d * l, u)
    <3>1. d * l \in Int /\ d * v \in Int /\ Cong(d * v, u)
      BY <2>2, <2>4, <2>5, <2>6, <2>7, <2>8
    <3>2. QED
      BY <2>2, <2>8, <3>1, CongChain
  <2>10. QED
    BY <1>2, <2>1, <2>7, <2>9 DEF IsSlope, d, u
<1>3. CASE P # Q
  <2> DEFINE d == Q.x - P.x
             inv == ModInverse(d, Field)
             u == Q.y - P.y
             l == (u * inv) % Field
  <2>1. P.x # Q.x
    BY <1>3, SameX DEF Opposite
  <2>2. Lambda(P, Q) = l
    BY <2>1 DEF Lambda
  <2>3. d \in Int /\ u \in Int
    BY <1>1
  <2>4. ~Cong(d, 0)
    BY <1>1, <2>1, CongDifference, ResidueUnique
  <2> HIDE DEF d, u
  <2>5. inv \in Int /\ Cong(inv * d, 1)
    BY <2>3, <2>4, ModInverseCorrect
  <2> HIDE DEF inv
  <2>6. u * inv \in Int /\ inv * d \in Int /\ (u * inv) * d = u * (inv * d) /\ u * 1 = u
    BY <2>3, <2>5
  <2> DEFINE v == u * inv
             o == inv * d
  <2>7. v \in Int /\ o \in Int /\ l = v % Field /\ Cong(o, 1)
    BY <2>5, <2>6
  <2>8. v * d = u * o
    BY <2>6
  <2> HIDE DEF l, v, o
  <2>9. l \in Int /\ Cong(l, v)
    BY <2>7, ModFacts
  <2>10. Cong(l * d, v * d) /\ Cong(u * o, u * 1)
    <3>1. Cong(l * d, v * d)
      BY <2>3, <2>7, <2>9, CongFactor
    <3>2. 1 \in Int
      OBVIOUS
    <3>3. Cong(u * o, u * 1)
      BY <2>3, <2>7, <3>2, CongFactor
    <3>4. QED
      BY <3>1, <3>3
  <2>11. Cong(l * d, u)
    <3>1. l * d \in Int /\ v * d \in Int /\ Cong(v * d, u)
      BY <2>3, <2>6, <2>7, <2>8, <2>9, <2>10
    <3>2. QED
      BY <2>3, <2>10, <3>1, CongChain
  <2>12. QED
    BY <1>3, <2>2, <2>9, <2>11 DEF IsSlope, d, u
<1>4. QED
  BY <1>2, <1>3

\* All slopes are congruent.
LEMMA SlopeUnique ==
  ASSUME NEW P \in OnCurve, NEW Q \in OnCurve, ~Opposite(P, Q),
         NEW k, IsSlope(k, P, Q), NEW l, IsSlope(l, P, Q)
  PROVE  Cong(k, l)
<1>1. /\ P.x \in Int /\ P.y \in Int /\ Q.x \in Int /\ Q.y \in Int /\ k \in Int /\ l \in Int
      /\ P.x \in 0 .. (Field-1) /\ Q.x \in 0 .. (Field-1) /\ ~Cong(2 * P.y, 0) /\ 2 * P.y \in Int
  BY PointFacts DEF IsSlope
<1>2. CASE P = Q
  <2> DEFINE d == 2 * P.y
             u == 3 * P.x * P.x
  <2>1. Cong(d * k, u) /\ Cong(d * l, u)
    BY <1>2 DEF IsSlope
  <2>2. d \in Int /\ u \in Int /\ ~Cong(d, 0)
    BY <1>1
  <2> HIDE DEF d, u
  <2>3. d * k \in Int /\ d * l \in Int /\ d * k = k * d /\ d * l = l * d
    BY <1>1, <2>2
  <2>4. Cong(k * d, l * d)
    BY <2>1, <2>2, <2>3, CongEquivalence
  <2>5. QED
    BY <1>1, <2>2, <2>4, CongCancel
<1>3. CASE P # Q
  <2> DEFINE d == Q.x - P.x
             u == Q.y - P.y
  <2>1. Cong(k * d, u) /\ Cong(l * d, u)
    BY <1>3 DEF IsSlope
  <2>2. P.x # Q.x
    BY <1>3, SameX DEF Opposite
  <2>3. ~Cong(d, 0)
    BY <1>1, <2>2, CongDifference, ResidueUnique
  <2>4. d \in Int /\ u \in Int
    BY <1>1
  <2> HIDE DEF d, u
  <2>5. k * d \in Int /\ l * d \in Int
    BY <1>1, <2>4
  <2>6. Cong(k * d, l * d)
    BY <2>1, <2>4, <2>5, CongEquivalence
  <2>7. QED
    BY <1>1, <2>3, <2>4, <2>6, CongCancel
<1>4. QED
  BY <1>2, <1>3

\* Symmetry, by itself.
LEMMA CongSymmetric ==
  ASSUME NEW a \in Int, NEW b \in Int, Cong(a, b)
  PROVE  Cong(b, a)
BY CongEquivalence

\* The sum depends on the residue of the slope only.
LEMMA SumCong ==
  ASSUME NEW P \in OnCurve, NEW Q \in OnCurve, NEW k \in Int, NEW l \in Int, Cong(k, l)
  PROVE  SumBySlope(k, P, Q) = SumBySlope(l, P, Q)
<1> DEFINE a == k * k - P.x - Q.x
           b == l * l - P.x - Q.x
           x3 == b % Field
           c == k * (P.x - x3) - P.y
           d == l * (P.x - x3) - P.y
<1>1. P.x \in Int /\ P.y \in Int /\ Q.x \in Int
  BY PointFacts
<1>2. /\ k * k \in Int /\ l * l \in Int /\ k * k - P.x \in Int /\ l * l - P.x \in Int
      /\ a \in Int /\ b \in Int
  BY <1>1
<1>3. Cong(P.x, P.x) /\ Cong(P.y, P.y) /\ Cong(Q.x, Q.x)
  BY <1>1, CongEquivalence
<1>4. Cong(k * k, l * l)
  BY CongProduct
<1>5. Cong(k * k - P.x, l * l - P.x)
  BY <1>1, <1>2, <1>3, <1>4, CongMinus
<1>6. Cong(a, b)
  BY <1>1, <1>2, <1>3, <1>5, CongMinus
<1>7. a % Field = x3
  BY <1>2, <1>6, CongResidue
<1>8. x3 \in Int
  BY <1>2, ModFacts
<1> HIDE DEF a, b, x3
<1> DEFINE e == P.x - x3
<1>9. e \in Int
  BY <1>1, <1>8
<1> HIDE DEF e
<1>10. Cong(k * e, l * e)
  BY <1>9, CongFactor
<1>11. k * e \in Int /\ l * e \in Int
  BY <1>9
<1>12. P.y \in Int /\ Cong(P.y, P.y)
  BY <1>1, <1>3
<1>13. Cong(k * e - P.y, l * e - P.y)
  BY <1>10, <1>11, <1>12, CongMinus
<1>14. (k * e - P.y) % Field = (l * e - P.y) % Field
  <2>1. k * e - P.y \in Int /\ l * e - P.y \in Int
    BY <1>1, <1>11
  <2>2. QED
    BY <1>13, <2>1, CongResidue
<1>15. c % Field = d % Field
  BY <1>14 DEF e
<1>16. SumBySlope(k, P, Q) = Affine(a % Field, (k * (P.x - (a % Field)) - P.y) % Field)
  BY DEF SumBySlope, a
<1>17. SumBySlope(l, P, Q) = Affine(x3, (l * (P.x - x3) - P.y) % Field)
  BY DEF SumBySlope, x3, b
<1>18. QED
  BY <1>7, <1>15, <1>16, <1>17

\* addPoints may be computed with any number of the residue of lambda.
LEMMA AddBySlope ==
  ASSUME NEW P \in OnCurve, NEW Q \in OnCurve, ~Opposite(P, Q), NEW l, IsSlope(l, P, Q)
  PROVE  AddPoints(P, Q) = SumBySlope(l, P, Q)
<1> DEFINE k == Lambda(P, Q)
<1>1. ~P.infinity /\ ~Q.infinity
  BY PointFacts
<1>2. AddPoints(P, Q) = SumBySlope(k, P, Q)
  BY <1>1 DEF AddPoints, SumBySlope, Opposite
<1>3. IsSlope(k, P, Q)
  BY LambdaIsSlope
<1>4. k \in Int /\ l \in Int /\ Cong(k, l)
  BY <1>3, SlopeUnique DEF IsSlope
<1>5. QED
  BY <1>2, <1>4, SumCong

\* What ThirdPoint asks for.
LEMMA SlopeOfSecant ==
  ASSUME NEW P \in OnCurve, NEW Q \in OnCurve, ~Opposite(P, Q), NEW l, IsSlope(l, P, Q)
  PROVE  Cong(2 * P.y * l + l * l * (Q.x - P.x), P.x * P.x + P.x * Q.x + Q.x * Q.x)
<1>1. /\ P.x \in Int /\ P.y \in Int /\ Q.x \in Int /\ Q.y \in Int /\ l \in Int
      /\ P.x \in 0 .. (Field-1) /\ Q.x \in 0 .. (Field-1)
      /\ Cong(P.y * P.y, P.x * P.x * P.x + 7) /\ Cong(Q.y * Q.y, Q.x * Q.x * Q.x + 7)
  BY PointFacts DEF IsSlope
<1>2. CASE P = Q
  <2>1. Cong(2 * P.y * l, 3 * P.x * P.x)
    BY <1>2 DEF IsSlope
  <2>2. 2 * P.y * l + l * l * (Q.x - P.x) = 2 * P.y * l
    BY <1>1, <1>2
  <2>3. P.x * P.x + P.x * Q.x + Q.x * Q.x = 3 * P.x * P.x
    BY <1>1, <1>2
  <2>4. QED
    BY <2>1, <2>2, <2>3
<1>3. CASE P # Q
  <2> DEFINE d == Q.x - P.x
             u == 2 * P.y * l + l * l * d
             v == P.x * P.x + P.x * Q.x + Q.x * Q.x
  <2>1. ~Cong(d, 0)
    <3>1. P.x # Q.x
      BY <1>3, SameX DEF Opposite
    <3>2. QED
      BY <1>1, <3>1, CongDifference, ResidueUnique
  <2>2. d \in Int /\ u \in Int /\ v \in Int
    BY <1>1
  <2>3. PICK a \in Int : P.y * P.y = P.x * P.x * P.x + 7 + Field * a
    BY <1>1 DEF Cong
  <2>4. PICK b \in Int : Q.y * Q.y = Q.x * Q.x * Q.x + 7 + Field * b
    BY <1>1 DEF Cong
  <2>5. PICK c \in Int : l * d = (Q.y - P.y) + Field * c
    BY <1>3 DEF IsSlope, Cong
  <2>6. u * d - v * d
          = 2 * P.y * (l * d) + (l * d) * (l * d) - (Q.x * Q.x * Q.x - P.x * P.x * P.x)
    BY <1>1
  <2> DEFINE m == l * d
             w == 2 * P.y * c + 2 * (Q.y - P.y) * c + Field * c * c + b - a
  <2>7. 2 * P.y * m + m * m - (Q.x * Q.x * Q.x - P.x * P.x * P.x) = Field * w
    <3>1. /\ m = (Q.y - P.y) + Field * c
          /\ Q.x * Q.x * Q.x = Q.y * Q.y - 7 - Field * b
          /\ P.x * P.x * P.x = P.y * P.y - 7 - Field * a
      BY <1>1, <2>3, <2>4, <2>5, FieldSize
    <3> HIDE DEF m, d
    <3>2. 2 * P.y * m + m * m = 2 * P.y * ((Q.y - P.y) + Field * c)
                                + ((Q.y - P.y) + Field * c) * ((Q.y - P.y) + Field * c)
      BY <3>1
    <3>3. QED
      BY <1>1, <3>1, <3>2, FieldSize
  <2>8. w \in Int
    BY <1>1, FieldSize
  <2>9. u * d = v * d + Field * w
    <3> HIDE DEF w
    <3>1. u * d - v * d = Field * w
      BY <2>6, <2>7
    <3> HIDE DEF u, v, d
    <3>2. u * d \in Int /\ v * d \in Int /\ Field * w \in Int
      BY <2>2, <2>8, FieldSize
    <3>3. QED
      BY <3>1, <3>2
  <2> HIDE DEF u, v, d, w
  <2>10. Cong(u * d, v * d)
    BY <2>8, <2>9 DEF Cong
  <2>11. Cong(u, v)
    BY <2>1, <2>2, <2>10, CongCancel
  <2>12. QED
    BY <2>11 DEF u, v, d
<1>4. QED
  BY <1>2, <1>3

\* The sum of two points is a point, unless they are opposite.
LEMMA SumOnCurve ==
  ASSUME NEW P \in OnCurve, NEW Q \in OnCurve, ~Opposite(P, Q), NEW l, IsSlope(l, P, Q)
  PROVE  SumBySlope(l, P, Q) \in OnCurve
<1> DEFINE a == l * l - P.x - Q.x
           x3 == a % Field
           b == l * (P.x - x3) - P.y
           y3 == b % Field
<1>1. /\ P.x \in Int /\ P.y \in Int /\ Q.x \in Int /\ l \in Int
      /\ Cong(P.y * P.y, P.x * P.x * P.x + 7)
  BY PointFacts DEF IsSlope
<1>2. a \in Int
  BY <1>1
<1>3. x3 \in 0 .. (Field-1) /\ x3 \in Int /\ Cong(x3, a)
  BY <1>2, ModFacts
<1> HIDE DEF x3
<1>4. b \in Int
  BY <1>1, <1>3
<1>5. y3 \in 0 .. (Field-1) /\ y3 \in Int /\ Cong(y3, b)
  BY <1>4, ModFacts
<1> HIDE DEF y3
<1>6. Cong(2 * P.y * l + l * l * (Q.x - P.x), P.x * P.x + P.x * Q.x + Q.x * Q.x)
  BY SlopeOfSecant
<1>7. Cong(y3 * y3, x3 * x3 * x3 + 7)
  BY <1>1, <1>3, <1>5, <1>6, ThirdPoint
<1>8. Affine(x3, y3) \in OnCurve
  BY <1>3, <1>5, <1>7, PointIntro
<1>9. QED
  BY <1>8 DEF SumBySlope, x3, y3
-----------------------------------------------------------------------------
(* The addition: closed and commutative.                                   *)

\* The opposite of a point mirrors y.
LEMMA NegateFacts ==
  ASSUME NEW P \in OnCurve
  PROVE  /\ NegatePoint(P) = Affine(P.x, Field - P.y)
         /\ NegatePoint(P) \in OnCurve
         /\ Opposite(P, NegatePoint(P))
<1>1. /\ P.x \in 0 .. (Field-1) /\ P.y \in 1 .. (Field-1) /\ P.x \in Int /\ P.y \in Int
      /\ ~P.infinity /\ Cong(P.y * P.y, P.x * P.x * P.x + 7)
  BY PointFacts
<1> DEFINE m == Field - P.y
<1>2. m \in 0 .. (Field-1) /\ m \in Int /\ Field * (-1) + m = -P.y
  BY <1>1, FieldSize
<1>3. (-P.y) % Field = m
  <2>1. -1 \in Int /\ Field \in Nat /\ Field > 0
    BY FieldSize
  <2> HIDE DEF m
  <2>2. (Field * (-1) + m) % Field = m
    BY <1>2, <2>1, DivModUnique
  <2>3. QED
    BY <1>2, <2>2
<1>4. NegatePoint(P) = Affine(P.x, m)
  BY <1>1, <1>3 DEF NegatePoint
<1>5. Cong(m * m, P.x * P.x * P.x + 7)
  <2>1. m * m = P.y * P.y + Field * (Field - 2 * P.y)
    BY <1>1, FieldSize
  <2> DEFINE k == Field - 2 * P.y
  <2>2. k \in Int
    BY <1>1, FieldSize
  <2>3. m * m \in Int /\ P.y * P.y \in Int /\ P.x * P.x * P.x + 7 \in Int
    BY <1>1, <1>2
  <2>4. Cong(m * m, P.y * P.y)
    <3> HIDE DEF k
    <3>1. m * m = P.y * P.y + Field * k
      BY <2>1 DEF k
    <3>2. QED
      BY <2>2, <3>1 DEF Cong
  <2>5. QED
    BY <1>1, <2>3, <2>4, CongChain
<1>6. Affine(P.x, m) \in OnCurve
  BY <1>1, <1>2, <1>5, PointIntro
<1>7. (P.y + m) % Field = 0
  <2>1. P.y + m = Field /\ Field % Field = 0
    BY <1>1, FieldSize
  <2>2. QED
    BY <2>1
<1>8. QED
  BY <1>4, <1>6, <1>7 DEF Opposite, Affine

\* Infinity is no point of the curve and its own opposite.
LEMMA InfiniteFacts ==
  /\ Infinite.infinity /\ Infinite \notin OnCurve /\ NegatePoint(Infinite) = Infinite
  /\ Element = OnCurve \cup {Infinite}
<1>1. Infinite.infinity
  BY DEF Infinite
<1>2. QED
  BY <1>1, PointFacts DEF NegatePoint, Element

\* addPoints on two points of the curve.
LEMMA AddOfPoints ==
  ASSUME NEW P \in OnCurve, NEW Q \in OnCurve
  PROVE  IF Opposite(P, Q) THEN AddPoints(P, Q) = Infinite ELSE AddPoints(P, Q) \in OnCurve
<1>1. ~P.infinity /\ ~Q.infinity
  BY PointFacts
<1>2. CASE Opposite(P, Q)
  BY <1>1, <1>2 DEF AddPoints, Opposite
<1>3. CASE ~Opposite(P, Q)
  <2>1. IsSlope(Lambda(P, Q), P, Q)
    BY <1>3, LambdaIsSlope
  <2>2. QED
    BY <1>3, <2>1, AddBySlope, SumOnCurve
<1>4. QED
  BY <1>2, <1>3

\* Infinity is neutral.
LEMMA AddInfinite ==
  ASSUME NEW P \in Element
  PROVE  AddPoints(P, Infinite) = P /\ AddPoints(Infinite, P) = P
<1>1. CASE P = Infinite
  BY <1>1, InfiniteFacts DEF AddPoints
<1>2. CASE P \in OnCurve
  BY <1>2, InfiniteFacts, PointFacts DEF AddPoints
<1>3. QED
  BY <1>1, <1>2, InfiniteFacts

\* addPoints returns a point or infinity.
LEMMA AdditionClosed ==
  ASSUME NEW P \in Element, NEW Q \in Element
  PROVE  AddPoints(P, Q) \in Element
<1>1. CASE P = Infinite
  BY <1>1, AddInfinite
<1>2. CASE Q = Infinite
  BY <1>2, AddInfinite
<1>3. CASE P \in OnCurve /\ Q \in OnCurve
  BY <1>3, AddOfPoints, InfiniteFacts
<1>4. QED
  BY <1>1, <1>2, <1>3, InfiniteFacts

\* negatePoint gives the inverse.
LEMMA NegateElement ==
  ASSUME NEW P \in Element
  PROVE  NegatePoint(P) \in Element /\ AddPoints(P, NegatePoint(P)) = Infinite
<1>1. CASE P = Infinite
  BY <1>1, InfiniteFacts, AddInfinite
<1>2. CASE P \in OnCurve
  BY <1>2, NegateFacts, AddOfPoints, InfiniteFacts
<1>3. QED
  BY <1>1, <1>2, InfiniteFacts

\* The line is the same from the other end, and so is its third point.
LEMMA SumSymmetric ==
  ASSUME NEW P \in OnCurve, NEW Q \in OnCurve, P # Q, ~Opposite(P, Q),
         NEW l, IsSlope(l, P, Q)
  PROVE  SumBySlope(l, P, Q) = SumBySlope(l, Q, P)
<1>1. P.x \in Int /\ P.y \in Int /\ Q.x \in Int /\ Q.y \in Int /\ l \in Int
  BY PointFacts DEF IsSlope
<1> DEFINE x3 == (l * l - P.x - Q.x) % Field
           a == l * (P.x - x3) - P.y
           b == l * (Q.x - x3) - Q.y
<1>2. l * l - P.x - Q.x = l * l - Q.x - P.x /\ l * l - P.x - Q.x \in Int
  BY <1>1
<1>3. x3 \in Int
  BY <1>2, ModFacts
<1>4. PICK k \in Int : l * (Q.x - P.x) = Q.y - P.y + Field * k
  BY DEF IsSlope, Cong
<1> HIDE DEF x3
<1>5. b = a + Field * k
  <2>1. b = a + (l * (Q.x - P.x) - (Q.y - P.y))
    BY <1>1, <1>3
  <2> DEFINE m == l * (Q.x - P.x)
  <2>2. m \in Int
    BY <1>1
  <2> HIDE DEF m
  <2>3. m - (Q.y - P.y) = Field * k
    BY <1>1, <1>4, <2>2, FieldSize DEF m
  <2>4. QED
    BY <2>1, <2>3 DEF m
<1>6. a \in Int /\ b \in Int
  BY <1>1, <1>3
<1>7. Cong(b, a)
  <2> HIDE DEF a, b
  <2>1. QED
    BY <1>5 DEF Cong
<1>8. b % Field = a % Field
  <2> HIDE DEF a, b
  <2>1. QED
    BY <1>6, <1>7, CongResidue
<1>9. SumBySlope(l, P, Q) = Affine(x3, a % Field)
  BY DEF SumBySlope, x3
<1>10. SumBySlope(l, Q, P) = Affine(x3, b % Field)
  BY <1>2 DEF SumBySlope, x3
<1>11. QED
  BY <1>8, <1>9, <1>10

\* Opposite points are opposite in either order.
LEMMA OppositeSymmetric ==
  ASSUME NEW P \in OnCurve, NEW Q \in OnCurve
  PROVE  Opposite(P, Q) <=> Opposite(Q, P)
<1>1. P.y \in Int /\ Q.y \in Int
  BY PointFacts
<1>2. P.y + Q.y = Q.y + P.y
  BY <1>1
<1>3. QED
  BY <1>2 DEF Opposite

\* addPoints is commutative.
LEMMA AdditionCommutative ==
  ASSUME NEW P \in Element, NEW Q \in Element
  PROVE  AddPoints(P, Q) = AddPoints(Q, P)
<1>1. CASE P = Infinite \/ Q = Infinite
  BY <1>1, AddInfinite
<1>2. CASE P \in OnCurve /\ Q \in OnCurve
  <2>1. CASE Opposite(P, Q)
    BY <1>2, <2>1, AddOfPoints, OppositeSymmetric
  <2>2. CASE P # Q /\ ~Opposite(P, Q)
    <3> DEFINE l == Lambda(P, Q)
    <3>1. ~Opposite(Q, P)
      BY <1>2, <2>2, OppositeSymmetric
    <3>2. IsSlope(l, P, Q)
      BY <1>2, <2>2, LambdaIsSlope
    <3> HIDE DEF l
    <3>3. IsSlope(l, Q, P)
      <4>1. l \in Int /\ P.x \in Int /\ Q.x \in Int /\ P.y \in Int /\ Q.y \in Int
        BY <1>2, <3>2, PointFacts DEF IsSlope
      <4>2. Cong(l * (Q.x - P.x), Q.y - P.y)
        BY <2>2, <3>2 DEF IsSlope
      <4> DEFINE a == l * (Q.x - P.x)
                 b == Q.y - P.y
      <4>3. a \in Int /\ b \in Int /\ 0 \in Int /\ Cong(0, 0)
        BY <4>1, CongEquivalence
      <4>4. l * (P.x - Q.x) = 0 - a /\ P.y - Q.y = 0 - b
        BY <4>1
      <4> HIDE DEF a, b
      <4>5. Cong(0 - a, 0 - b)
        BY <4>2, <4>3, CongMinus DEF a, b
      <4>6. QED
        BY <2>2, <4>1, <4>4, <4>5 DEF IsSlope
    <3>4. QED
      BY <1>2, <2>2, <3>1, <3>2, <3>3, AddBySlope, SumSymmetric
  <2>3. QED
    BY <2>1, <2>2
<1>3. QED
  BY <1>1, <1>2, InfiniteFacts
-----------------------------------------------------------------------------
(* The slopes of the four lines of an associative law.                     *)

Zero(e) == Cong(e, 0)

\* l is the slope of a line through (x1, y1) and (x2, y2); (px, py) is what addPoints
\* computes from it.
Slope(l, x1, y1, x2, y2) == Zero(l * (x1 - x2) - (y1 - y2))
XOfSum(px, l, x1, x2)    == Zero(px - (l * l - x1 - x2))
YOfSum(py, l, px, x1, y1) == Zero(py - (l * (x1 - px) - y1))

\* The numbers that are zero modulo the prime.
LEMMA ZeroFacts ==
  /\ Zero(0)
  /\ \A a, b \in Int : Cong(a, b) <=> Zero(a - b)
  /\ \A a, b \in Int : Zero(a) /\ Zero(b) => Zero(a + b) /\ Zero(a - b)
  /\ \A a, c \in Int : Zero(a) => Zero(c * a)
<1>1. \A a, b \in Int : Cong(a, b) <=> Zero(a - b)
  BY CongDifference DEF Zero
<1>2. Zero(0)
  BY CongEquivalence DEF Zero
<1>3. ASSUME NEW a \in Int, NEW b \in Int, Zero(a), Zero(b) PROVE Zero(a + b) /\ Zero(a - b)
  <2>1. PICK i \in Int : a = 0 + Field * i
    BY <1>3 DEF Zero, Cong
  <2>2. PICK j \in Int : b = 0 + Field * j
    BY <1>3 DEF Zero, Cong
  <2>3. a + b = 0 + Field * (i + j) /\ a - b = 0 + Field * (i - j) /\ i + j \in Int /\ i - j \in Int
    BY <2>1, <2>2, FieldSize
  <2>4. QED
    BY <2>3 DEF Zero, Cong
<1>4. ASSUME NEW a \in Int, NEW c \in Int, Zero(a) PROVE Zero(c * a)
  <2>1. PICK i \in Int : a = 0 + Field * i
    BY <1>4 DEF Zero, Cong
  <2>2. c * a = 0 + Field * (c * i) /\ c * i \in Int
    BY <2>1, FieldSize
  <2>3. QED
    BY <2>2 DEF Zero, Cong
<1>5. QED
  BY <1>1, <1>2, <1>3, <1>4

\* A multiple of zero is zero.
LEMMA ZeroMultiple ==
  ASSUME NEW a \in Int, NEW c \in Int, Zero(a)
  PROVE  Zero(c * a)
BY ZeroFacts

\* A combination of six numbers, behind a name for the provers to recognise.
Linear(a, i, b, j, c, k, d, l, e, m, f, o) ==
  a * i + b * j + c * k + d * l + e * m + f * o

\* A combination of zeros is zero.
LEMMA Combination ==
  ASSUME NEW a \in Int, NEW b \in Int, NEW c \in Int, NEW d \in Int, NEW e \in Int, NEW f \in Int,
         NEW i \in Int, NEW j \in Int, NEW k \in Int, NEW l \in Int, NEW m \in Int, NEW o \in Int,
         Zero(i), Zero(j), Zero(k), Zero(l), Zero(m), Zero(o)
  PROVE  Zero(Linear(a, i, b, j, c, k, d, l, e, m, f, o))
<1> DEFINE ai == a * i
           bj == b * j
           ck == c * k
           dl == d * l
           em == e * m
           fo == f * o
<1>1. ai \in Int /\ bj \in Int /\ ck \in Int /\ dl \in Int /\ em \in Int /\ fo \in Int
  OBVIOUS
<1>2. Zero(ai) /\ Zero(bj) /\ Zero(ck)
  BY ZeroMultiple
<1>3. Zero(dl) /\ Zero(em) /\ Zero(fo)
  BY ZeroMultiple
<1> HIDE DEF ai, bj, ck, dl, em, fo
<1>4. Zero(ai + bj) /\ ai + bj \in Int
  BY <1>1, <1>2, <1>3, ZeroFacts
<1>5. Zero(ai + bj + ck) /\ ai + bj + ck \in Int
  BY <1>1, <1>2, <1>3, <1>4, ZeroFacts
<1>6. Zero(ai + bj + ck + dl) /\ ai + bj + ck + dl \in Int
  BY <1>1, <1>2, <1>3, <1>5, ZeroFacts
<1>7. Zero(ai + bj + ck + dl + em) /\ ai + bj + ck + dl + em \in Int
  BY <1>1, <1>2, <1>3, <1>6, ZeroFacts
<1>8. Zero(ai + bj + ck + dl + em + fo)
  BY <1>1, <1>2, <1>3, <1>7, ZeroFacts
<1>9. QED
  BY <1>8 DEF Linear, ai, bj, ck, dl, em, fo

\* A zero product with a factor that is not zero.
LEMMA ZeroCancel ==
  ASSUME NEW a \in Int, NEW c \in Int, Zero(a * c), ~Zero(c)
  PROVE  Zero(a)
BY ZeroProduct DEF Zero

\* a, b and g are the slopes of the lines through 1 and 2, the sum 4 of these and 3, 2 and 3.
LEMMA SlopeChain ==
  ASSUME NEW x1 \in Int, NEW x2 \in Int, NEW x3 \in Int, NEW x4 \in Int,
         NEW y1 \in Int, NEW y2 \in Int, NEW y3 \in Int, NEW y4 \in Int,
         NEW a \in Int, NEW b \in Int, NEW g \in Int,
         XOfSum(x4, a, x1, x2), YOfSum(y4, a, x4, x2, y2),
         Slope(b, x4, y4, x3, y3), Slope(g, x2, y2, x3, y3),
         Zero(g * (y2 + y3) - (x2 * x2 + x2 * x3 + x3 * x3)),
         Zero(2 * y2 * a + a * a * (x1 - x2) - (x1 * x1 + x1 * x2 + x2 * x2))
  PROVE  Zero(((a + b) * (a - g) - (x1 - x3)) * (x4 - x3))
<1> DEFINE h1 == x4 - (a * a - x1 - x2)
           h2 == y4 - (a * (x2 - x4) - y2)
           h3 == b * (x4 - x3) - (y4 - y3)
           h4 == g * (x2 - x3) - (y2 - y3)
           h5 == g * (y2 + y3) - (x2 * x2 + x2 * x3 + x3 * x3)
           h6 == 2 * y2 * a + a * a * (x1 - x2) - (x1 * x1 + x1 * x2 + x2 * x2)
           c1 == x3 - x1
           c2 == a - g
           c4 == -a
           c5 == 1
           c6 == -1
           E  == ((a + b) * (a - g) - (x1 - x3)) * (x4 - x3)
<1>1. /\ h1 \in Int /\ h2 \in Int /\ h3 \in Int /\ h4 \in Int /\ h5 \in Int /\ h6 \in Int
      /\ c1 \in Int /\ c2 \in Int /\ c4 \in Int /\ c5 \in Int /\ c6 \in Int
  OBVIOUS
<1>2. E = c1 * h1 + c2 * h2 + c2 * h3 + c4 * h4 + c5 * h5 + c6 * h6
  OBVIOUS
<1>3. Zero(h1) /\ Zero(h2) /\ Zero(h3) /\ Zero(h4) /\ Zero(h5) /\ Zero(h6)
  BY DEF XOfSum, YOfSum, Slope
<1> HIDE DEF h1, h2, h3, h4, h5, h6, c1, c2, c4, c5, c6, E
<1>4. Zero(Linear(c1, h1, c2, h2, c2, h3, c4, h4, c5, h5, c6, h6))
  BY <1>1, <1>3, Combination
<1>5. QED
  BY <1>2, <1>4 DEF E, Linear

\* The same with the tangent at 4 for b.
LEMMA SlopeChainTangent ==
  ASSUME NEW x1 \in Int, NEW x2 \in Int, NEW x4 \in Int,
         NEW y1 \in Int, NEW y2 \in Int, NEW y4 \in Int,
         NEW a \in Int, NEW b \in Int, NEW g \in Int,
         XOfSum(x4, a, x1, x2), YOfSum(y4, a, x4, x2, y2),
         Zero(2 * y4 * b - 3 * x4 * x4), Slope(g, x2, y2, x4, y4),
         Zero(2 * y2 * a + a * a * (x1 - x2) - (x1 * x1 + x1 * x2 + x2 * x2))
  PROVE  Zero(((a + b) * (a - g) - (x1 - x4)) * (2 * y4))
<1> DEFINE h1 == x4 - (a * a - x1 - x2)
           h2 == y4 - (a * (x2 - x4) - y2)
           h3 == 2 * y4 * b - 3 * x4 * x4
           h4 == g * (x2 - x4) - (y2 - y4)
           h6 == 2 * y2 * a + a * a * (x1 - x2) - (x1 * x1 + x1 * x2 + x2 * x2)
           c1 == (a - g) * (2 * x4 - x1 - x2)
           c2 == 2 * a * (a - g) - (x1 - x4)
           c3 == a - g
           c4 == x4 - x1
           c6 == g - a
           z == 0
           E  == ((a + b) * (a - g) - (x1 - x4)) * (2 * y4)
<1>1. /\ h1 \in Int /\ h2 \in Int /\ h3 \in Int /\ h4 \in Int /\ h6 \in Int
      /\ c1 \in Int /\ c2 \in Int /\ c3 \in Int /\ c4 \in Int /\ c6 \in Int /\ z \in Int
  OBVIOUS
<1>2. E = c1 * h1 + c2 * h2 + c3 * h3 + c4 * h4 + c6 * h6 + z * z
  OBVIOUS
<1>3. Zero(h1) /\ Zero(h2) /\ Zero(h3) /\ Zero(h4) /\ Zero(h6) /\ Zero(z)
  BY ZeroFacts DEF XOfSum, YOfSum, Slope
<1> HIDE DEF h1, h2, h3, h4, h6, c1, c2, c3, c4, c6, z, E
<1>4. Zero(Linear(c1, h1, c2, h2, c3, h3, c4, h4, c6, h6, z, z))
  BY <1>1, <1>3, Combination
<1>5. QED
  BY <1>2, <1>4 DEF E, Linear

\* Coordinates are residues, for steps that need no more.
LEMMA PointTypes ==
  ASSUME NEW P \in OnCurve
  PROVE  P.x \in Int /\ P.y \in Int /\ P.x \in 0 .. (Field-1) /\ P.y \in 0 .. (Field-1)
BY PointFacts

\* What the slope of the line through P and Q satisfies, the tangent included.
LEMMA SlopeFacts ==
  ASSUME NEW P \in OnCurve, NEW Q \in OnCurve, ~Opposite(P, Q), NEW l, IsSlope(l, P, Q)
  PROVE  /\ l \in Int
         /\ Slope(l, Q.x, Q.y, P.x, P.y) /\ Slope(l, P.x, P.y, Q.x, Q.y)
         /\ Zero(2 * P.y * l + l * l * (Q.x - P.x) - (P.x * P.x + P.x * Q.x + Q.x * Q.x))
         /\ Zero(l * (P.y + Q.y) - (P.x * P.x + P.x * Q.x + Q.x * Q.x))
         /\ IsSlope(l, Q, P)
<1>1. P.x \in Int /\ P.y \in Int /\ Q.x \in Int /\ Q.y \in Int /\ l \in Int
  BY PointTypes DEF IsSlope
<1> DEFINE h == l * (Q.x - P.x) - (Q.y - P.y)
           k == l * (P.x - Q.x) - (P.y - Q.y)
           s == 2 * P.y * l + l * l * (Q.x - P.x)
           c == P.x * P.x + P.x * Q.x + Q.x * Q.x
           t == l * (P.y + Q.y) - c
<1>2. h \in Int /\ k \in Int /\ s \in Int /\ c \in Int /\ t \in Int /\ l * (Q.x - P.x) \in Int
      /\ Q.y - P.y \in Int /\ l * (P.x - Q.x) \in Int /\ P.y - Q.y \in Int /\ 0 \in Int
  BY <1>1
<1>3. Zero(h)
  <2>1. CASE P = Q
    <3>1. h = 0
      BY <1>1, <2>1
    <3> HIDE DEF h
    <3>2. QED
      BY <3>1, ZeroFacts
  <2>2. CASE P # Q
    <3>1. Cong(l * (Q.x - P.x), Q.y - P.y)
      BY <2>2 DEF IsSlope
    <3>2. QED
      BY <1>2, <3>1, ZeroFacts
  <2>3. QED
    BY <2>1, <2>2
<1>4. Zero(k)
  <2>1. k = 0 - h
    BY <1>1
  <2> HIDE DEF k, h
  <2>2. QED
    BY <1>2, <1>3, <2>1, ZeroFacts
<1>5. Zero(s - c)
  <2>1. Cong(s, c)
    BY SlopeOfSecant
  <2> HIDE DEF s, c
  <2>2. QED
    BY <1>2, <2>1, ZeroFacts
<1>6. Zero(t)
  <2> DEFINE lh == l * h
  <2>1. t = (s - c) - lh
    BY <1>1
  <2>2. lh \in Int /\ s - c \in Int
    BY <1>1, <1>2
  <2>3. Zero(lh)
    <3> HIDE DEF h
    <3>1. QED
      BY <1>1, <1>2, <1>3, ZeroMultiple
  <2> HIDE DEF t, lh, s, c
  <2>4. QED
    BY <1>5, <2>1, <2>2, <2>3, ZeroFacts
<1>7. IsSlope(l, Q, P)
  <2>1. CASE P = Q
    BY <2>1
  <2>2. CASE P # Q
    <3>1. Cong(l * (P.x - Q.x), P.y - Q.y)
      BY <1>2, <1>4, ZeroFacts
    <3>2. QED
      BY <1>1, <2>2, <3>1 DEF IsSlope
  <2>3. QED
    BY <2>1, <2>2
<1>8. QED
  BY <1>1, <1>3, <1>4, <1>5, <1>6, <1>7 DEF Slope

\* What the sum of two points satisfies.
LEMMA SumFacts ==
  ASSUME NEW P \in OnCurve, NEW Q \in OnCurve, ~Opposite(P, Q), NEW l, IsSlope(l, P, Q)
  PROVE  LET S == AddPoints(P, Q) IN
         /\ S \in OnCurve
         /\ XOfSum(S.x, l, P.x, Q.x)
         /\ YOfSum(S.y, l, S.x, P.x, P.y) /\ YOfSum(S.y, l, S.x, Q.x, Q.y)
<1> DEFINE S == AddPoints(P, Q)
           x3 == (l * l - P.x - Q.x) % Field
           y3 == (l * (P.x - x3) - P.y) % Field
<1>1. P.x \in Int /\ P.y \in Int /\ Q.x \in Int /\ Q.y \in Int /\ l \in Int
  BY PointTypes DEF IsSlope
<1>2. S = Affine(x3, y3)
  BY AddBySlope DEF SumBySlope
<1>3. S \in OnCurve
  BY AddOfPoints
<1>4. S.x = x3 /\ S.y = y3
  BY <1>2 DEF Affine
<1>5. S.x \in Int /\ S.y \in Int
  BY <1>3, PointTypes
<1>6. Zero(S.x - (l * l - P.x - Q.x))
  <2> DEFINE a == l * l - P.x - Q.x
  <2>1. a \in Int
    BY <1>1
  <2> HIDE DEF a
  <2>2. Cong(a % Field, a)
    BY <2>1, ModFacts
  <2>3. S.x = a % Field
    BY <1>4 DEF a
  <2> HIDE DEF S
  <2>4. Zero(S.x - a)
    BY <1>5, <2>1, <2>2, <2>3, ZeroFacts
  <2>5. QED
    BY <2>4 DEF a
<1>7. Zero(S.y - (l * (P.x - S.x) - P.y))
  <2> DEFINE a == l * (P.x - S.x) - P.y
  <2>1. a \in Int
    BY <1>1, <1>5
  <2>2. S.y = a % Field
    BY <1>4
  <2> HIDE DEF a
  <2>3. Cong(a % Field, a)
    BY <2>1, ModFacts
  <2> HIDE DEF S
  <2>4. Zero(S.y - a)
    BY <1>5, <2>1, <2>2, <2>3, ZeroFacts
  <2>5. QED
    BY <2>4 DEF a
<1>8. Zero(S.y - (l * (Q.x - S.x) - Q.y))
  <2> DEFINE a == S.y - (l * (P.x - S.x) - P.y)
             b == S.y - (l * (Q.x - S.x) - Q.y)
             h == l * (Q.x - P.x) - (Q.y - P.y)
  <2>1. a \in Int /\ b \in Int /\ h \in Int
    BY <1>1, <1>5
  <2>2. b = a - h
    BY <1>1, <1>5
  <2>3. Zero(a) /\ Zero(h)
    BY <1>7, SlopeFacts DEF Slope
  <2> HIDE DEF a, b, h
  <2>4. Zero(b)
    BY <2>1, <2>2, <2>3, ZeroFacts
  <2>5. QED
    BY <2>4 DEF b
<1>9. QED
  BY <1>3, <1>6, <1>7, <1>8 DEF XOfSum, YOfSum

\* A point is known by the residues of its coordinates.
LEMMA SamePoint ==
  ASSUME NEW P \in OnCurve, NEW Q \in OnCurve, Zero(P.x - Q.x), Zero(P.y - Q.y)
  PROVE  P = Q
<1>1. /\ P.x \in Int /\ P.y \in Int /\ Q.x \in Int /\ Q.y \in Int
      /\ P.x \in 0 .. (Field-1) /\ P.y \in 0 .. (Field-1)
      /\ Q.x \in 0 .. (Field-1) /\ Q.y \in 0 .. (Field-1)
  BY PointTypes
<1>2. Cong(P.x, Q.x) /\ Cong(P.y, Q.y)
  BY <1>1, ZeroFacts
<1>3. P.x = Q.x /\ P.y = Q.y
  BY <1>1, <1>2, ResidueUnique
<1>4. QED
  BY <1>3, PointFacts

\* No point is its own opposite.
LEMMA TwiceY ==
  ASSUME NEW P \in OnCurve
  PROVE  2 * P.y \in Int /\ ~Zero(2 * P.y)
<1> DEFINE d == 2 * P.y
<1>1. d \in Int
  BY PointTypes
<1>2. ~Cong(d, 0)
  BY PointFacts
<1> HIDE DEF d
<1>3. ~Zero(d)
  BY <1>2 DEF Zero
<1>4. QED
  BY <1>1, <1>3 DEF d

\* The slopes of the lines through P and Q, their sum S and R, and Q and R.
LEMMA SlopeRelation ==
  ASSUME NEW P \in OnCurve, NEW Q \in OnCurve, NEW R \in OnCurve, NEW S \in OnCurve,
         S = AddPoints(P, Q), ~Opposite(P, Q), ~Opposite(S, R), ~Opposite(Q, R),
         NEW a, IsSlope(a, P, Q), NEW b, IsSlope(b, S, R), NEW g, IsSlope(g, Q, R)
  PROVE  Zero((a + b) * (a - g) - (P.x - R.x))
<1>1. /\ P.x \in Int /\ P.y \in Int /\ Q.x \in Int /\ Q.y \in Int
      /\ R.x \in Int /\ R.y \in Int /\ S.x \in Int /\ S.y \in Int
      /\ R.x \in 0 .. (Field-1) /\ S.x \in 0 .. (Field-1)
      /\ a \in Int /\ b \in Int /\ g \in Int
  BY PointTypes DEF IsSlope
<1>2. XOfSum(S.x, a, P.x, Q.x) /\ YOfSum(S.y, a, S.x, Q.x, Q.y)
  BY SumFacts
<1>3. Zero(2 * Q.y * a + a * a * (P.x - Q.x) - (P.x * P.x + P.x * Q.x + Q.x * Q.x))
  <2>1. IsSlope(a, Q, P) /\ ~Opposite(Q, P)
    BY SlopeFacts, OppositeSymmetric
  <2>2. Zero(2 * Q.y * a + a * a * (P.x - Q.x) - (Q.x * Q.x + Q.x * P.x + P.x * P.x))
    BY <2>1, SlopeFacts
  <2>3. Q.x * Q.x + Q.x * P.x + P.x * P.x = P.x * P.x + P.x * Q.x + Q.x * Q.x
    BY <1>1
  <2>4. QED
    BY <2>2, <2>3
<1>4. /\ Slope(g, Q.x, Q.y, R.x, R.y)
      /\ Zero(g * (Q.y + R.y) - (Q.x * Q.x + Q.x * R.x + R.x * R.x))
  BY SlopeFacts
<1> DEFINE e == (a + b) * (a - g) - (P.x - R.x)
<1>5. e \in Int
  BY <1>1
<1>6. CASE S.x # R.x
  <2>1. Slope(b, S.x, S.y, R.x, R.y)
    BY SlopeFacts
  <2>2. Zero(e * (S.x - R.x))
    BY <1>1, <1>2, <1>3, <1>4, <2>1, SlopeChain
  <2> DEFINE d == S.x - R.x
  <2>3. d \in Int /\ ~Zero(d)
    <3>1. ~Cong(S.x, R.x)
      BY <1>1, <1>6, ResidueUnique
    <3>2. ~Zero(S.x - R.x)
      BY <1>1, <3>1, ZeroFacts
    <3>3. QED
      BY <1>1, <3>2
  <2> HIDE DEF d, e
  <2>4. QED
    BY <1>5, <2>2, <2>3, ZeroCancel DEF d, e
<1>7. CASE S.x = R.x
  <2>1. S = R
    BY <1>7, SameX DEF Opposite
  <2>2. Cong(2 * S.y * b, 3 * S.x * S.x)
    BY <2>1 DEF IsSlope
  <2>3. Zero(2 * S.y * b - 3 * S.x * S.x)
    <3>1. 2 * S.y * b \in Int /\ 3 * S.x * S.x \in Int
      BY <1>1
    <3>2. QED
      BY <2>2, <3>1, ZeroFacts
  <2>4. Zero(e * (2 * S.y))
    <3>1. Zero(((a + b) * (a - g) - (P.x - S.x)) * (2 * S.y))
      BY <1>1, <1>2, <1>3, <1>4, <2>1, <2>3, SlopeChainTangent
    <3>2. QED
      BY <2>1, <3>1
  <2> DEFINE d == 2 * S.y
  <2>5. d \in Int /\ ~Zero(d)
    BY TwiceY
  <2> HIDE DEF d, e
  <2>6. QED
    BY <1>5, <2>4, <2>5, ZeroCancel DEF d, e
<1>8. QED
  BY <1>6, <1>7

\* The two sums of three points have the same x, where the slopes a and g of the first
\* lines differ.
LEMMA SameXOfSums ==
  ASSUME NEW x1 \in Int, NEW x2 \in Int, NEW x3 \in Int, NEW x4 \in Int, NEW x6 \in Int,
         NEW u \in Int, NEW v \in Int,
         NEW a \in Int, NEW b \in Int, NEW g \in Int, NEW d \in Int,
         Zero((a + b) * (a - g) - (x1 - x3)), Zero(a + b - g - d),
         XOfSum(x4, a, x1, x2), XOfSum(x6, g, x2, x3), XOfSum(u, b, x4, x3), XOfSum(v, d, x1, x6)
  PROVE  Zero(u - v)
<1> DEFINE r == (a + b) * (a - g) - (x1 - x3)
           t == a + b - g - d
           h1 == u - (b * b - x4 - x3)
           h2 == x4 - (a * a - x1 - x2)
           h3 == v - (d * d - x1 - x6)
           h4 == x6 - (g * g - x2 - x3)
           one == 1
           minus == -1
           two == -2
           c == 2 * (a + b) - 2 * g - t
<1>1. /\ r \in Int /\ t \in Int /\ h1 \in Int /\ h2 \in Int /\ h3 \in Int /\ h4 \in Int
      /\ one \in Int /\ minus \in Int /\ two \in Int /\ c \in Int
  OBVIOUS
<1>2. u - v = one * h1 + minus * h2 + minus * h3 + one * h4 + two * r + c * t
  OBVIOUS
<1>3. Zero(r) /\ Zero(t) /\ Zero(h1) /\ Zero(h2) /\ Zero(h3) /\ Zero(h4)
  BY DEF XOfSum
<1> HIDE DEF r, t, h1, h2, h3, h4, one, minus, two, c
<1>4. Zero(Linear(one, h1, minus, h2, minus, h3, one, h4, two, r, c, t))
  BY <1>1, <1>3, Combination
<1>5. QED
  BY <1>2, <1>4 DEF Linear

\* And the same y.
LEMMA SameYOfSums ==
  ASSUME NEW x1 \in Int, NEW x2 \in Int, NEW x3 \in Int, NEW x4 \in Int,
         NEW y1 \in Int, NEW y2 \in Int, NEW y3 \in Int,
         NEW u \in Int, NEW v \in Int, NEW w \in Int,
         NEW a \in Int, NEW b \in Int, NEW g \in Int, NEW d \in Int,
         Zero((a + b) * (a - g) - (x1 - x3)), Zero(a + b - g - d),
         XOfSum(x4, a, x1, x2), XOfSum(u, b, x4, x3),
         Slope(a, x1, y1, x2, y2), Slope(g, x2, y2, x3, y3),
         YOfSum(v, b, u, x3, y3), YOfSum(w, d, u, x1, y1)
  PROVE  Zero(v - w)
<1> DEFINE r == (a + b) * (a - g) - (x1 - x3)
           t == a + b - g - d
           h1 == u - (b * b - x4 - x3)
           h2 == x4 - (a * a - x1 - x2)
           e1 == v - (b * (x3 - u) - y3)
           e2 == w - (d * (x1 - u) - y1)
           f1 == a * (x1 - x2) - (y1 - y2)
           f2 == g * (x2 - x3) - (y2 - y3)
           one == 1
           minus == -1
           h == h1 - h2
           e == e1 - e2
           cr == b - a
           ch == a - g
           ct == x1 - u
<1>1. /\ r \in Int /\ t \in Int /\ h1 \in Int /\ h2 \in Int /\ e1 \in Int /\ e2 \in Int
      /\ f1 \in Int /\ f2 \in Int /\ h \in Int /\ e \in Int
      /\ one \in Int /\ minus \in Int /\ cr \in Int /\ ch \in Int /\ ct \in Int
  OBVIOUS
<1>2. v - w = one * e + minus * f1 + minus * f2 + cr * r + ch * h + ct * t
  OBVIOUS
<1>3. /\ Zero(r) /\ Zero(t) /\ Zero(h1) /\ Zero(h2) /\ Zero(e1) /\ Zero(e2)
      /\ Zero(f1) /\ Zero(f2)
  BY DEF XOfSum, YOfSum, Slope
<1>4. Zero(h) /\ Zero(e)
  <2> HIDE DEF h1, h2, e1, e2
  <2>1. QED
    BY <1>1, <1>3, ZeroFacts
<1> HIDE DEF r, t, h1, h2, e1, e2, f1, f2, h, e, one, minus, cr, ch, ct
<1>5. Zero(Linear(one, e, minus, f1, minus, f2, cr, r, ch, h, ct, t))
  BY <1>1, <1>3, <1>4, Combination
<1>6. QED
  BY <1>2, <1>5 DEF Linear

\* Associativity, where none of the four sums is at infinity.
LEMMA FourSums ==
  ASSUME NEW P \in OnCurve, NEW Q \in OnCurve, NEW R \in OnCurve,
         NEW S \in OnCurve, NEW U \in OnCurve, S = AddPoints(P, Q), U = AddPoints(Q, R),
         ~Opposite(P, Q), ~Opposite(Q, R), ~Opposite(S, R), ~Opposite(P, U)
  PROVE  AddPoints(S, R) = AddPoints(P, U)
<1>1. PICK a : IsSlope(a, P, Q)
  BY LambdaIsSlope
<1>2. PICK b : IsSlope(b, S, R)
  BY LambdaIsSlope
<1>3. PICK g : IsSlope(g, Q, R)
  BY LambdaIsSlope
<1>4. PICK d : IsSlope(d, P, U)
  BY LambdaIsSlope
<1> DEFINE V == AddPoints(S, R)
           W == AddPoints(P, U)
<1>5. V \in OnCurve /\ W \in OnCurve
  BY AddOfPoints
<1>6. /\ P.x \in Int /\ P.y \in Int /\ Q.x \in Int /\ Q.y \in Int /\ R.x \in Int /\ R.y \in Int
      /\ S.x \in Int /\ U.x \in Int /\ V.x \in Int /\ V.y \in Int /\ W.x \in Int /\ W.y \in Int
      /\ P.x \in 0 .. (Field-1) /\ R.x \in 0 .. (Field-1)
  BY <1>5, PointTypes
<1>7. a \in Int /\ b \in Int /\ g \in Int /\ d \in Int
  BY <1>1, <1>2, <1>3, <1>4 DEF IsSlope
<1>8. Zero((a + b) * (a - g) - (P.x - R.x))
  BY <1>1, <1>2, <1>3, SlopeRelation
<1>9. Zero((g + d) * (g - a) - (R.x - P.x))
  <2>1. IsSlope(g, R, Q) /\ IsSlope(d, U, P) /\ IsSlope(a, Q, P)
    BY <1>1, <1>3, <1>4, SlopeFacts
  <2>2. ~Opposite(R, Q) /\ ~Opposite(U, P) /\ ~Opposite(Q, P)
    BY OppositeSymmetric
  <2>3. U = AddPoints(R, Q)
    BY AdditionCommutative, InfiniteFacts
  <2>4. QED
    BY <2>1, <2>2, <2>3, SlopeRelation
<1> DEFINE r == (a + b) * (a - g) - (P.x - R.x)
           q == (g + d) * (g - a) - (R.x - P.x)
           t == a + b - g - d
           e == a - g
           f == P.x - R.x
<1>10. r \in Int /\ q \in Int /\ t \in Int /\ e \in Int /\ f \in Int
  BY <1>6, <1>7
<1>11. CASE Zero(e)
  <2>1. Zero(f)
    <3> DEFINE se == (a + b) * e
    <3>1. f = se - r /\ se \in Int
      BY <1>6, <1>7
    <3>2. Zero(se)
      <4> DEFINE s == a + b
      <4>1. s \in Int
        BY <1>7
      <4> HIDE DEF s, e
      <4>2. Zero(s * e)
        BY <1>10, <1>11, <4>1, ZeroMultiple
      <4>3. QED
        BY <4>2 DEF s
    <3>3. Zero(r)
      BY <1>8
    <3> HIDE DEF f, se, r
    <3>4. QED
      BY <1>10, <3>1, <3>2, <3>3, ZeroFacts
  <2>2. P.x = R.x
    <3>1. Cong(P.x, R.x)
      BY <1>6, <2>1, ZeroFacts
    <3>2. QED
      BY <1>6, <3>1, ResidueUnique
  <2>3. Zero(P.y - R.y)
    <3> DEFINE j == a * (P.x - Q.x) - (P.y - Q.y)
               k == g * (Q.x - R.x) - (Q.y - R.y)
               m == P.x - Q.x
               me == m * e
    <3>1. Zero(j) /\ Zero(k)
      BY <1>1, <1>3, SlopeFacts DEF Slope
    <3>2. j \in Int /\ k \in Int /\ m \in Int /\ me \in Int /\ P.y - R.y \in Int
      BY <1>6, <1>7
    <3>3. Zero(me)
      <4> HIDE DEF m, e
      <4>1. QED
        BY <1>10, <1>11, <3>2, ZeroMultiple
    <3>4. P.y - R.y = me - j - k
      BY <1>6, <1>7, <2>2
    <3> HIDE DEF j, k, me
    <3>5. Zero(me - j) /\ me - j \in Int
      BY <3>1, <3>2, <3>3, ZeroFacts
    <3>6. Zero((me - j) - k)
      BY <3>1, <3>2, <3>5, ZeroFacts
    <3>7. QED
      BY <3>4, <3>6
  <2>4. P = R
    <3>1. Zero(P.x - R.x)
      BY <2>1
    <3>2. QED
      BY <2>3, <3>1, SamePoint
  <2>5. QED
    BY <2>4, AdditionCommutative, InfiniteFacts
<1>12. CASE ~Zero(e)
  <2>1. Zero(t)
    <3>1. t * e = r + q
      BY <1>6, <1>7
    <3>2. Zero(r) /\ Zero(q)
      BY <1>8, <1>9
    <3> HIDE DEF t, e, r, q
    <3>3. Zero(t * e)
      BY <1>10, <3>1, <3>2, ZeroFacts
    <3>4. QED
      BY <1>10, <1>12, <3>3, ZeroCancel
  <2>2. /\ XOfSum(S.x, a, P.x, Q.x) /\ XOfSum(U.x, g, Q.x, R.x)
        /\ XOfSum(V.x, b, S.x, R.x) /\ XOfSum(W.x, d, P.x, U.x)
        /\ YOfSum(V.y, b, V.x, R.x, R.y) /\ YOfSum(W.y, d, W.x, P.x, P.y)
    BY <1>1, <1>2, <1>3, <1>4, SumFacts
  <2>3. Zero(V.x - W.x)
    <3> HIDE DEF V, W
    <3>1. QED
      BY <1>6, <1>7, <1>8, <2>1, <2>2, SameXOfSums
  <2>4. V.x = W.x
    <3>1. V.x \in 0 .. (Field-1) /\ W.x \in 0 .. (Field-1)
      BY <1>5, PointTypes
    <3>2. Cong(V.x, W.x)
      BY <1>6, <2>3, ZeroFacts
    <3>3. QED
      BY <3>1, <3>2, ResidueUnique
  <2>5. Slope(a, P.x, P.y, Q.x, Q.y) /\ Slope(g, Q.x, Q.y, R.x, R.y)
    BY <1>1, <1>3, SlopeFacts
  <2>6. Zero(V.y - W.y)
    <3>1. YOfSum(W.y, d, V.x, P.x, P.y)
      BY <2>2, <2>4
    <3> HIDE DEF V, W
    <3>2. QED
      BY <1>6, <1>7, <1>8, <2>1, <2>2, <2>5, <3>1, SameYOfSums
  <2>7. QED
    BY <1>5, <2>3, <2>6, SamePoint
<1>13. QED
  BY <1>11, <1>12
-----------------------------------------------------------------------------
(* Cancellation, and associativity.                                        *)

\* The opposite of a point, by residues.
LEMMA NegateResidue ==
  ASSUME NEW P \in OnCurve
  PROVE  LET N == NegatePoint(P) IN
         N \in OnCurve /\ N.x = P.x /\ N.y \in Int /\ P.y \in Int /\ Zero(N.y + P.y)
<1> DEFINE N == NegatePoint(P)
<1>1. N = Affine(P.x, Field - P.y) /\ N \in OnCurve
  BY NegateFacts
<1>2. N.x = P.x /\ N.y = Field - P.y
  BY <1>1 DEF Affine
<1>3. N.y \in Int /\ P.y \in Int
  BY <1>1, PointTypes
<1> HIDE DEF N
<1>4. N.y + P.y = 0 + Field * 1
  BY <1>2, <1>3, FieldSize
<1>5. Zero(N.y + P.y)
  BY <1>4 DEF Zero, Cong
<1>6. QED
  BY <1>1, <1>2, <1>3, <1>5 DEF N

\* The opposite point is the only one that addPoints takes to infinity.
LEMMA OppositeIsNegate ==
  ASSUME NEW P \in OnCurve, NEW Q \in OnCurve
  PROVE  Opposite(P, Q) <=> P.x = Q.x /\ Zero(P.y + Q.y)
<1> DEFINE s == P.y + Q.y
<1>1. s \in Int
  BY PointTypes
<1>2. 0 \in Int /\ 0 % Field = 0
  BY FieldSize
<1> HIDE DEF s
<1>3. Cong(s, 0) <=> s % Field = 0
  BY <1>1, <1>2, CongResidue
<1>4. QED
  BY <1>3 DEF Opposite, Zero, s

\* There is one opposite point.
LEMMA OppositeUnique ==
  ASSUME NEW P \in OnCurve, NEW Q \in OnCurve, Opposite(P, Q)
  PROVE  Q = NegatePoint(P)
<1> DEFINE N == NegatePoint(P)
           s == P.y + Q.y
           t == N.y + P.y
<1>1. N \in OnCurve /\ N.x = P.x /\ N.y \in Int /\ P.y \in Int /\ Q.y \in Int /\ Zero(t)
  BY NegateResidue, PointTypes
<1>2. Q.x = P.x /\ Zero(s)
  BY OppositeIsNegate
<1>3. P.x \in Int /\ P.x - P.x = 0
  BY PointTypes
<1>4. Q.x - N.x = 0
  BY <1>1, <1>2, <1>3
<1> HIDE DEF N
<1>5. Q.y - N.y = s - t /\ s \in Int /\ t \in Int
  BY <1>1
<1> HIDE DEF s, t
<1>6. Zero(Q.y - N.y) /\ Zero(0)
  BY <1>1, <1>2, <1>5, ZeroFacts
<1>7. Zero(Q.x - N.x)
  BY <1>4, <1>6
<1>8. QED
  BY <1>1, <1>6, <1>7, SamePoint DEF N

\* The line through P + Q and the opposite of Q has the opposite slope.
LEMMA CancelSlope ==
  ASSUME NEW P \in OnCurve, NEW Q \in OnCurve, NEW S \in OnCurve, NEW N \in OnCurve,
         S = AddPoints(P, Q), N = NegatePoint(Q), ~Opposite(P, Q), NEW a, IsSlope(a, P, Q)
  PROVE  ~Opposite(S, N) /\ IsSlope(-a, S, N)
<1> DEFINE x1 == P.x
           x2 == Q.x
           y2 == Q.y
           x4 == S.x
           y4 == S.y
           ny == N.y
           h1 == x4 - (a * a - x1 - x2)
           h2 == y4 - (a * (x2 - x4) - y2)
           s  == 2 * y2 * a + a * a * (x1 - x2) - (x1 * x1 + x1 * x2 + x2 * x2)
           t  == ny + y2
           one == 1
           minus == -1
           z == 0
<1>1. /\ x1 \in Int /\ x2 \in Int /\ y2 \in Int /\ x4 \in Int /\ y4 \in Int /\ ny \in Int
      /\ a \in Int /\ -a \in Int
  BY PointTypes DEF IsSlope
<1>2. N.x = x2 /\ Zero(t)
  BY NegateResidue
<1>3. Zero(h1) /\ Zero(h2)
  BY SumFacts DEF XOfSum, YOfSum
<1>4. Zero(s)
  <2>1. IsSlope(a, Q, P) /\ ~Opposite(Q, P)
    BY SlopeFacts, OppositeSymmetric
  <2>2. Zero(2 * Q.y * a + a * a * (P.x - Q.x) - (Q.x * Q.x + Q.x * P.x + P.x * P.x))
    BY <2>1, SlopeFacts
  <2>3. Q.x * Q.x + Q.x * P.x + P.x * P.x = x1 * x1 + x1 * x2 + x2 * x2
    BY <1>1
  <2>4. QED
    BY <2>2, <2>3
<1> HIDE DEF x1, x2, y2, x4, y4, ny
<1>5. /\ h1 \in Int /\ h2 \in Int /\ s \in Int /\ t \in Int
      /\ one \in Int /\ minus \in Int /\ z \in Int
  BY <1>1
<1>6. Zero(z)
  BY ZeroFacts
<1>7. ~Opposite(S, N)
  <2> SUFFICES ASSUME Opposite(S, N) PROVE FALSE
    OBVIOUS
  <2> DEFINE u == y4 + ny
             v == h2 + t
  <2>1. x4 = x2 /\ Zero(u)
    BY <1>2, OppositeIsNegate DEF x4, y4, ny
  <2>2. u \in Int
    BY <1>1
  <2>3. 2 * y2 = v - u
    BY <1>1, <2>1
  <2> HIDE DEF h2, t, u
  <2>4. Zero(v) /\ v \in Int
    BY <1>2, <1>3, <1>5, ZeroFacts
  <2> HIDE DEF v
  <2>5. Zero(v - u)
    BY <2>1, <2>2, <2>4, ZeroFacts
  <2>6. ~Zero(2 * y2)
    BY TwiceY DEF y2
  <2>7. QED
    BY <2>3, <2>5, <2>6
<1>8. CASE S = N
  <2> DEFINE c == x1 - x2
             k == -2 * a
             l == 2 * y4 * (-a)
             r == 3 * x4 * x4
  <2>1. x4 = x2 /\ y4 = ny
    BY <1>2, <1>8 DEF x4, y4, ny
  <2>2. l - r = one * s + c * h1 + k * t + z * z + z * z + z * z
    BY <1>1, <2>1
  <2>3. c \in Int /\ k \in Int /\ l \in Int /\ r \in Int
    BY <1>1
  <2> HIDE DEF c, k, l, r, one, z, s, h1, t
  <2>4. Zero(Linear(one, s, c, h1, k, t, z, z, z, z, z, z))
    BY <1>2, <1>3, <1>4, <1>5, <1>6, <2>3, Combination
  <2>5. Zero(l - r)
    BY <2>2, <2>4 DEF Linear
  <2>6. Cong(l, r)
    BY <2>3, <2>5, ZeroFacts
  <2>7. QED
    BY <1>1, <1>7, <1>8, <2>6 DEF IsSlope, l, r, x4, y4
<1>9. CASE S # N
  <2> DEFINE l == (-a) * (x2 - x4)
             r == ny - y4
  <2>1. l - r = h2 - t
    BY <1>1
  <2>2. l \in Int /\ r \in Int
    BY <1>1
  <2> HIDE DEF l, r, h2, t
  <2>3. Zero(h2 - t)
    BY <1>2, <1>3, <1>5, ZeroFacts
  <2>4. Zero(l - r)
    BY <2>1, <2>3
  <2>5. Cong(l, r)
    BY <2>2, <2>4, ZeroFacts
  <2>6. Cong((-a) * (N.x - S.x), N.y - S.y)
    BY <1>2, <2>5 DEF l, r, x4, y4, ny
  <2>7. QED
    BY <1>1, <1>7, <1>9, <2>6 DEF IsSlope
<1>10. QED
  BY <1>8, <1>9

\* Subtracting the point that was added gives the first one back.
LEMMA CancelPoint ==
  ASSUME NEW P \in OnCurve, NEW Q \in OnCurve, ~Opposite(P, Q)
  PROVE  AddPoints(AddPoints(P, Q), NegatePoint(Q)) = P
<1> DEFINE S == AddPoints(P, Q)
           N == NegatePoint(Q)
           W == AddPoints(S, N)
<1>1. PICK a : IsSlope(a, P, Q)
  BY LambdaIsSlope
<1>2. S \in OnCurve /\ N \in OnCurve
  BY AddOfPoints, NegateFacts
<1>3. ~Opposite(S, N) /\ IsSlope(-a, S, N)
  BY <1>1, <1>2, CancelSlope
<1>4. /\ W \in OnCurve
      /\ XOfSum(W.x, -a, S.x, N.x) /\ YOfSum(W.y, -a, W.x, N.x, N.y)
  <2> HIDE DEF S, N
  <2>1. QED
    BY <1>2, <1>3, SumFacts
<1>5. N.x = Q.x /\ Zero(N.y + Q.y)
  BY NegateResidue
<1>6. XOfSum(S.x, a, P.x, Q.x) /\ Slope(a, P.x, P.y, Q.x, Q.y)
  BY <1>1, SumFacts, SlopeFacts
<1>7. /\ P.x \in Int /\ P.y \in Int /\ Q.x \in Int /\ Q.y \in Int /\ S.x \in Int
      /\ N.y \in Int /\ W.x \in Int /\ W.y \in Int /\ a \in Int
  BY <1>1, <1>2, <1>4, PointTypes DEF IsSlope
<1> HIDE DEF S, N, W
<1> DEFINE k1 == W.x - ((-a) * (-a) - S.x - Q.x)
           h1 == S.x - (a * a - P.x - Q.x)
           k2 == W.y - ((-a) * (Q.x - W.x) - N.y)
           f  == a * (P.x - Q.x) - (P.y - Q.y)
           t  == N.y + Q.y
           d  == W.x - P.x
           one == 1
           minus == -1
           z == 0
<1>8. /\ k1 \in Int /\ h1 \in Int /\ k2 \in Int /\ f \in Int /\ t \in Int /\ d \in Int
      /\ one \in Int /\ minus \in Int /\ z \in Int
  BY <1>7
<1>9. Zero(k1) /\ Zero(h1) /\ Zero(k2) /\ Zero(f) /\ Zero(t) /\ Zero(z)
  BY <1>4, <1>5, <1>6, ZeroFacts DEF XOfSum, YOfSum, Slope
<1>10. d = k1 - h1 /\ W.y - P.y = one * k2 + one * f + minus * t + a * d + z * z + z * z
  BY <1>7
<1> HIDE DEF k1, h1, k2, f, t, d, one, minus, z
<1>11. Zero(d)
  BY <1>8, <1>9, <1>10, ZeroFacts
<1>12. Zero(Linear(one, k2, one, f, minus, t, a, d, z, z, z, z))
  BY <1>7, <1>8, <1>9, <1>11, Combination
<1>13. Zero(W.y - P.y)
  BY <1>10, <1>12 DEF Linear
<1>14. Zero(W.x - P.x)
  BY <1>11 DEF d
<1>15. W = P
  BY <1>4, <1>13, <1>14, SamePoint
<1>16. QED
  BY <1>15 DEF W, S, N

\* The opposite points add up to the opposite of the sum.
LEMMA NegatePoints ==
  ASSUME NEW P \in OnCurve, NEW Q \in OnCurve, ~Opposite(P, Q)
  PROVE  AddPoints(NegatePoint(P), NegatePoint(Q)) = NegatePoint(AddPoints(P, Q))
<1> DEFINE S == AddPoints(P, Q)
           M == NegatePoint(P)
           N == NegatePoint(Q)
           T == NegatePoint(S)
           W == AddPoints(M, N)
           my == M.y + P.y
           ny == N.y + Q.y
           one == 1
           minus == -1
           z == 0
<1>1. PICK a : IsSlope(a, P, Q)
  BY LambdaIsSlope
<1>2. S \in OnCurve /\ M \in OnCurve /\ N \in OnCurve
  BY AddOfPoints, NegateFacts
<1>3. M.x = P.x /\ N.x = Q.x /\ Zero(my) /\ Zero(ny)
  BY NegateResidue
<1>4. T \in OnCurve /\ T.x = S.x /\ Zero(T.y + S.y)
  <2> HIDE DEF S
  <2>1. QED
    BY <1>2, NegateResidue
<1>5. /\ P.x \in Int /\ P.y \in Int /\ Q.x \in Int /\ Q.y \in Int /\ S.x \in Int /\ S.y \in Int
      /\ M.y \in Int /\ N.y \in Int /\ T.y \in Int /\ a \in Int /\ -a \in Int
  BY <1>1, <1>2, <1>4, PointTypes DEF IsSlope
<1> HIDE DEF S, M, N, T
<1>6. my \in Int /\ ny \in Int /\ one \in Int /\ minus \in Int /\ z \in Int
  BY <1>5
<1>7. Zero(z)
  BY ZeroFacts
<1>8. ~Opposite(M, N)
  <2> SUFFICES ASSUME Opposite(M, N) PROVE FALSE
    OBVIOUS
  <2> DEFINE u == M.y + N.y
             v == my + ny
  <2>1. P.x = Q.x /\ Zero(u) /\ u \in Int
    BY <1>2, <1>3, <1>5, OppositeIsNegate
  <2>2. P.y + Q.y = v - u
    BY <1>5
  <2> HIDE DEF my, ny, u
  <2>3. Zero(v) /\ v \in Int
    BY <1>3, <1>6, ZeroFacts
  <2> HIDE DEF v
  <2>4. Zero(v - u)
    BY <2>1, <2>3, ZeroFacts
  <2>5. QED
    BY <2>1, <2>2, <2>4, OppositeIsNegate
<1>9. IsSlope(-a, M, N)
  <2>1. CASE M = N
    <3> DEFINE l == 2 * M.y * (-a)
               r == 3 * M.x * M.x
               s == 2 * P.y * a - 3 * P.x * P.x
               k == -2 * a
    <3>1. P = Q
      <4>1. N.y = M.y
        BY <2>1
      <4>2. P.y - Q.y = my - ny
        BY <1>5, <4>1
      <4>3. P.x = Q.x /\ P.x - Q.x = z
        BY <1>3, <1>5, <2>1
      <4> HIDE DEF my, ny, z
      <4>4. Zero(P.y - Q.y) /\ Zero(P.x - Q.x)
        BY <1>3, <1>6, <1>7, <4>2, <4>3, ZeroFacts
      <4>5. QED
        BY <4>4, SamePoint
    <3>2. Cong(2 * P.y * a, 3 * P.x * P.x)
      BY <1>1, <3>1 DEF IsSlope
    <3>3. 2 * P.y * a \in Int /\ 3 * P.x * P.x \in Int
      BY <1>5
    <3>4. s \in Int
      BY <3>3
    <3>5. Zero(s)
      BY <3>2, <3>3, ZeroFacts
    <3>6. l - r = one * s + k * my + z * z + z * z + z * z + z * z
      BY <1>3, <1>5
    <3>7. l \in Int /\ r \in Int /\ k \in Int
      BY <1>3, <1>5
    <3> HIDE DEF l, r, s, k, my, one, z
    <3>8. Zero(Linear(one, s, k, my, z, z, z, z, z, z, z, z))
      BY <1>3, <1>6, <1>7, <3>4, <3>5, <3>7, Combination
    <3>9. Zero(l - r)
      BY <3>6, <3>8 DEF Linear
    <3>10. Cong(l, r)
      BY <3>7, <3>9, ZeroFacts
    <3>11. QED
      BY <1>5, <2>1, <3>10 DEF IsSlope, l, r
  <2>2. CASE M # N
    <3> DEFINE l == (-a) * (N.x - M.x)
               r == N.y - M.y
               f == a * (P.x - Q.x) - (P.y - Q.y)
               u == f + my
    <3>1. Zero(f)
      BY <1>1, SlopeFacts DEF Slope
    <3>2. l \in Int /\ r \in Int /\ f \in Int
      BY <1>3, <1>5
    <3>3. l - r = u - ny
      BY <1>3, <1>5
    <3> HIDE DEF l, r, f, my, ny
    <3>4. Zero(f + my) /\ u \in Int
      BY <1>3, <1>6, <3>1, <3>2, ZeroFacts
    <3>5. Zero(u - ny)
      BY <1>3, <1>6, <3>4, ZeroFacts DEF u
    <3>6. Zero(l - r)
      BY <3>3, <3>5
    <3>7. Cong(l, r)
      BY <3>2, <3>6, ZeroFacts
    <3>8. QED
      BY <1>5, <2>2, <3>7 DEF IsSlope, l, r
  <2>3. QED
    BY <2>1, <2>2
<1>10. /\ W \in OnCurve
      /\ XOfSum(W.x, -a, M.x, N.x) /\ YOfSum(W.y, -a, W.x, M.x, M.y)
  BY <1>2, <1>8, <1>9, SumFacts
<1>11. XOfSum(S.x, a, P.x, Q.x) /\ YOfSum(S.y, a, S.x, P.x, P.y)
  BY <1>1, SumFacts DEF S
<1>12. W.x \in Int /\ W.y \in Int
  BY <1>10, PointTypes
<1> HIDE DEF W
<1> DEFINE k1 == W.x - ((-a) * (-a) - P.x - Q.x)
           h1 == S.x - (a * a - P.x - Q.x)
           k2 == W.y - ((-a) * (P.x - W.x) - M.y)
           h2 == S.y - (a * (P.x - S.x) - P.y)
           t  == T.y + S.y
           d  == W.x - S.x
<1>13. k1 \in Int /\ h1 \in Int /\ k2 \in Int /\ h2 \in Int /\ t \in Int /\ d \in Int
  BY <1>5, <1>12
<1>14. Zero(k1) /\ Zero(h1) /\ Zero(k2) /\ Zero(h2) /\ Zero(t)
  BY <1>3, <1>4, <1>10, <1>11 DEF XOfSum, YOfSum
<1>15. d = k1 - h1
  BY <1>5, <1>12
<1>16. W.y - T.y = one * k2 + one * h2 + a * d + minus * my + minus * t + z * z
  BY <1>5, <1>12
<1> HIDE DEF k1, h1, k2, h2, t, d, my, one, minus, z
<1>17. Zero(d)
  BY <1>13, <1>14, <1>15, ZeroFacts
<1>18. Zero(Linear(one, k2, one, h2, a, d, minus, my, minus, t, z, z))
  BY <1>3, <1>5, <1>6, <1>7, <1>13, <1>14, <1>17, Combination
<1>19. Zero(W.y - T.y)
  BY <1>16, <1>18 DEF Linear
<1>20. Zero(W.x - T.x)
  BY <1>4, <1>17 DEF d
<1>21. W = T
  BY <1>4, <1>10, <1>19, <1>20, SamePoint
<1>22. QED
  BY <1>21 DEF W, T, M, N, S

\* The opposite of the opposite.
LEMMA NegateTwice ==
  ASSUME NEW P \in Element
  PROVE  NegatePoint(NegatePoint(P)) = P
<1>1. CASE P = Infinite
  BY <1>1, InfiniteFacts
<1>2. CASE P \in OnCurve
  <2>1. NegatePoint(P) \in OnCurve /\ Opposite(NegatePoint(P), P)
    BY <1>2, NegateFacts, OppositeSymmetric
  <2>2. QED
    BY <1>2, <2>1, OppositeUnique
<1>3. QED
  BY <1>1, <1>2, InfiniteFacts

\* Subtraction undoes addition, infinity included.
LEMMA Cancel ==
  ASSUME NEW P \in Element, NEW Q \in Element
  PROVE  AddPoints(AddPoints(P, Q), NegatePoint(Q)) = P
<1>1. CASE P = Infinite
  BY <1>1, AddInfinite, NegateElement
<1>2. CASE Q = Infinite
  BY <1>2, AddInfinite, InfiniteFacts
<1>3. CASE P \in OnCurve /\ Q \in OnCurve /\ Opposite(P, Q)
  <2>1. P = NegatePoint(Q)
    BY <1>3, OppositeSymmetric, OppositeUnique
  <2>2. AddPoints(P, Q) = Infinite
    BY <1>3, AddOfPoints
  <2>3. AddPoints(Infinite, P) = P
    BY AddInfinite
  <2>4. QED
    BY <2>1, <2>2, <2>3
<1>4. CASE P \in OnCurve /\ Q \in OnCurve /\ ~Opposite(P, Q)
  BY <1>4, CancelPoint
<1>5. QED
  BY <1>1, <1>2, <1>3, <1>4, InfiniteFacts

\* The opposite of a sum, infinity included.
LEMMA NegateSum ==
  ASSUME NEW P \in Element, NEW Q \in Element
  PROVE  AddPoints(NegatePoint(P), NegatePoint(Q)) = NegatePoint(AddPoints(P, Q))
<1>1. CASE P = Infinite
  BY <1>1, AddInfinite, NegateElement, InfiniteFacts
<1>2. CASE Q = Infinite
  BY <1>2, AddInfinite, NegateElement, InfiniteFacts
<1>3. CASE P \in OnCurve /\ Q \in OnCurve /\ Opposite(P, Q)
  <2>1. Q = NegatePoint(P) /\ NegatePoint(Q) = P
    BY <1>3, OppositeUnique, NegateTwice, InfiniteFacts
  <2>2. AddPoints(P, Q) = Infinite /\ AddPoints(Q, P) = Infinite
    BY <1>3, AddOfPoints, OppositeSymmetric
  <2>3. QED
    BY <2>1, <2>2, InfiniteFacts
<1>4. CASE P \in OnCurve /\ Q \in OnCurve /\ ~Opposite(P, Q)
  BY <1>4, NegatePoints
<1>5. QED
  BY <1>1, <1>2, <1>3, <1>4, InfiniteFacts

\* addPoints is associative, on every curve: in the general case by the slopes of the
\* four lines, and where a sum is at infinity by cancellation.
THEOREM AdditionAssociative ==
  ASSUME NEW P \in Element, NEW Q \in Element, NEW R \in Element
  PROVE  AddPoints(AddPoints(P, Q), R) = AddPoints(P, AddPoints(Q, R))
<1> DEFINE S == AddPoints(P, Q)
           U == AddPoints(Q, R)
<1>1. S \in Element /\ U \in Element
  BY AdditionClosed
<1>2. \A A \in Element : NegatePoint(A) \in Element /\ AddPoints(A, NegatePoint(A)) = Infinite
  BY NegateElement
<1>3. \A A, B \in Element : AddPoints(A, B) = AddPoints(B, A)
  BY AdditionCommutative
<1>4. \A A, B \in Element : AddPoints(AddPoints(A, B), NegatePoint(B)) = A
  BY Cancel
<1> HIDE DEF S, U
<1>5. CASE P = Infinite \/ Q = Infinite \/ R = Infinite
  BY <1>1, <1>5, AddInfinite DEF S, U
<1>6. ASSUME P \in OnCurve, Q \in OnCurve, R \in OnCurve PROVE AddPoints(S, R) = AddPoints(P, U)
  <2>1. CASE Opposite(P, Q)
    <3>1. Q = NegatePoint(P) /\ P = NegatePoint(Q) /\ S = Infinite
      BY <1>6, <2>1, OppositeUnique, OppositeSymmetric, AddOfPoints DEF S
    <3>2. AddPoints(S, R) = R
      BY <3>1, AddInfinite
    <3>3. AddPoints(P, U) = AddPoints(AddPoints(R, Q), NegatePoint(Q))
      BY <1>1, <1>3, <3>1 DEF U
    <3>4. QED
      BY <1>4, <3>2, <3>3
  <2>2. CASE Opposite(Q, R)
    <3>1. R = NegatePoint(Q) /\ U = Infinite
      BY <1>6, <2>2, OppositeUnique, AddOfPoints DEF U
    <3>2. AddPoints(P, U) = P
      BY <3>1, AddInfinite
    <3>3. QED
      BY <1>4, <3>1, <3>2 DEF S
  <2>3. CASE S \in OnCurve /\ Opposite(S, R)
    <3>1. AddPoints(S, R) = Infinite /\ R = NegatePoint(S)
      BY <1>6, <2>3, OppositeUnique, AddOfPoints
    <3> DEFINE M == NegatePoint(P)
               N == NegatePoint(Q)
    <3>2. R = AddPoints(M, N) /\ M \in Element /\ N \in Element /\ NegatePoint(N) = Q
      BY <1>2, <3>1, NegateSum, NegateTwice DEF S
    <3>3. AddPoints(P, M) = Infinite
      BY <1>2
    <3> HIDE DEF M, N
    <3>4. U = AddPoints(AddPoints(M, N), NegatePoint(N))
      BY <1>3, <3>2 DEF U
    <3>5. U = M
      BY <1>4, <3>2, <3>4
    <3>6. QED
      BY <3>1, <3>3, <3>5
  <2>4. CASE U \in OnCurve /\ Opposite(P, U)
    <3>1. AddPoints(P, U) = Infinite /\ P = NegatePoint(U)
      BY <1>6, <2>4, OppositeUnique, OppositeSymmetric, AddOfPoints
    <3> DEFINE M == NegatePoint(R)
               N == NegatePoint(Q)
    <3>2. M \in Element /\ N \in Element /\ NegatePoint(N) = Q
      BY <1>2, NegateTwice
    <3>3. P = AddPoints(M, N)
      BY <1>2, <1>3, <3>1, NegateSum DEF U
    <3>4. AddPoints(M, R) = Infinite
      BY <1>2, <1>3
    <3> HIDE DEF M, N
    <3>5. S = AddPoints(AddPoints(M, N), NegatePoint(N))
      BY <3>2, <3>3 DEF S
    <3>6. S = M
      BY <1>4, <3>2, <3>5
    <3>7. QED
      BY <3>1, <3>4, <3>6
  <2>5. CASE /\ ~Opposite(P, Q) /\ ~Opposite(Q, R)
             /\ ~(S \in OnCurve /\ Opposite(S, R)) /\ ~(U \in OnCurve /\ Opposite(P, U))
    <3>1. S \in OnCurve /\ U \in OnCurve
      BY <1>6, <2>5, AddOfPoints DEF S, U
    <3>2. QED
      BY <1>6, <2>5, <3>1, FourSums DEF S, U
  <2>6. QED
    BY <2>1, <2>2, <2>3, <2>4, <2>5
<1>7. QED
  BY <1>5, <1>6, InfiniteFacts DEF S, U
-----------------------------------------------------------------------------
(* The order of the group.                                                 *)

\* What was added can be taken away.
LEMMA AddedOnce ==
  ASSUME NEW P \in Element, NEW Q \in Element, NEW R \in Element,
         AddPoints(P, R) = AddPoints(Q, R)
  PROVE  P = Q
<1>1. /\ AddPoints(AddPoints(P, R), NegatePoint(R)) = P
      /\ AddPoints(AddPoints(Q, R), NegatePoint(R)) = Q
  BY Cancel
<1>2. QED
  BY <1>1

\* The group, without its associative law.
LEMMA ElementFacts ==
  /\ Infinite \in Element
  /\ \A P \in Element : AddPoints(P, Infinite) = P /\ AddPoints(Infinite, P) = P
  /\ \A P, Q \in Element : AddPoints(P, Q) \in Element /\ AddPoints(P, Q) = AddPoints(Q, P)
BY InfiniteFacts, AddInfinite, AdditionClosed, AdditionCommutative

\* There are Order elements.
LEMMA ElementsFinite == IsFiniteSet(Element) /\ Cardinality(Element) = Order
<1> DEFINE R == 0 .. (Field-1)
           f == [P \in OnCurve |-> <<P.x, P.y>>]
<1>1. IsFiniteSet(R)
  BY FieldSize, FS_Interval
<1>2. IsFiniteSet(R \X R)
  <2> HIDE DEF R
  <2>1. QED
    BY <1>1, FS_Product
<1>3. f \in Injection(OnCurve, R \X R)
  <2>1. \A P \in OnCurve : <<P.x, P.y>> \in R \X R
    BY PointFacts, FieldSize
  <2> HIDE DEF R
  <2>2. f \in [OnCurve -> R \X R]
    BY <2>1
  <2>3. ASSUME NEW P \in OnCurve, NEW Q \in OnCurve, f[P] = f[Q] PROVE P = Q
    <3>1. P.x = Q.x /\ P.y = Q.y
      BY <2>3
    <3>2. P = Affine(P.x, P.y) /\ Q = Affine(Q.x, Q.y)
      BY PointFacts
    <3>3. QED
      BY <3>1, <3>2
  <2>4. DOMAIN f = OnCurve
    OBVIOUS
  <2> HIDE DEF f
  <2>5. QED
    BY <2>2, <2>3, <2>4 DEF Injection, IsInjective
<1>4. IsFiniteSet(OnCurve)
  <2> HIDE DEF f, R
  <2>1. QED
    BY <1>2, <1>3, FS_Injection
<1>5. QED
  BY <1>4, InfiniteFacts, FS_AddElement, OrderAssumption

\* The walk of P: its multiples, one addition after the other.
IsWalk(w, P) ==
  /\ w \in [Nat -> Element] /\ w[0] = Infinite
  /\ \A i \in Nat : w[i+1] = AddPoints(w[i], P)

\* Every point has a walk.
LEMMA WalkExists ==
  ASSUME NEW P \in Element
  PROVE  \E w : IsWalk(w, P)
<1> DEFINE D == [i \in Nat |-> IF i = 0 THEN 0 ELSE i - 1]
           C == [p \in Nat \X Element |-> AddPoints(p[2], P)]
           v == [i \in Nat |-> Infinite]
           measure == [i \in Nat |-> i]
<1>1. \A p \in Nat \X Element : AddPoints(p[2], P) \in Element
  BY ElementFacts
<1>2. C \in [Nat \X Element -> Element] /\ v \in [Nat -> Element]
  BY <1>1, ElementFacts
<1>3. /\ D \in [Nat -> Nat]
      /\ measure \in [Nat -> Nat] /\ \A i \in Nat \ {0} : measure[D[i]] < measure[i]
  OBVIOUS
<1>4. PICK w \in [Nat -> Element] : \A i \in Nat : IsBody(w, i, {0}, D, C, v)
  <2> HIDE DEF D, C, v, measure
  <2>1. QED
    BY <1>2, <1>3, RecursionExists
<1>5. \A i \in Nat : w[i] = IF i \in {0} THEN v[i] ELSE C[<<i, w[D[i]]>>]
  BY <1>4 DEF IsBody
<1>6. w[0] = Infinite
  BY <1>5
<1>7. ASSUME NEW i \in Nat PROVE w[i+1] = AddPoints(w[i], P)
  <2>1. i + 1 \in Nat /\ i + 1 # 0 /\ D[i+1] = i /\ w[i] \in Element
    OBVIOUS
  <2> HIDE DEF D
  <2>2. w[i+1] = C[<<i+1, w[i]>>] /\ <<i+1, w[i]>> \in Nat \X Element
    BY <1>5, <2>1
  <2>3. C[<<i+1, w[i]>>] = AddPoints(w[i], P)
    BY <2>2
  <2>4. QED
    BY <2>2, <2>3
<1>8. QED
  BY <1>6, <1>7 DEF IsWalk

\* Walks are sums.
LEMMA WalkSum ==
  ASSUME NEW P \in Element, NEW w, IsWalk(w, P), NEW i \in Nat, NEW j \in Nat
  PROVE  AddPoints(w[i], w[j]) = w[i + j]
<1> DEFINE T == {k \in Nat : AddPoints(w[i], w[k]) = w[i + k]}
<1>1. 0 \in T
  BY ElementFacts DEF IsWalk
<1>2. ASSUME NEW k \in T PROVE k + 1 \in T
  <2>1. /\ k \in Nat /\ i + k \in Nat /\ (i + k) + 1 = i + (k + 1)
        /\ w[i] \in Element /\ w[k] \in Element
    BY DEF IsWalk
  <2>2. w[k+1] = AddPoints(w[k], P) /\ w[(i + k) + 1] = AddPoints(w[i + k], P)
    BY <2>1 DEF IsWalk
  <2>3. AddPoints(w[i], w[k+1]) = AddPoints(AddPoints(w[i], w[k]), P)
    BY <2>1, <2>2, AdditionAssociative
  <2>4. QED
    BY <2>1, <2>2, <2>3
<1>3. T = Nat
  <2> HIDE DEF T
  <2>1. QED
    BY <1>1, <1>2, SetInduction DEF T
<1>4. QED
  BY <1>3

\* Two equal points of a walk: it was at infinity between them.
LEMMA WalkReturns ==
  ASSUME NEW P \in Element, NEW w, IsWalk(w, P), NEW i \in Nat, NEW d \in Nat, w[i + d] = w[i]
  PROVE  w[d] = Infinite
<1>1. w[d] \in Element /\ w[i] \in Element
  BY DEF IsWalk
<1>2. AddPoints(w[d], w[i]) = AddPoints(Infinite, w[i])
  <2>1. AddPoints(w[d], w[i]) = w[d + i] /\ d + i = i + d
    BY WalkSum
  <2>2. QED
    BY <1>1, <2>1, ElementFacts
<1>3. QED
  BY <1>1, <1>2, ElementFacts, AddedOnce

\* A walk is at infinity again after at most Order steps, and after m for the first time.
LEMMA WalkPeriod ==
  ASSUME NEW P \in Element, NEW w, IsWalk(w, P)
  PROVE  \E m \in Nat : m > 0 /\ w[m] = Infinite /\ \A k \in Nat : 0 < k /\ k < m => w[k] # Infinite
<1> DEFINE Z == {k \in Nat : k > 0 /\ w[k] = Infinite}
           R == OpToRel(<, Nat)
<1>1. Z # {}
  <2> DEFINE S == 0 .. Order
             f == [i \in S |-> w[i]]
  <2>1. Order \in Nat
    BY CurveAssumption
  <2>2. IsFiniteSet(S) /\ Cardinality(S) = Order + 1
    BY <2>1, FS_Interval
  <2>3. f \in [S -> Element]
    BY <2>1 DEF IsWalk
  <2>4. PICK i \in S, j \in S : i # j /\ f[i] = f[j]
    <3>1. Cardinality(Element) < Cardinality(S)
      BY <2>1, <2>2, ElementsFinite
    <3> HIDE DEF S, f
    <3>2. QED
      BY <2>2, <2>3, <3>1, ElementsFinite, FS_PigeonHole
  <2>5. i \in Nat /\ j \in Nat /\ w[i] = w[j]
    BY <2>1, <2>4
  <2>6. CASE i < j
    <3>1. j - i \in Nat /\ j - i > 0 /\ i + (j - i) = j
      BY <2>5, <2>6
    <3>2. w[j - i] = Infinite
      BY <2>5, <3>1, WalkReturns
    <3>3. QED
      BY <3>1, <3>2
  <2>7. CASE j < i
    <3>1. i - j \in Nat /\ i - j > 0 /\ j + (i - j) = i
      BY <2>5, <2>7
    <3>2. w[i - j] = Infinite
      BY <2>5, <3>1, WalkReturns
    <3>3. QED
      BY <3>1, <3>2
  <2>8. QED
    BY <2>4, <2>5, <2>6, <2>7
<1>2. PICK m \in Z : \A k \in Z : ~ (<<k, m>> \in R)
  <2>1. Z \subseteq Nat /\ IsWellFoundedOn(R, Nat)
    BY NatLessThanWellFounded
  <2> HIDE DEF R, Z
  <2>2. QED
    BY <1>1, <2>1, WFMin
<1>3. ASSUME NEW k \in Nat, 0 < k, k < m PROVE w[k] # Infinite
  <2>1. <<k, m>> \in R
    BY <1>3 DEF OpToRel
  <2> HIDE DEF R
  <2>2. QED
    BY <1>2, <1>3, <2>1
<1>4. QED
  BY <1>3

\* The points that a walk reaches from x.
Orbit(x, w, m) == {AddPoints(x, w[i]) : i \in 0 .. (m-1)}

\* They are m.
LEMMA OrbitSize ==
  ASSUME NEW P \in Element, NEW w, IsWalk(w, P), NEW m \in Nat, m > 0, w[m] = Infinite,
         \A k \in Nat : 0 < k /\ k < m => w[k] # Infinite, NEW x \in Element
  PROVE  IsFiniteSet(Orbit(x, w, m)) /\ Cardinality(Orbit(x, w, m)) = m
<1> DEFINE S == 0 .. (m-1)
           O == {AddPoints(x, w[i]) : i \in S}
           f == [i \in S |-> AddPoints(x, w[i])]
<1>1. IsFiniteSet(S) /\ Cardinality(S) = m
  BY FS_Interval
<1>2. f \in Surjection(S, O)
  BY DEF Surjection
<1>3. ASSUME NEW i \in S, NEW j \in S, i < j, f[i] = f[j] PROVE FALSE
  <2>1. i \in Nat /\ j \in Nat /\ j - i \in Nat /\ 0 < j - i /\ j - i < m /\ i + (j - i) = j
    BY <1>3
  <2>2. w[i] \in Element /\ w[j] \in Element
    BY <2>1 DEF IsWalk
  <2>3. AddPoints(w[i], x) = AddPoints(w[j], x)
    BY <1>3, <2>2, ElementFacts
  <2>4. w[i] = w[j]
    BY <2>2, <2>3, AddedOnce
  <2>5. w[j - i] = Infinite
    BY <2>1, <2>4, WalkReturns
  <2>6. QED
    BY <2>1, <2>5
<1>4. f \in Injection(S, O)
  <2>1. ASSUME NEW i \in S, NEW j \in S, f[i] = f[j] PROVE i = j
    <3>1. ~(i < j) /\ ~(j < i)
      <4> HIDE DEF f
      <4>1. QED
        BY <1>3, <2>1
    <3>2. QED
      BY <3>1
  <2>2. DOMAIN f = S /\ f \in [S -> O]
    OBVIOUS
  <2> HIDE DEF f, S, O
  <2>3. QED
    BY <2>1, <2>2 DEF Injection, IsInjective
<1> HIDE DEF f, S, O
<1>5. IsFiniteSet(O) /\ Cardinality(O) = m
  BY <1>1, <1>2, <1>4, FS_Surjection
<1>6. QED
  BY <1>5 DEF Orbit, O, S

\* A set of points that addition of P does not leave is made of orbits.
Closed(U, P)  == \A y \in U : AddPoints(y, P) \in U
Divides(m, U) == \E q \in Nat : Cardinality(U) = m * q

\* Such a set holds the orbit of each of its points, and is closed without it.
LEMMA OrbitStep ==
  ASSUME NEW P \in Element, NEW w, IsWalk(w, P), NEW m \in Nat, m > 0, w[m] = Infinite,
         NEW U \in SUBSET Element, Closed(U, P), NEW x \in U
  PROVE  Orbit(x, w, m) \subseteq U /\ Closed(U \ Orbit(x, w, m), P)
<1> DEFINE O == Orbit(x, w, m)
           J == {i \in Nat : AddPoints(x, w[i]) \in U}
<1>1. ASSUME NEW i \in Nat PROVE AddPoints(x, w[i+1]) = AddPoints(AddPoints(x, w[i]), P)
  <2>1. w[i] \in Element /\ w[i+1] = AddPoints(w[i], P) /\ x \in Element
    BY DEF IsWalk
  <2> DEFINE v == w[i]
  <2>2. AddPoints(AddPoints(x, v), P) = AddPoints(x, AddPoints(v, P))
    <3> HIDE DEF v
    <3>1. v \in Element /\ x \in Element
      BY <2>1 DEF v
    <3>2. QED
      BY <3>1, AdditionAssociative
  <2>3. QED
    BY <2>1, <2>2
<1>2. J = Nat
  <2>1. 0 \in J
    BY ElementFacts DEF IsWalk
  <2>2. ASSUME NEW i \in J PROVE i + 1 \in J
    BY <1>1 DEF Closed
  <2> HIDE DEF J
  <2>3. QED
    BY <2>1, <2>2, SetInduction DEF J
<1>3. O \subseteq U
  BY <1>2 DEF Orbit
<1>4. ASSUME NEW y \in U \ O, AddPoints(y, P) \in O PROVE FALSE
  <2>1. PICK i \in 0 .. (m-1) : AddPoints(y, P) = AddPoints(x, w[i])
    BY <1>4 DEF Orbit
  <2> DEFINE j == IF i = 0 THEN m - 1 ELSE i - 1
  <2>2. j \in Nat /\ j \in 0 .. (m-1) /\ (i = 0 => j + 1 = m) /\ (i # 0 => j + 1 = i)
    OBVIOUS
  <2> HIDE DEF j
  <2>3. AddPoints(x, w[i]) = AddPoints(x, w[j+1])
    BY <2>2 DEF IsWalk
  <2>4. AddPoints(y, P) = AddPoints(AddPoints(x, w[j]), P)
    BY <1>1, <2>1, <2>2, <2>3
  <2>5. y \in Element /\ AddPoints(x, w[j]) \in Element
    BY <1>2, <2>2
  <2>6. y = AddPoints(x, w[j])
    BY <2>4, <2>5, AddedOnce
  <2>7. y \in O
    BY <2>2, <2>6 DEF Orbit
  <2>8. QED
    BY <1>4, <2>7
<1>5. QED
  BY <1>3, <1>4 DEF Closed

\* All orbits are of the same size, which therefore divides the order of the group.
LEMMA OrbitsDivide ==
  ASSUME NEW P \in Element, NEW w, IsWalk(w, P), NEW m \in Nat, m > 0, w[m] = Infinite,
         \A k \in Nat : 0 < k /\ k < m => w[k] # Infinite
  PROVE  Divides(m, Element)
<1> DEFINE T == {c \in Nat : \A U \in SUBSET Element :
                               Closed(U, P) /\ Cardinality(U) <= c => Divides(m, U)}
<1>1. ASSUME NEW U \in SUBSET Element
      PROVE  IsFiniteSet(U) /\ Cardinality(U) \in Nat /\ (Cardinality(U) = 0 <=> U = {})
  BY ElementsFinite, FS_Subset, FS_CardinalityType, FS_EmptySet
<1>2. ASSUME NEW U \in SUBSET Element, Cardinality(U) = 0 PROVE Divides(m, U)
  <2>1. m * 0 = 0
    OBVIOUS
  <2>2. QED
    BY <1>2, <2>1 DEF Divides
<1>3. ASSUME NEW c \in Nat, NEW U \in SUBSET Element, U # {},
             Closed(U, P), Cardinality(U) <= c + 1,
             \A V \in SUBSET Element : Closed(V, P) /\ Cardinality(V) <= c => Divides(m, V)
      PROVE  Divides(m, U)
  <2>1. PICK x \in U : x \in Element
    BY <1>3
  <2> DEFINE O == Orbit(x, w, m)
  <2>2. IsFiniteSet(O) /\ Cardinality(O) = m
    BY <2>1, OrbitSize
  <2>3. O \subseteq U /\ Closed(U \ O, P)
    BY <1>3, <2>1, OrbitStep
  <2> HIDE DEF O
  <2>4. Cardinality(U \ O) = Cardinality(U) - m
    <3>1. U \cap O = O
      BY <2>3
    <3>2. IsFiniteSet(U)
      BY <1>1
    <3>3. Cardinality(U \ O) = Cardinality(U) - Cardinality(U \cap O)
      BY <3>2, FS_Difference
    <3>4. QED
      BY <2>2, <3>1, <3>3
  <2>5. U \ O \in SUBSET Element /\ Cardinality(U) \in Nat
    BY <1>1
  <2>6. Cardinality(U \ O) <= c
    BY <1>3, <2>4, <2>5
  <2>7. PICK q \in Nat : Cardinality(U \ O) = m * q
    BY <1>3, <2>3, <2>5, <2>6 DEF Divides
  <2>8. Cardinality(U) = m * (q + 1)
    BY <2>4, <2>5, <2>7
  <2>9. QED
    BY <2>8 DEF Divides
<1>4. 0 \in T
  <2>1. ASSUME NEW U \in SUBSET Element, Cardinality(U) <= 0 PROVE Divides(m, U)
    <3>1. Cardinality(U) = 0
      BY <1>1, <2>1
    <3>2. QED
      BY <1>2, <3>1
  <2>2. QED
    BY <2>1
<1>5. ASSUME NEW c \in T PROVE c + 1 \in T
  <2>1. ASSUME NEW U \in SUBSET Element, Closed(U, P), Cardinality(U) <= c + 1
        PROVE  Divides(m, U)
    <3>1. CASE U = {}
      BY <1>1, <1>2, <3>1
    <3>2. CASE U # {}
      BY <1>3, <2>1, <3>2
    <3>3. QED
      BY <3>1, <3>2
  <2>2. QED
    BY <2>1
<1>6. T = Nat
  <2> HIDE DEF T
  <2>1. QED
    BY <1>4, <1>5, SetInduction DEF T
<1>7. Closed(Element, P)
  BY ElementFacts DEF Closed
<1>8. Order \in Nat /\ Cardinality(Element) <= Order
  BY ElementsFinite, CurveAssumption
<1>9. QED
  BY <1>6, <1>7, <1>8

\* A walk is at infinity after Order steps.
LEMMA WalkOfOrder ==
  ASSUME NEW P \in Element, NEW w, IsWalk(w, P)
  PROVE  w[Order] = Infinite
<1>1. PICK m \in Nat : m > 0 /\ w[m] = Infinite /\ \A k \in Nat : 0 < k /\ k < m => w[k] # Infinite
  BY WalkPeriod
<1>2. PICK q \in Nat : Order = m * q
  <2>1. Divides(m, Element)
    BY <1>1, OrbitsDivide
  <2>2. QED
    BY <2>1, ElementsFinite DEF Divides
<1> DEFINE T == {i \in Nat : w[m * i] = Infinite}
<1>3. 0 \in T
  BY DEF IsWalk
<1>4. ASSUME NEW i \in T PROVE i + 1 \in T
  <2>1. m * i \in Nat /\ m * (i + 1) = m * i + m
    OBVIOUS
  <2> DEFINE k == m * i
  <2>2. w[k] = Infinite /\ k \in Nat
    BY <2>1
  <2> HIDE DEF k
  <2>3. w[k + m] = AddPoints(w[k], w[m])
    BY <2>2, WalkSum
  <2>4. w[k + m] = Infinite
    BY <1>1, <2>2, <2>3, ElementFacts
  <2>5. QED
    BY <2>1, <2>4 DEF k
<1>5. T = Nat
  <2> HIDE DEF T
  <2>1. QED
    BY <1>3, <1>4, SetInduction DEF T
<1>6. QED
  BY <1>2, <1>5

\* A walk goes through the multiples.
LEMMA MultipleOfWalk ==
  ASSUME NEW P \in Element, NEW w, IsWalk(w, P), NEW k \in Nat
  PROVE  Multiple(k, P) = w[k]
<1> DEFINE g == [i \in 0 .. k |-> w[i]]
<1>1. \A i \in 0 .. k : g[i] = IF i = 0 THEN Infinite ELSE AddPoints(g[i-1], P)
  <2>1. TAKE i \in 0 .. k
  <2>2. CASE i = 0
    BY <2>2 DEF IsWalk
  <2>3. CASE i # 0
    <3>1. i - 1 \in Nat /\ i - 1 \in 0 .. k /\ (i-1) + 1 = i
      BY <2>3
    <3>2. w[i] = AddPoints(w[i-1], P)
      BY <3>1 DEF IsWalk
    <3>3. QED
      BY <2>3, <3>1, <3>2
  <2>4. QED
    BY <2>2, <2>3
<1>2. g = [i \in 0 .. k |-> IF i = 0 THEN Infinite ELSE AddPoints(g[i-1], P)]
  BY <1>1
<1>3. PICK total :
        /\ total = [i \in 0 .. k |-> IF i = 0 THEN Infinite ELSE AddPoints(total[i-1], P)]
        /\ Multiple(k, P) = total[k]
  <2> DEFINE f[i \in 0 .. k] == IF i = 0 THEN Infinite ELSE AddPoints(f[i-1], P)
  <2>1. f = [i \in 0 .. k |-> IF i = 0 THEN Infinite ELSE AddPoints(f[i-1], P)]
    BY <1>2
  <2>2. Multiple(k, P) = f[k]
    BY DEF Multiple
  <2> HIDE DEF f
  <2>3. QED
    BY <2>1, <2>2
<1> DEFINE T == {i \in Nat : i <= k => total[i] = w[i]}
<1>4. 0 \in T
  BY <1>3 DEF IsWalk
<1>5. ASSUME NEW i \in T PROVE i + 1 \in T
  <2>1. SUFFICES ASSUME i + 1 <= k PROVE total[i+1] = w[i+1]
    OBVIOUS
  <2>2. i \in Nat /\ i + 1 \in 0 .. k /\ i + 1 # 0 /\ (i+1) - 1 = i /\ total[i] = w[i]
    BY <2>1
  <2>3. total[i+1] = AddPoints(total[i], P)
    BY <1>3, <2>2
  <2>4. QED
    BY <2>2, <2>3 DEF IsWalk
<1>6. T = Nat
  <2> HIDE DEF T
  <2>1. QED
    BY <1>4, <1>5, SetInduction DEF T
<1>7. total[k] = w[k]
  <2>1. k \in T
    BY <1>6
  <2>2. QED
    BY <2>1
<1>8. QED
  BY <1>3, <1>7

\* Lagrange's theorem: as many additions as there are points lead to infinity.
THEOREM OrderTimesPoint ==
  ASSUME NEW P \in Element
  PROVE  Multiple(Order, P) = Infinite
<1>1. PICK w : IsWalk(w, P)
  BY WalkExists
<1>2. QED
  BY <1>1, WalkOfOrder, MultipleOfWalk, CurveAssumption
-----------------------------------------------------------------------------
(* The behaviours of CurveGroup, and its encodings.                        *)

\* Field is odd.
LEMMA ParityDiffers ==
  ASSUME NEW a \in Int, NEW b \in Int, a + b = Field
  PROVE  (a % 2 = 1) <=> ~(b % 2 = 1)
<1>1. Field % 2 = 1
  BY CurveAssumption
<1>2. PICK i \in Int, c \in 0 .. 1 : a = 2 * i + c /\ a % 2 = c
  BY DivMod
<1>3. PICK j \in Int, d \in 0 .. 1 : b = 2 * j + d /\ b % 2 = d
  BY DivMod
<1>4. PICK k \in Int : Field = 2 * k + 1
  <2>1. Field \in Int /\ 2 \in Nat /\ 2 > 0
    BY FieldSize
  <2>2. Field = 2 * (Field \div 2) + (Field % 2) /\ Field \div 2 \in Int
    BY <2>1, DivMod
  <2>3. QED
    BY <1>1, <2>2
<1>5. 2 * (i + j - k) + c + d = 1
  BY <1>2, <1>3, <1>4
<1>6. c + d = 1
  BY <1>5
<1>7. QED
  BY <1>2, <1>3, <1>6

\* The two square roots of a residue add up to the prime.
LEMMA SumIsField ==
  ASSUME NEW a \in 0 .. (Field-1), NEW b \in 1 .. (Field-1), (a + b) % Field = 0
  PROVE  a + b = Field
<1> DEFINE k == a + b
           q == k \div Field
<1>1. k \in 1 .. (2 * Field - 2) /\ k \in Int /\ Field \in Nat /\ Field > 0 /\ k % Field = 0
  BY FieldSize
<1> HIDE DEF k
<1>2. k = Field * q + (k % Field) /\ q \in Int
  BY <1>1, DivMod
<1>3. Field * q \in Int
  BY <1>1, <1>2
<1> HIDE DEF q
<1>4. k = Field * q
  BY <1>1, <1>2, <1>3
<1>5. q = 1
  <2>1. CASE q <= 0
    BY <1>1, <1>2, <1>4, <2>1
  <2>2. CASE q >= 2
    BY <1>1, <1>2, <1>4, <2>2
  <2>3. QED
    BY <1>2, <2>1, <2>2
<1>6. QED
  BY <1>1, <1>4, <1>5 DEF k

\* The two square roots differ in their parity: encode keeps enough.
LEMMA DecodeEncode ==
  ASSUME NEW P \in OnCurve
  PROVE  DecodeCompressedPoint(EncodeCompressedPoint(P)) = P
<1> DEFINE cube == P.x * P.x * P.x + 7
           rhs == cube % Field
           root == ModPow(rhs, (Field + 1) \div 4, Field)
           prefix == IF P.y % 2 = 1 THEN 3 ELSE 2
           R == Affine(P.x, root)
<1>1. /\ P.x \in 0 .. (Field-1) /\ P.y \in 1 .. (Field-1) /\ P.x \in Int /\ P.y \in Int
      /\ ~P.infinity /\ P = Affine(P.x, P.y) /\ ~Cong(P.y, 0) /\ Cong(P.y * P.y, cube)
  BY PointFacts
<1>2. cube \in Int /\ P.y * P.y \in Int
  BY <1>1
<1> HIDE DEF cube
<1>3. rhs \in 0 .. (Field-1) /\ rhs \in Int /\ Cong(rhs, cube)
  BY <1>2, ModFacts
<1>4. Cong(rhs, P.y * P.y)
  <2>1. Cong(cube, P.y * P.y)
    BY <1>1, <1>2, CongSymmetric
  <2> HIDE DEF rhs
  <2>2. QED
    BY <1>2, <1>3, <2>1, CongChain
<1>5. root \in 0 .. (Field-1) /\ Cong(root * root, rhs)
  <2> HIDE DEF rhs
  <2>1. QED
    BY <1>1, <1>3, <1>4, SquareRoot
<1> HIDE DEF root
<1>6. root \in Int /\ root * root \in Int
  BY <1>5, FieldSize
<1>7. (root * root) % Field = rhs
  <2> HIDE DEF rhs
  <2>1. (root * root) % Field = rhs % Field /\ rhs % Field = rhs
    BY <1>3, <1>5, <1>6, CongResidue
  <2>2. QED
    BY <2>1
<1>8. R \in OnCurve
  <2>1. Cong(root * root, cube)
    <3> HIDE DEF rhs
    <3>1. QED
      BY <1>2, <1>3, <1>5, <1>6, CongChain
  <2>2. QED
    BY <1>1, <1>5, <2>1, PointIntro DEF cube
<1>9. R.x = P.x /\ R.y = root
  BY DEF Affine
<1>10. root = P.y \/ root + P.y = Field
  <2>1. CASE R = P
    BY <1>9, <2>1
  <2>2. CASE (root + P.y) % Field = 0
    BY <1>1, <1>5, <2>2, SumIsField
  <2>3. QED
    BY <1>8, <1>9, <2>1, <2>2, SameX
<1>11. Affine(P.x, IF (root % 2 = 1) = (prefix = 3) THEN root ELSE Field - root) = P
  <2>1. CASE root = P.y
    BY <1>1, <2>1
  <2>2. CASE root + P.y = Field
    <3>1. Field % 2 = 1
      BY CurveAssumption
    <3>2. Field - root = P.y
      BY <1>1, <1>6, <2>2
    <3>3. (root % 2 = 1) <=> ~(P.y % 2 = 1)
      BY <1>1, <1>6, <2>2, ParityDiffers
    <3>4. ~((root % 2 = 1) = (prefix = 3))
      BY <3>3
    <3>5. QED
      BY <1>1, <3>2, <3>4
  <2>3. QED
    BY <1>10, <2>1, <2>2
<1>12. EncodeCompressedPoint(P) = <<prefix, P.x>> /\ prefix \in {2, 3}
  BY <1>1 DEF EncodeCompressedPoint
<1>13. DecodeCompressedPoint(<<prefix, P.x>>)
         = Affine(P.x, IF (root % 2 = 1) = (prefix = 3) THEN root ELSE Field - root)
  BY <1>7, <1>12 DEF DecodeCompressedPoint, root, rhs, cube
<1>14. QED
  BY <1>11, <1>12, <1>13

\* The sums are points of the curve or infinity.
GroupType == point \in OnCurve /\ n \in 0 .. Order /\ sum \in Element

\* AddOnce adds points of the curve: what addPoints returns is a point of the curve, or
\* infinity, and never a pair of numbers that satisfies no equation.
THEOREM GroupTypeInvariant == GroupSpec => []GroupType
<1>1. GroupInit => GroupType
  BY CurveAssumption, InfiniteFacts DEF GroupInit, GroupType
<1>2. GroupType /\ [GroupNext]_groupVars => GroupType'
  <2> SUFFICES ASSUME GroupType, [GroupNext]_groupVars
               PROVE  GroupType'
    OBVIOUS
  <2>1. CASE AddOnce
    <3>1. AddPoints(sum, point) \in Element
      BY AdditionClosed, InfiniteFacts DEF GroupType
    <3>2. n + 1 \in 0 .. Order
      BY <2>1, CurveAssumption DEF AddOnce, GroupType
    <3>3. QED
      BY <2>1, <3>1, <3>2 DEF AddOnce, GroupType, Element
  <2>2. CASE UNCHANGED groupVars
    BY <2>2 DEF groupVars, GroupType, Element
  <2>3. QED
    BY <2>1, <2>2 DEF GroupNext, Cycled
<1>3. QED
  BY <1>1, <1>2, PTL DEF GroupSpec

\* decodeCompressedPoint inverts encodeCompressedPoint: the power it computes is a root
\* of x^3 + 7 by Fermat's theorem, one of two that differ in parity, and the prefix says
\* which.
THEOREM EncodingIsInvertible == GroupSpec => []EncodingInvertible
<1>1. GroupType => EncodingInvertible
  <2>1. SUFFICES ASSUME GroupType, ~sum.infinity
                 PROVE  DecodeCompressedPoint(EncodeCompressedPoint(sum)) = sum
    BY DEF EncodingInvertible
  <2>2. sum \in OnCurve
    BY <2>1, InfiniteFacts DEF GroupType
  <2>3. QED
    BY <2>2, DecodeEncode
<1>2. QED
  BY <1>1, GroupTypeInvariant, PTL

\* Whatever has been added up so far: addPoints, with its three shortcuts and its two
\* formulas for the slope, is commutative and associative, and negatePoint is its inverse.
THEOREM GroupLawHolds == GroupSpec => []GroupLaw
<1>1. GroupType => GroupLaw
  <2>1. SUFFICES ASSUME GroupType PROVE GroupLaw
    OBVIOUS
  <2>2. sum \in Element /\ point \in Element
    BY <2>1, InfiniteFacts DEF GroupType
  <2>3. AddPoints(sum, point) = AddPoints(point, sum)
    BY <2>2, AdditionCommutative
  <2>4. AddPoints(sum, NegatePoint(sum)) = Infinite
    BY <2>2, NegateElement
  <2>5. ASSUME NEW P \in Element
        PROVE  AddPoints(AddPoints(sum, point), P) = AddPoints(sum, AddPoints(point, P))
    BY <2>2, AdditionAssociative
  <2>6. QED
    BY <2>3, <2>4, <2>5 DEF GroupLaw
<1>2. QED
  BY <1>1, GroupTypeInvariant, PTL
-----------------------------------------------------------------------------
(* The curve as the group of CotOT.                                        *)

\* What the transfer does with points and messages.
XOf(P) == P.x
Itself(key) == key
InTheClear(m, key) == m

\* The transfer of CotOT over this curve.  Only what it says of points is used: its
\* ciphers are arbitrary.
Transfer == INSTANCE CotOTProofs
  WITH N <- Order, K <- Order, Point <- OnCurve, Infinity <- Infinite, Add <- AddPoints,
       BasePoint <- Generator, Neg <- NegatePoint, Word <- Nat, XCoord <- XOf,
       DeriveKey <- Itself, XorEncrypt <- InTheClear

\* Order is a number above 2.
LEMMA OrderFacts == Order \in Nat /\ Order > 2 /\ Order > 0
BY CurveAssumption

\* The powers of two of Scalars.tla, which the lemmas on scalarMultiply use ...
LEMMA Powers ==
  /\ Transfer!Pow2[0] = 1
  /\ \A i \in Nat : Transfer!Pow2[i+1] = 2 * Transfer!Pow2[i]
<1> DEFINE D == [i \in Nat |-> IF i = 0 THEN 0 ELSE i - 1]
           C == [p \in Nat \X Int |-> 2 * p[2]]
           v == [i \in Nat |-> 1]
           measure == [i \in Nat |-> i]
<1>1. /\ D \in [Nat -> Nat] /\ C \in [Nat \X Int -> Int] /\ v \in [Nat -> Int]
      /\ measure \in [Nat -> Nat] /\ \A i \in Nat \ {0} : measure[D[i]] < measure[i]
  OBVIOUS
<1>2. PICK g \in [Nat -> Int] : \A i \in Nat : IsBody(g, i, {0}, D, C, v)
  <2> HIDE DEF D, C, v, measure
  <2>1. QED
    BY <1>1, RecursionExists
<1>3. \A i \in Nat : g[i] = IF i \in {0} THEN v[i] ELSE C[<<i, g[D[i]]>>]
  BY <1>2 DEF IsBody
<1>4. ASSUME NEW i \in Nat PROVE g[i] = IF i = 0 THEN 1 ELSE 2 * g[i-1]
  <2>1. CASE i = 0
    BY <1>3, <2>1
  <2>2. CASE i # 0
    <3>1. D[i] = i - 1 /\ i - 1 \in Nat /\ g[i-1] \in Int
      BY <2>2
    <3>2. g[i] = C[<<i, g[i-1]>>]
      BY <1>3, <2>2, <3>1
    <3>3. <<i, g[i-1]>> \in Nat \X Int
      BY <3>1
    <3>4. C[<<i, g[i-1]>>] = 2 * g[i-1]
      BY <3>3
    <3>5. QED
      BY <2>2, <3>2, <3>4
  <2>3. QED
    BY <2>1, <2>2
<1>5. g = [i \in Nat |-> IF i = 0 THEN 1 ELSE 2 * g[i-1]]
  BY <1>4
<1>6. Transfer!Pow2 = [i \in Nat |-> IF i = 0 THEN 1 ELSE 2 * Transfer!Pow2[i-1]]
  BY <1>5 DEF Transfer!Pow2
<1>7. QED
  BY <1>6

\* ... and which exceed every exponent.
LEMMA PowersGrow ==
  ASSUME NEW i \in Nat
  PROVE  Transfer!Pow2[i] \in Nat /\ i <= Transfer!Pow2[i]
<1> DEFINE T == {j \in Nat : Transfer!Pow2[j] \in Nat /\ j + 1 <= Transfer!Pow2[j]}
<1>1. 0 \in T
  BY Powers
<1>2. ASSUME NEW j \in T PROVE j + 1 \in T
  BY Powers
<1>3. T = Nat
  <2> HIDE DEF T
  <2>1. QED
    BY <1>1, <1>2, SetInduction DEF T
<1>4. QED
  BY <1>3

\* The operators of the two copies of DoubleAndAdd are the same.
LEMMA SameOperators ==
  /\ Transfer!Element = Element
  /\ \A k, P : Transfer!Multiple(k, P) = Multiple(k, P)
  /\ \A k, P : Transfer!ScalarMultiply(k, P) = ScalarMultiply(k, P)
<1>1. Transfer!Element = Element
  BY DEF Transfer!Element, Element
<1>2. ASSUME NEW k, NEW P PROVE Transfer!Multiple(k, P) = Multiple(k, P)
  BY DEF Transfer!Multiple, Multiple
<1>3. ASSUME NEW k, NEW P PROVE Transfer!ScalarMultiply(k, P) = ScalarMultiply(k, P)
  BY <1>1 DEF Transfer!ScalarMultiply, ScalarMultiply
<1>4. QED
  BY <1>1, <1>2, <1>3

\* What CotOT assumes of the order ...
LEMMA ScalarAssumptions == Transfer!OrderAssumption /\ Transfer!RoundsAssumption
BY OrderFacts, PowersGrow DEF Transfer!OrderAssumption, Transfer!RoundsAssumption

\* The shortcuts and formulas of addPoints satisfy what CotOT assumes of them.
THEOREM CurveIsAGroup == Transfer!AdditionAssumption /\ Transfer!GroupAssumption
<1>1. Transfer!AdditionAssumption
  BY AdditionClosed, AddInfinite, AdditionAssociative, InfiniteFacts, SameOperators
  DEF Transfer!AdditionAssumption
<1>2. Generator \in OnCurve
  BY CurveAssumption DEF Generator, Affine, OnCurve
<1>3. \A P \in OnCurve : NegatePoint(P) \in OnCurve /\ AddPoints(P, NegatePoint(P)) = Infinite
  BY NegateFacts, NegateElement, InfiniteFacts
<1>4. \A d \in 2 .. (Order-1) : Order % d # 0
  BY CurveAssumption
<1>5. QED
  BY <1>1, <1>2, <1>3, <1>4, OrderTimesPoint, InfiniteFacts, SameOperators
  DEF Transfer!GroupAssumption

\* ... and of ciphers.
LEMMA KeyAssumptions == Transfer!KeyAssumption
<1>1. \A P \in OnCurve : P.x \in Nat
  BY PointFacts, FieldSize
<1>2. QED
  BY <1>1, OrderFacts
  DEF Transfer!KeyAssumption, Transfer!Residue, XOf, Itself, InTheClear

\* Every assumption of CotOT.
LEMMA TransferAssumptions ==
  /\ Transfer!OrderAssumption /\ Transfer!RoundsAssumption
  /\ Transfer!AdditionAssumption /\ Transfer!GroupAssumption /\ Transfer!KeyAssumption
BY ScalarAssumptions, CurveIsAGroup, KeyAssumptions

\* Multiples, from the lemmas of CotOTProofs.
LEMMA MultipleFacts ==
  ASSUME NEW P \in Element
  PROVE  /\ Multiple(0, P) = Infinite /\ Multiple(1, P) = P
         /\ \A i \in Nat : Multiple(i, P) \in Element
         /\ \A i \in Nat : Multiple(i+1, P) = AddPoints(Multiple(i, P), P)
         /\ \A i, j \in Nat : AddPoints(Multiple(i, P), Multiple(j, P)) = Multiple(i + j, P)
         /\ \A i, j \in Nat : Multiple(i, Multiple(j, P)) = Multiple(i * j, P)
<1>1. P \in Transfer!Element
  BY SameOperators
<1>2. Transfer!Multiple(0, P) = Infinite /\ Transfer!Multiple(1, P) = P
  BY <1>1, TransferAssumptions, Transfer!MultipleZero, Transfer!MultipleOne
<1>3. \A i \in Nat : Transfer!Multiple(i, P) \in Transfer!Element
  BY <1>1, TransferAssumptions, Transfer!MultipleType
<1>4. \A i \in Nat : Transfer!Multiple(i+1, P) = AddPoints(Transfer!Multiple(i, P), P)
  BY <1>1, TransferAssumptions, Transfer!MultipleNext
<1>5. \A i, j \in Nat :
        AddPoints(Transfer!Multiple(i, P), Transfer!Multiple(j, P)) = Transfer!Multiple(i + j, P)
  BY <1>1, TransferAssumptions, Transfer!AddMultiples
<1>6. \A i, j \in Nat :
        Transfer!Multiple(i, Transfer!Multiple(j, P)) = Transfer!Multiple(i * j, P)
  BY <1>1, TransferAssumptions, Transfer!MultipleOfMultiple
<1>7. QED
  BY <1>2, <1>3, <1>4, <1>5, <1>6, SameOperators

\* scalarMultiply is the multiple, and never at infinity for a scalar.
LEMMA ScalarMultiplyFacts ==
  ASSUME NEW k \in Scalars, NEW P \in OnCurve
  PROVE  ScalarMultiply(k, P) = Multiple(k, P) /\ Multiple(k, P) \in OnCurve
<1>1. k \in Transfer!Scalar
  BY DEF Scalars, Transfer!Scalar
<1>2. Transfer!Mul(k, P) = Transfer!Multiple(k, P) /\ Transfer!Mul(k, P) \in OnCurve
  BY <1>1, TransferAssumptions, Transfer!MulIsMultiple
<1>3. Transfer!Mul(k, P) = Transfer!ScalarMultiply(k, P)
  BY DEF Transfer!Mul
<1>4. QED
  BY <1>2, <1>3, SameOperators

\* Inductive: the sum is as many times the point as n counts.
GroupInv == GroupType /\ sum = Multiple(n, point)

\* The sum is the multiple that has been counted.
LEMMA GroupInvariant == GroupSpec => []GroupInv
<1>1. GroupInit => GroupInv
  <2>1. SUFFICES ASSUME GroupInit PROVE GroupInv
    OBVIOUS
  <2>2. GroupType
    BY <2>1, CurveAssumption, InfiniteFacts DEF GroupInit, GroupType
  <2>3. Multiple(0, point) = Infinite
    BY <2>2, InfiniteFacts, MultipleFacts DEF GroupType
  <2>4. QED
    BY <2>1, <2>2, <2>3 DEF GroupInit, GroupInv
<1>2. GroupInv /\ GroupType' /\ [GroupNext]_groupVars => GroupInv'
  <2>1. SUFFICES ASSUME GroupInv, GroupType', [GroupNext]_groupVars PROVE GroupInv'
    OBVIOUS
  <2>2. CASE AddOnce
    <3>1. point \in Element /\ n \in Nat
      BY <2>1, InfiniteFacts DEF GroupInv, GroupType
    <3>2. Multiple(n + 1, point) = AddPoints(Multiple(n, point), point)
      BY <3>1, MultipleFacts
    <3>3. sum' = Multiple(n', point')
      BY <2>1, <2>2, <3>2 DEF AddOnce, GroupInv
    <3>4. QED
      BY <2>1, <3>3 DEF GroupInv
  <2>3. CASE UNCHANGED groupVars
    BY <2>1, <2>3 DEF groupVars, GroupInv
  <2>4. QED
    BY <2>1, <2>2, <2>3 DEF GroupNext, Cycled
<1>3. QED
  BY <1>1, <1>2, GroupTypeInvariant, PTL DEF GroupSpec

\* scalarMultiply, double and add, is repeated addition for every scalar that the program
\* draws and every point, and has an encoding.
THEOREM MultiplicationIsAddition == GroupSpec => []MultiplicationIsRepeatedAddition
<1>1. GroupInv => MultiplicationIsRepeatedAddition
  <2>1. SUFFICES ASSUME GroupInv, n \in 1 .. (Order-1)
                 PROVE  sum # Infinite /\ ScalarMultiply(n, point) = sum
    BY DEF MultiplicationIsRepeatedAddition
  <2>2. n \in Scalars /\ point \in OnCurve /\ sum = Multiple(n, point)
    BY <2>1 DEF Scalars, GroupInv, GroupType
  <2>3. QED
    BY <2>2, ScalarMultiplyFacts, InfiniteFacts
<1>2. QED
  BY <1>1, GroupInvariant, PTL

\* A quotient, by way of the inverse of the denominator d.
LEMMA Quotient ==
  ASSUME NEW d \in Int, NEW inv \in Int, Cong(inv * d, 1), NEW u \in Int
  PROVE  /\ (u * inv) % Field \in Int
         /\ Cong(d * ((u * inv) % Field), u) /\ Cong(((u * inv) % Field) * d, u)
<1> DEFINE v == u * inv
           o == inv * d
           l == v % Field
<1>1. v \in Int /\ o \in Int /\ 1 \in Int /\ Cong(o, 1)
  OBVIOUS
<1>2. d * v = o * u /\ 1 * u = u
  OBVIOUS
<1> HIDE DEF v, o
<1>3. l \in Int /\ Cong(l, v)
  BY <1>1, ModFacts
<1> HIDE DEF l
<1>4. Cong(d * l, d * v)
  BY <1>1, <1>3, CongFactor
<1>5. Cong(o * u, 1 * u)
  BY <1>1, CongFactor
<1>6. d * l \in Int /\ d * v \in Int /\ Cong(d * v, u) /\ d * l = l * d
  BY <1>1, <1>2, <1>3, <1>5
<1>7. Cong(d * l, u)
  BY <1>4, <1>6, CongChain
<1>8. QED
  BY <1>3, <1>6, <1>7 DEF l, v
-----------------------------------------------------------------------------
(* trezor-crypto.                                                          *)

\* A curve_point: the flag of infinity is left out, which is (0, 0).
CurvePoint(P) == [x |-> P.x, y |-> P.y]

\* No point of the curve is (0, 0), and points differ as curve_points do.
LEMMA CurvePointFacts ==
  /\ CurvePoint(Infinite) = Server!AtInfinity
  /\ \A P \in OnCurve : CurvePoint(P) # Server!AtInfinity /\ CurvePoint(P) # Server!NoPoint
  /\ \A P, Q \in OnCurve : CurvePoint(P) = CurvePoint(Q) => P = Q
  /\ \A P : CurvePoint(P).x = P.x /\ CurvePoint(P).y = P.y
<1>1. CurvePoint(Infinite) = Server!AtInfinity
  BY DEF CurvePoint, Infinite, Server!AtInfinity
<1>2. \A P : CurvePoint(P).x = P.x /\ CurvePoint(P).y = P.y
  BY DEF CurvePoint
<1>3. ASSUME NEW P \in OnCurve
      PROVE  CurvePoint(P) # Server!AtInfinity /\ CurvePoint(P) # Server!NoPoint
  <2>1. P.y # 0 /\ P.y # -1
    BY PointFacts, FieldSize
  <2>2. Server!AtInfinity.y = 0 /\ Server!NoPoint.y = -1
    BY DEF Server!AtInfinity, Server!NoPoint
  <2>3. QED
    BY <1>2, <2>1, <2>2
<1>4. ASSUME NEW P \in OnCurve, NEW Q \in OnCurve, CurvePoint(P) = CurvePoint(Q) PROVE P = Q
  <2>1. P.x = Q.x /\ P.y = Q.y
    BY <1>2, <1>4
  <2>2. P = Affine(P.x, P.y) /\ Q = Affine(Q.x, Q.y)
    BY PointFacts
  <2>3. QED
    BY <2>1, <2>2
<1>5. QED
  BY <1>1, <1>2, <1>3, <1>4

\* bn_subtractmod never wraps around on what point_add gives it.
LEMMA SubtractFacts ==
  ASSUME NEW a \in 0 .. (2 * Field - 1), NEW b \in 0 .. (Field-1)
  PROVE  /\ Server!BnSubtractMod(a, b, Field) \in Int
         /\ Cong(Server!BnSubtractMod(a, b, Field), a - b)
<1> DEFINE d == a + (2 * Field - b)
<1>1. a \in Int /\ b \in Int /\ Capacity \in Nat /\ 4 * Field <= Capacity
  BY FieldSize, FieldWidthAssumption
<1>2. d \in 0 .. (Capacity-1) /\ Capacity > 0
  BY <1>1, FieldSize
<1>3. d % Capacity = d
  <2> HIDE DEF d
  <2>1. QED
    BY <1>1, <1>2
<1>4. Server!BnSubtractMod(a, b, Field) = d
  BY <1>3 DEF Server!BnSubtractMod
<1>5. d = (a - b) + Field * 2 /\ d \in Int
  BY <1>1, FieldSize
<1>6. QED
  BY <1>4, <1>5 DEF Cong

\* bn_inverse finds an inverse modulo the prime.
LEMMA InverseFacts ==
  ASSUME NEW number \in Int, ~Cong(number, 0)
  PROVE  Server!Inverse(number) \in Int /\ Cong(Server!Inverse(number) * number, 1)
<1> DEFINE w == number % Field
           inv == ModInverse(number, Field)
           i0 == inv % Field
<1>1. w \in 0 .. (Field-1) /\ w \in Int /\ Cong(w, number)
  BY ModFacts
<1>2. inv \in Int /\ Cong(inv * number, 1)
  BY ModInverseCorrect
<1> HIDE DEF w, inv
<1>3. i0 \in 0 .. (Field-1) /\ i0 \in Int /\ Cong(i0, inv)
  BY <1>2, ModFacts
<1> HIDE DEF i0
<1>4. i0 * w \in Int /\ inv * number \in Int /\ 1 \in Int
  BY <1>1, <1>2, <1>3
<1>5. Cong(i0 * w, inv * number)
  BY <1>1, <1>2, <1>3, CongProduct
<1>6. Cong(i0 * w, 1)
  BY <1>2, <1>4, <1>5, CongChain
<1>7. 1 % Field = 1
  BY FieldSize
<1>8. (i0 * w) % Field = 1
  BY <1>4, <1>6, <1>7, CongResidue
<1>9. i0 # 0
  <2>1. CASE i0 = 0
    <3>1. i0 * w = 0 /\ 0 % Field = 0
      BY <1>1, <2>1, FieldSize
    <3>2. QED
      BY <1>8, <3>1
  <2>2. QED
    BY <2>1
<1>10. w # 0
  <2>1. CASE w = 0
    <3>1. Cong(number, 0)
      BY <1>1, <2>1, CongSymmetric
    <3>2. QED
      BY <3>1
  <2>2. QED
    BY <2>1
<1> DEFINE j == Server!Inverse(number)
<1>11. j = CHOOSE i \in 1 .. (Field-1) : (i * w) % Field = 1
  BY <1>10 DEF Server!Inverse, Server!Reduced, w
<1>12. i0 \in 1 .. (Field-1)
  BY <1>3, <1>9
<1>13. j \in 1 .. (Field-1) /\ (j * w) % Field = 1
  <2> HIDE DEF j
  <2>1. QED
    BY <1>8, <1>11, <1>12
<1> HIDE DEF j
<1>14. j \in Int /\ j * w \in Int /\ j * number \in Int
  BY <1>1, <1>13, FieldSize
<1>15. Cong(j * w, 1)
  BY <1>4, <1>7, <1>13, <1>14, CongResidue
<1>16. Cong(j * number, j * w)
  <2>1. Cong(number, w)
    BY <1>1, CongSymmetric
  <2>2. QED
    BY <1>1, <1>14, <2>1, CongFactor
<1>17. Cong(j * number, 1)
  BY <1>4, <1>14, <1>15, <1>16, CongChain
<1>18. QED
  BY <1>14, <1>17 DEF j

\* point_double is addPoints of a point and itself ...
LEMMA DoubleAgrees ==
  ASSUME NEW P \in OnCurve
  PROVE  Server!PointDouble(CurvePoint(P)) = CurvePoint(AddPoints(P, P))
<1> DEFINE d == 2 * P.y
           u == 3 * P.x * P.x
           inv == Server!Inverse(d)
           l == (u * inv) % Field
           xr == (l * l - 2 * P.x) % Field
<1>1. P.x \in Int /\ P.y \in Int /\ P.y \in 0 .. (Field-1) /\ ~Cong(2 * P.y, 0)
  BY PointFacts
<1>2. d \in Int /\ u \in Int /\ ~Cong(d, 0)
  BY <1>1
<1> HIDE DEF d, u
<1>3. inv \in Int /\ Cong(inv * d, 1)
  BY <1>2, InverseFacts
<1> HIDE DEF inv
<1>4. l \in Int /\ Cong(d * l, u)
  BY <1>2, <1>3, Quotient
<1>5. Server!PointDouble(CurvePoint(P)) = [x |-> xr, y |-> (l * (P.x - xr) - P.y) % Field]
  BY CurvePointFacts DEF Server!PointDouble, Server!Reduced, d, u, inv
<1> HIDE DEF l
<1>6. IsSlope(l, P, P)
  BY <1>4 DEF IsSlope, d, u
<1>7. ~Opposite(P, P)
  <2>1. CASE (P.y + P.y) % Field = 0
    <3>1. P.y + P.y = 2 * P.y /\ 2 * P.y \in Int /\ 0 \in Int /\ 0 % Field = 0
      BY <1>1, FieldSize
    <3>2. (2 * P.y) % Field = 0 % Field
      BY <2>1, <3>1
    <3>3. QED
      BY <1>1, <3>1, <3>2, CongResidue
  <2>2. QED
    BY <2>1 DEF Opposite
<1>8. AddPoints(P, P) = SumBySlope(l, P, P)
  BY <1>6, <1>7, AddBySlope
<1>9. l * l - P.x - P.x = l * l - 2 * P.x
  BY <1>1, <1>4
<1>10. SumBySlope(l, P, P) = Affine(xr, (l * (P.x - xr) - P.y) % Field)
  BY <1>9 DEF SumBySlope
<1>11. QED
  BY <1>5, <1>8, <1>10 DEF CurvePoint, Affine

\* ... and the chord of point_add that of two points.
LEMMA ChordAgrees ==
  ASSUME NEW P \in OnCurve, NEW Q \in OnCurve, P.x # Q.x
  PROVE  Server!Chord(CurvePoint(P), CurvePoint(Q)) = {CurvePoint(AddPoints(P, Q))}
<1> DEFINE dx == Server!BnSubtractMod(Q.x, P.x, Field)
           dy == Server!BnSubtractMod(Q.y, P.y, Field)
           inv == Server!Inverse(dx)
           l == (dy * inv) % Field
           xr == (l * l - P.x - Q.x) % Field
           e == Server!BnSubtractMod(P.x, xr, Field)
           Y(t) == Server!BnSubtractMod(t, P.y, Field) % Field
           y3 == (l * (P.x - xr) - P.y) % Field
<1>1. /\ P.x \in Int /\ P.y \in Int /\ Q.x \in Int /\ Q.y \in Int
      /\ P.x \in 0 .. (Field-1) /\ Q.x \in 0 .. (Field-1)
      /\ P.y \in 0 .. (Field-1) /\ Q.y \in 0 .. (Field-1)
  BY PointFacts
<1>2. 0 .. (Field-1) \subseteq 0 .. (2 * Field - 1)
  BY FieldSize
<1>3. dx \in Int /\ Cong(dx, Q.x - P.x) /\ dy \in Int /\ Cong(dy, Q.y - P.y)
  BY <1>1, <1>2, SubtractFacts
<1>4. Q.x - P.x \in Int /\ Q.y - P.y \in Int
  BY <1>1
<1>5. ~Cong(Q.x - P.x, 0)
  BY <1>1, CongDifference, ResidueUnique
<1> HIDE DEF dx, dy
<1>6. ~Cong(dx, 0)
  <2>1. Cong(Q.x - P.x, dx)
    BY <1>3, <1>4, CongSymmetric
  <2>2. QED
    BY <1>3, <1>4, <1>5, <2>1, CongChain
<1>7. inv \in Int /\ Cong(inv * dx, 1)
  BY <1>3, <1>6, InverseFacts
<1> HIDE DEF inv
<1>8. l \in Int /\ Cong(l * dx, dy)
  BY <1>3, <1>7, Quotient
<1> HIDE DEF l
<1>9. Cong(l * (Q.x - P.x), Q.y - P.y)
  <2> DEFINE a == Q.x - P.x
             b == Q.y - P.y
  <2>1. a \in Int /\ b \in Int
    BY <1>4
  <2>2. Cong(a, dx) /\ Cong(dy, b)
    BY <1>3, <1>4, CongSymmetric
  <2> HIDE DEF a, b
  <2>3. Cong(l * a, l * dx)
    BY <1>3, <1>8, <2>1, <2>2, CongFactor
  <2>4. l * a \in Int /\ l * dx \in Int
    BY <1>3, <1>8, <2>1
  <2>5. Cong(l * a, dy)
    BY <1>3, <1>8, <2>3, <2>4, CongChain
  <2>6. Cong(l * a, b)
    BY <1>3, <2>1, <2>2, <2>4, <2>5, CongChain
  <2>7. QED
    BY <2>6 DEF a, b
<1>10. IsSlope(l, P, Q)
  BY <1>8, <1>9 DEF IsSlope
<1>11. AddPoints(P, Q) = Affine(xr, y3)
  <2>1. ~Opposite(P, Q)
    BY DEF Opposite
  <2>2. QED
    BY <1>10, <2>1, AddBySlope DEF SumBySlope
<1>12. xr \in 0 .. (Field-1) /\ xr \in Int
  <2>1. l * l - P.x - Q.x \in Int
    BY <1>1, <1>8
  <2>2. QED
    BY <2>1, ModFacts
<1>13. Server!Chord(CurvePoint(P), CurvePoint(Q))
         = { [x |-> xr, y |-> Y(t)] : t \in Server!BnMultiply(l, e, Field) }
  BY CurvePointFacts DEF Server!Chord, Server!Reduced, l, inv, dx, dy
<1> HIDE DEF xr
<1>14. e \in Int /\ Cong(e, P.x - xr)
  BY <1>1, <1>2, <1>12, SubtractFacts
<1> HIDE DEF e
<1> DEFINE v == l * e
           w == v % Field
<1>15. v \in Int /\ l * (P.x - xr) \in Int /\ l * (P.x - xr) - P.y \in Int
  BY <1>1, <1>8, <1>12, <1>14
<1>16. Cong(v, l * (P.x - xr))
  <2>1. P.x - xr \in Int
    BY <1>1, <1>12
  <2>2. QED
    BY <1>8, <1>14, <2>1, CongFactor
<1>17. Server!BnMultiply(l, e, Field) = {w, w + Field}
  BY DEF Server!BnMultiply, Server!PartlyReduced
<1> HIDE DEF v
<1>18. w \in 0 .. (Field-1) /\ w \in Int /\ Cong(w, v)
  BY <1>15, ModFacts
<1> HIDE DEF w
<1>19. ASSUME NEW t \in {w, w + Field} PROVE Y(t) = y3
  <2>1. t \in 0 .. (2 * Field - 1) /\ t \in Int
    BY <1>18, FieldSize
  <2>2. Cong(t, w)
    <3>1. CASE t = w
      BY <1>18, <3>1, CongEquivalence
    <3>2. CASE t = w + Field
      <4>1. t = w + Field * 1
        BY <1>18, <3>2, FieldSize
      <4>2. QED
        BY <4>1 DEF Cong
    <3>3. QED
      BY <3>1, <3>2
  <2>3. Cong(t, v)
    BY <1>15, <1>18, <2>1, <2>2, CongChain
  <2> DEFINE m == l * (P.x - xr)
             s == Server!BnSubtractMod(t, P.y, Field)
  <2>4. m \in Int /\ Cong(v, m)
    BY <1>15, <1>16
  <2> HIDE DEF m
  <2>5. Cong(t, m)
    BY <1>15, <2>1, <2>3, <2>4, CongChain
  <2>6. s \in Int /\ Cong(s, t - P.y)
    BY <1>1, <2>1, SubtractFacts
  <2> HIDE DEF s
  <2>7. Cong(P.y, P.y)
    BY <1>1, CongEquivalence
  <2>8. Cong(t - P.y, m - P.y)
    BY <1>1, <2>1, <2>4, <2>5, <2>7, CongMinus
  <2>9. t - P.y \in Int /\ m - P.y \in Int
    BY <1>1, <2>1, <2>4
  <2>10. Cong(s, m - P.y)
    BY <2>6, <2>8, <2>9, CongChain
  <2>11. s % Field = (m - P.y) % Field
    BY <2>6, <2>9, <2>10, CongResidue
  <2>12. QED
    BY <2>11 DEF m, s
<1>20. { [x |-> xr, y |-> Y(t)] : t \in {w, w + Field} } = { [x |-> xr, y |-> y3] }
  <2> HIDE DEF Y, y3
  <2>1. QED
    BY <1>19
<1>21. CurvePoint(Affine(xr, y3)) = [x |-> xr, y |-> y3]
  BY DEF CurvePoint, Affine
<1>22. QED
  <2> HIDE DEF Y, y3
  <2>1. QED
    BY <1>11, <1>13, <1>17, <1>20, <1>21

\* ::point_add adds as addPoints does, whatever the carries between the limbs.
LEMMA PointAddAgrees ==
  ASSUME NEW P \in Element, NEW Q \in Element
  PROVE  Server!TrezorAdd(CurvePoint(P), CurvePoint(Q)) = {CurvePoint(AddPoints(P, Q))}
<1>1. CASE P = Infinite
  BY <1>1, CurvePointFacts, AddInfinite DEF Server!TrezorAdd
<1>2. CASE P \in OnCurve /\ Q = Infinite
  BY <1>2, CurvePointFacts, AddInfinite, InfiniteFacts DEF Server!TrezorAdd
<1>3. CASE P \in OnCurve /\ Q \in OnCurve
  <2>1. CurvePoint(P) # Server!AtInfinity /\ CurvePoint(Q) # Server!AtInfinity
    BY <1>3, CurvePointFacts
  <2>2. CASE P = Q
    BY <1>3, <2>1, <2>2, DoubleAgrees DEF Server!TrezorAdd
  <2>3. CASE P # Q /\ P.x = Q.x
    <3>1. CurvePoint(P) # CurvePoint(Q) /\ CurvePoint(P).x = CurvePoint(Q).x
      BY <1>3, <2>3, CurvePointFacts
    <3>2. CurvePoint(P).y # 0
      BY <1>3, CurvePointFacts, PointFacts, FieldSize
    <3>3. Server!TrezorAdd(CurvePoint(P), CurvePoint(Q)) = {Server!AtInfinity}
      BY <2>1, <3>1, <3>2 DEF Server!TrezorAdd
    <3>4. Opposite(P, Q)
      BY <1>3, <2>3, SameX DEF Opposite
    <3>5. AddPoints(P, Q) = Infinite
      BY <1>3, <3>4, AddOfPoints
    <3>6. QED
      BY <3>3, <3>5, CurvePointFacts
  <2>4. CASE P.x # Q.x
    <3>1. CurvePoint(P).x # CurvePoint(Q).x /\ CurvePoint(P) # CurvePoint(Q)
      BY <2>4, CurvePointFacts
    <3>2. Server!TrezorAdd(CurvePoint(P), CurvePoint(Q))
            = Server!Chord(CurvePoint(P), CurvePoint(Q))
      BY <2>1, <3>1 DEF Server!TrezorAdd
    <3>3. QED
      BY <1>3, <2>4, <3>2, ChordAgrees
  <2>5. QED
    BY <2>2, <2>3, <2>4
<1>4. QED
  BY <1>1, <1>2, <1>3, InfiniteFacts

\* point_multiply and scalar_multiply are the multiple.
LEMMA MultiplyAgrees ==
  ASSUME NEW k \in Nat, NEW P \in OnCurve
  PROVE  Server!TrezorMultiply(k, CurvePoint(P)) = CurvePoint(Multiple(k, P))
<1> DEFINE next(R) == CHOOSE S \in Server!TrezorAdd(CurvePoint(P), R) : TRUE
           f == [i \in 0 .. k |-> CurvePoint(Multiple(i, P))]
           IsTimes(g) == g = [i \in 0 .. k |-> IF i = 0 THEN Server!AtInfinity ELSE next(g[i-1])]
           times == CHOOSE g : IsTimes(g)
<1>1. P \in Element
  BY InfiniteFacts
<1>2. ASSUME NEW i \in 1 .. k PROVE next(CurvePoint(Multiple(i-1, P))) = CurvePoint(Multiple(i, P))
  <2>1. i - 1 \in Nat /\ (i - 1) + 1 = i
    OBVIOUS
  <2> DEFINE M == Multiple(i-1, P)
  <2>2. M \in Element /\ AddPoints(M, P) = Multiple(i, P)
    <3>1. AddPoints(Multiple(i-1, P), P) = Multiple((i-1) + 1, P)
      BY <1>1, <2>1, MultipleFacts
    <3>2. QED
      BY <1>1, <2>1, <3>1, MultipleFacts
  <2> HIDE DEF M
  <2>3. AddPoints(P, M) = Multiple(i, P)
    BY <1>1, <2>2, AdditionCommutative
  <2>4. Server!TrezorAdd(CurvePoint(P), CurvePoint(M)) = {CurvePoint(Multiple(i, P))}
    BY <1>1, <2>2, <2>3, PointAddAgrees
  <2>5. next(CurvePoint(M)) = CurvePoint(Multiple(i, P))
    BY <2>4
  <2>6. QED
    BY <2>5 DEF M
<1>3. CurvePoint(Multiple(0, P)) = Server!AtInfinity
  BY <1>1, MultipleFacts, CurvePointFacts
<1>4. Server!TrezorMultiply(k, CurvePoint(P)) = times[k]
  BY DEF Server!TrezorMultiply
<1> HIDE DEF next
<1>5. IsTimes(f)
  <2>1. ASSUME NEW i \in 0 .. k
        PROVE  CurvePoint(Multiple(i, P)) = IF i = 0 THEN Server!AtInfinity ELSE next(f[i-1])
    <3>1. CASE i = 0
      BY <1>3, <3>1
    <3>2. CASE i # 0
      <4>1. i \in 1 .. k /\ i - 1 \in 0 .. k
        BY <3>2
      <4>2. f[i-1] = CurvePoint(Multiple(i-1, P))
        BY <4>1
      <4> HIDE DEF f
      <4>3. QED
        BY <1>2, <3>2, <4>1, <4>2
    <3>3. QED
      BY <3>1, <3>2
  <2>2. f = [i \in 0 .. k |-> IF i = 0 THEN Server!AtInfinity ELSE next(f[i-1])]
    BY <2>1
  <2> HIDE DEF f
  <2>3. QED
    BY <2>2
<1>6. IsTimes(times)
  <2> HIDE DEF f, IsTimes
  <2>1. QED
    BY <1>5
<1> HIDE DEF times, f
<1>7. \A i \in 0 .. k : times[i] = IF i = 0 THEN Server!AtInfinity ELSE next(times[i-1])
  BY <1>6
<1> DEFINE T == {j \in Nat : j <= k => times[j] = CurvePoint(Multiple(j, P))}
<1>8. 0 \in T
  BY <1>3, <1>7
<1>9. ASSUME NEW j \in T PROVE j + 1 \in T
  <2>1. SUFFICES ASSUME j + 1 <= k PROVE times[j+1] = CurvePoint(Multiple(j+1, P))
    OBVIOUS
  <2>2. j \in Nat /\ j <= k /\ j + 1 \in 1 .. k /\ (j + 1) - 1 = j
    BY <2>1
  <2>3. times[j] = CurvePoint(Multiple(j, P))
    BY <2>2
  <2>4. times[j+1] = next(times[j])
    BY <1>7, <2>2
  <2>5. next(CurvePoint(Multiple(j, P))) = CurvePoint(Multiple(j+1, P))
    BY <1>2, <2>2
  <2>6. QED
    BY <2>3, <2>4, <2>5
<1>10. T = Nat
  <2> HIDE DEF T
  <2>1. QED
    BY <1>8, <1>9, SetInduction DEF T
<1>11. times[k] = CurvePoint(Multiple(k, P))
  BY <1>10
<1>12. QED
  BY <1>4, <1>11
-----------------------------------------------------------------------------
(* Encodings.                                                              *)

\* The one root of the parity that the prefix names.
LEMMA DecodeAgrees ==
  ASSUME NEW P \in OnCurve
  PROVE  Server!DecodePoint(EncodeCompressedPoint(P)) = CurvePoint(P)
<1> DEFINE prefix == IF P.y % 2 = 1 THEN 3 ELSE 2
           rhs == (P.x * P.x * P.x + 7) % Field
           roots == { y \in 0 .. (Field-1) : (y * y) % Field = rhs /\ y % 2 = prefix % 2 }
<1>1. /\ P.x \in 0 .. (Field-1) /\ P.y \in 1 .. (Field-1) /\ P.x \in Int /\ P.y \in Int
      /\ ~P.infinity /\ P = Affine(P.x, P.y)
  BY PointFacts
<1>2. (P.y * P.y) % Field = rhs
  BY DEF OnCurve
<1>3. P.y % 2 = prefix % 2
  <2>1. P.y % 2 \in 0 .. 1
    BY <1>1, DivMod
  <2>2. 3 % 2 = 1 /\ 2 % 2 = 0
    OBVIOUS
  <2>3. QED
    BY <2>1, <2>2
<1>4. ASSUME NEW y \in roots PROVE y = P.y
  <2> DEFINE R == Affine(P.x, y)
  <2>1. y \in 0 .. (Field-1) /\ (y * y) % Field = rhs /\ y % 2 = P.y % 2
    BY <1>3
  <2>2. R \in OnCurve /\ R.x = P.x /\ R.y = y
    BY <1>1, <2>1 DEF OnCurve, Affine
  <2>3. R = P \/ (R.y + P.y) % Field = 0
    BY <2>2, SameX
  <2>4. CASE R = P
    BY <2>2, <2>4
  <2>5. CASE (y + P.y) % Field = 0
    <3>1. y + P.y = Field
      BY <1>1, <2>1, <2>5, SumIsField
    <3>2. y \in Int
      BY <2>1, FieldSize
    <3>3. (y % 2 = 1) <=> ~(P.y % 2 = 1)
      BY <1>1, <3>1, <3>2, ParityDiffers
    <3>4. QED
      BY <2>1, <3>3
  <2>6. QED
    BY <2>2, <2>3, <2>4, <2>5
<1>5. roots = {P.y}
  <2>1. P.y \in roots
    BY <1>1, <1>2, <1>3
  <2> HIDE DEF roots
  <2>2. QED
    BY <1>4, <2>1
<1>6. EncodeCompressedPoint(P) = <<prefix, P.x>> /\ prefix \in {2, 3}
  BY <1>1 DEF EncodeCompressedPoint
<1>7. Server!DecodePoint(<<prefix, P.x>>)
        = IF prefix \notin {2, 3} \/ P.x >= Field \/ roots = {}
          THEN Server!NoPoint
          ELSE [x |-> P.x, y |-> CHOOSE y \in roots : TRUE]
  BY DEF Server!DecodePoint
<1> HIDE DEF roots, prefix
<1>8. ~(P.x >= Field)
  BY <1>1, FieldSize
<1>9. QED
  BY <1>5, <1>6, <1>7, <1>8 DEF CurvePoint

\* Both sides encode a point as the same prefix and x.
LEMMA EncodeAgrees ==
  /\ \A P \in OnCurve : Server!EncodePoint(CurvePoint(P)) = EncodeCompressedPoint(P)
  /\ \A P \in Element : Server!Encoded(CurvePoint(P)) = EncodeCompressedPoint(P)
<1>1. ASSUME NEW P \in OnCurve
      PROVE  Server!EncodePoint(CurvePoint(P)) = EncodeCompressedPoint(P)
  BY PointFacts, CurvePointFacts DEF Server!EncodePoint, EncodeCompressedPoint
<1>2. ASSUME NEW P \in Element
      PROVE  Server!Encoded(CurvePoint(P)) = EncodeCompressedPoint(P)
  <2>1. CASE P = Infinite
    BY <2>1, CurvePointFacts, InfiniteFacts
    DEF Server!Encoded, Server!Nullopt, EncodeCompressedPoint, NoEncoding
  <2>2. CASE P \in OnCurve
    BY <1>1, <2>2, CurvePointFacts DEF Server!Encoded
  <2>3. QED
    BY <2>1, <2>2, InfiniteFacts
<1>3. QED
  BY <1>1, <1>2

\* The prefix, and that of the opposite point.
LEMMA PrefixFacts ==
  ASSUME NEW P \in OnCurve
  PROVE  /\ EncodeCompressedPoint(P) = <<IF P.y % 2 = 1 THEN 3 ELSE 2, P.x>>
         /\ EncodeCompressedPoint(P)[1] \in {2, 3} /\ EncodeCompressedPoint(P)[2] = P.x
         /\ EncodeCompressedPoint(P) # NoEncoding
         /\ EncodeCompressedPoint(NegatePoint(P))
              = <<5 - EncodeCompressedPoint(P)[1], P.x>>
<1>1. EncodeCompressedPoint(P) = <<IF P.y % 2 = 1 THEN 3 ELSE 2, P.x>>
  BY PointFacts DEF EncodeCompressedPoint
<1>2. NegatePoint(P) = Affine(P.x, Field - P.y)
  BY NegateFacts
<1>3. P.y \in Int /\ Field - P.y \in Int /\ P.y + (Field - P.y) = Field
  BY PointFacts, FieldSize
<1>4. (P.y % 2 = 1) <=> ~((Field - P.y) % 2 = 1)
  BY <1>3, ParityDiffers
<1>5. EncodeCompressedPoint(NegatePoint(P)) = <<IF (Field - P.y) % 2 = 1 THEN 3 ELSE 2, P.x>>
  BY <1>2 DEF EncodeCompressedPoint, Affine
<1>6. QED
  BY <1>1, <1>4, <1>5 DEF NoEncoding
-----------------------------------------------------------------------------
(* The wrappers of the server's CryptoOps.                                 *)

\* The wrappers of the server on encoded points.
LEMMA WrappersAgree ==
  ASSUME NEW P \in OnCurve, NEW Q \in OnCurve
  PROVE  /\ Server!PointAdd(EncodeCompressedPoint(P), EncodeCompressedPoint(Q))
              = {EncodeCompressedPoint(AddPoints(P, Q))}
         /\ Server!PointNegate(EncodeCompressedPoint(P)) = EncodeCompressedPoint(NegatePoint(P))
         /\ Server!GetXCoordinate(EncodeCompressedPoint(P)) = P.x
<1> DEFINE p == EncodeCompressedPoint(P)
           q == EncodeCompressedPoint(Q)
<1>1. Server!DecodePoint(p) = CurvePoint(P) /\ Server!DecodePoint(q) = CurvePoint(Q)
  BY DecodeAgrees
<1>2. CurvePoint(P) # Server!NoPoint /\ CurvePoint(Q) # Server!NoPoint
  BY CurvePointFacts
<1> HIDE DEF p, q
<1>3. Server!PointAdd(p, q) = {EncodeCompressedPoint(AddPoints(P, Q))}
  <2>1. P \in Element /\ Q \in Element /\ AddPoints(P, Q) \in Element
    BY InfiniteFacts, AdditionClosed
  <2>2. Server!TrezorAdd(CurvePoint(P), CurvePoint(Q)) = {CurvePoint(AddPoints(P, Q))}
    BY <2>1, PointAddAgrees
  <2>3. Server!PointAdd(p, q)
          = { Server!Encoded(R) : R \in {CurvePoint(AddPoints(P, Q))} }
    BY <1>1, <1>2, <2>2 DEF Server!PointAdd
  <2>4. Server!Encoded(CurvePoint(AddPoints(P, Q))) = EncodeCompressedPoint(AddPoints(P, Q))
    BY <2>1, EncodeAgrees
  <2>5. QED
    BY <2>3, <2>4
<1>4. Server!PointNegate(p) = EncodeCompressedPoint(NegatePoint(P))
  BY PrefixFacts DEF Server!PointNegate, p
<1>5. Server!GetXCoordinate(p) = P.x
  BY PrefixFacts DEF Server!GetXCoordinate, p
<1>6. QED
  BY <1>3, <1>4, <1>5 DEF p, q

\* ScalarMultiplyPoint and ScalarMultiplyG return the encoded multiple, on both sides.
LEMMA ScalarWrappersAgree ==
  ASSUME NEW k \in Scalars, NEW P \in OnCurve
  PROVE  /\ Server!ScalarMultiplyPoint(k, EncodeCompressedPoint(P))
              = EncodeCompressedPoint(Multiple(k, P))
         /\ Server!ScalarMultiplyG(k) = EncodeCompressedPoint(Multiple(k, Generator))
         /\ ScalarMultiplyPoint(k, EncodeCompressedPoint(P))
              = EncodeCompressedPoint(Multiple(k, P))
         /\ Multiple(k, P) \in OnCurve /\ Multiple(k, Generator) \in OnCurve
<1>1. k \in Nat /\ Server!IsValidScalar(k)
  BY OrderFacts DEF Scalars, Server!IsValidScalar
<1>2. Generator \in OnCurve /\ CurvePoint(Generator) = Server!Generator
  BY CurveAssumption DEF Generator, Affine, OnCurve, CurvePoint, Server!Generator
<1>3. ASSUME NEW Q \in OnCurve
      PROVE  /\ Server!EncodePoint(Server!TrezorMultiply(k, CurvePoint(Q)))
                  = EncodeCompressedPoint(Multiple(k, Q))
             /\ ScalarMultiply(k, Q) = Multiple(k, Q) /\ Multiple(k, Q) \in OnCurve
  BY <1>1, ScalarMultiplyFacts, MultiplyAgrees, EncodeAgrees
<1>4. Server!ScalarMultiplyG(k) = EncodeCompressedPoint(Multiple(k, Generator))
  BY <1>1, <1>2, <1>3 DEF Server!ScalarMultiplyG
<1>5. Server!ScalarMultiplyPoint(k, EncodeCompressedPoint(P))
        = EncodeCompressedPoint(Multiple(k, P))
  BY <1>1, <1>3, DecodeAgrees, CurvePointFacts DEF Server!ScalarMultiplyPoint
<1>6. ScalarMultiplyPoint(k, EncodeCompressedPoint(P)) = EncodeCompressedPoint(Multiple(k, P))
  BY <1>3, DecodeEncode DEF ScalarMultiplyPoint
<1>7. QED
  BY <1>2, <1>3, <1>4, <1>5, <1>6

\* On the points that the behaviours reach, scalar_multiply_point, point_add, point_negate
\* and get_x_coordinate of crypto_ops.cpp return what their namesakes in crypto_ops.ts
\* return, and an empty optional exactly where those find no encoding.  point_subtract is
\* not among them.
THEOREM LanguagesAgree == GroupSpec => []ServerPointsAgree
<1>1. GroupInv => ServerPointsAgree
  <2> DEFINE P == EncodeCompressedPoint(sum)
             Q == EncodeCompressedPoint(point)
  <2>1. SUFFICES ASSUME GroupInv
                 PROVE  /\ n \in Scalars => Server!ScalarMultiplyPoint(n, Q) = P
                        /\ ~sum.infinity =>
                             /\ Server!PointAdd(P, Q) = {PointAdd(P, Q)}
                             /\ Server!PointNegate(P) = PointNegate(P)
                             /\ Server!GetXCoordinate(P) = GetXCoordinate(P)
    BY DEF ServerPointsAgree
  <2>2. point \in OnCurve /\ sum \in Element /\ sum = Multiple(n, point)
    BY <2>1 DEF GroupInv, GroupType
  <2>3. n \in Scalars => Server!ScalarMultiplyPoint(n, Q) = P
    BY <2>2, ScalarWrappersAgree
  <2>4. ASSUME ~sum.infinity
        PROVE  /\ Server!PointAdd(P, Q) = {PointAdd(P, Q)}
               /\ Server!PointNegate(P) = PointNegate(P)
               /\ Server!GetXCoordinate(P) = GetXCoordinate(P)
    <3>1. sum \in OnCurve
      BY <2>2, <2>4, InfiniteFacts
    <3>2. DecodeCompressedPoint(P) = sum /\ DecodeCompressedPoint(Q) = point
      BY <2>2, <3>1, DecodeEncode
    <3>3. Server!PointAdd(P, Q) = {PointAdd(P, Q)}
      BY <2>2, <3>1, <3>2, WrappersAgree DEF PointAdd
    <3>4. Server!PointNegate(P) = PointNegate(P)
      BY <3>1, <3>2, WrappersAgree DEF PointNegate
    <3>5. Server!GetXCoordinate(P) = GetXCoordinate(P)
      BY <3>1, <3>2, WrappersAgree DEF GetXCoordinate
    <3>6. QED
      BY <3>3, <3>4, <3>5
  <2>5. QED
    BY <2>3, <2>4
<1>2. QED
  BY <1>1, GroupInvariant, PTL
-----------------------------------------------------------------------------
(* Indices of points.                                                      *)

\* Divisibility by Order.
LEMMA DividedByOrder ==
  ASSUME NEW w \in Int
  PROVE  w % Order = 0 <=> \E q \in Int : w = Order * q
<1>1. Order \in Nat /\ Order > 0
  BY OrderFacts
<1>2. ASSUME w % Order = 0 PROVE \E q \in Int : w = Order * q
  <2> DEFINE q == w \div Order
  <2>1. q \in Int /\ w = Order * q + (w % Order)
    BY <1>1, DivMod
  <2> HIDE DEF q
  <2>2. w = Order * q
    BY <1>1, <1>2, <2>1
  <2>3. QED
    BY <2>1, <2>2
<1>3. ASSUME NEW q \in Int, w = Order * q PROVE w % Order = 0
  <2>1. 0 \in 0 .. (Order-1)
    BY <1>1
  <2>2. (Order * q + 0) % Order = 0
    BY <1>1, <2>1, DivModUnique
  <2>3. Order * q + 0 = w
    BY <1>1, <1>3
  <2>4. QED
    BY <2>2, <2>3
<1>4. QED
  BY <1>2, <1>3

\* m is the remainder of w.
LEMMA IsRemainder ==
  ASSUME NEW w \in Int, NEW m \in 0 .. (Order-1)
  PROVE  m = w % Order <=> (w - m) % Order = 0
<1>1. Order \in Nat /\ Order > 0 /\ m \in Int
  BY OrderFacts
<1> DEFINE r == w % Order
           q == w \div Order
<1>2. q \in Int /\ w = Order * q + r /\ r \in 0 .. (Order-1)
  BY <1>1, DivMod
<1> HIDE DEF q
<1>3. ASSUME m = r PROVE (w - m) % Order = 0
  <2>1. w - m = Order * q /\ w - m \in Int
    <3> HIDE DEF r
    <3>1. QED
      BY <1>1, <1>2, <1>3
  <2>2. QED
    BY <1>2, <2>1, DividedByOrder
<1>4. ASSUME (w - m) % Order = 0 PROVE m = r
  <2>1. w - m \in Int
    BY <1>1
  <2>2. PICK k \in Int : w - m = Order * k
    BY <1>4, <2>1, DividedByOrder
  <2>3. (Order * k + m) % Order = m
    BY <1>1, DivModUnique
  <2>4. Order * k + m = w
    BY <1>1, <2>2
  <2>5. QED
    BY <2>3, <2>4
<1>5. QED
  BY <1>3, <1>4

\* The points of the group, by their index.
Nth(i) == Multiple(i, Generator)

\* The indices of the points add up and multiply.
LEMMA NthFacts ==
  /\ Generator \in OnCurve /\ \A i \in Nat : Nth(i) \in Element
  /\ \A i, j \in Nat : AddPoints(Nth(i), Nth(j)) = Nth(i + j)
  /\ \A i, j \in Nat : Multiple(i, Nth(j)) = Nth(i * j)
  /\ \A i \in Scalars : Nth(i) \in OnCurve
<1>1. Generator \in OnCurve
  BY CurveAssumption DEF Generator, Affine, OnCurve
<1>2. QED
  BY <1>1, InfiniteFacts, MultipleFacts, ScalarMultiplyFacts DEF Nth

\* No scalar takes a point to infinity, so that the indices of infinity are the
\* multiples of Order.
LEMMA NthInfinite ==
  ASSUME NEW i \in Nat
  PROVE  Nth(i) = Infinite <=> i % Order = 0
<1> DEFINE m == i % Order
           q == i \div Order
<1>1. Order \in Nat /\ Order > 0 /\ i \in Int
  BY OrderFacts
<1>2. m \in 0 .. (Order-1) /\ q \in Int /\ i = Order * q + m
  BY <1>1, DivMod
<1> HIDE DEF m, q
<1>3. q \in Nat
  <2>1. CASE q <= -1
    <3>1. Order * q <= -Order
      BY <1>1, <1>2, <2>1
    <3>2. QED
      BY <1>1, <1>2, <3>1
  <2>2. QED
    BY <1>2, <2>1
<1>4. Nth(Order) = Infinite
  BY NthFacts, OrderTimesPoint, InfiniteFacts DEF Nth
<1>5. Nth(Order * q) = Infinite
  <2>1. Multiple(q, Infinite) = Infinite
    BY <1>3, TransferAssumptions, Transfer!MultipleOfInfinity, SameOperators
  <2>2. Multiple(q, Nth(Order)) = Nth(q * Order) /\ q * Order = Order * q
    BY <1>1, <1>3, NthFacts
  <2>3. QED
    BY <1>4, <2>1, <2>2
<1>6. Nth(i) = Nth(m)
  <2>1. Order * q \in Nat /\ m \in Nat
    BY <1>1, <1>2, <1>3
  <2>2. AddPoints(Nth(Order * q), Nth(m)) = Nth(i)
    BY <1>2, <2>1, NthFacts
  <2>3. QED
    BY <1>5, <2>1, <2>2, NthFacts, AddInfinite
<1>7. CASE m = 0
  BY <1>6, <1>7, NthFacts, InfiniteFacts, MultipleFacts DEF Nth, m
<1>8. CASE m # 0
  <2>1. m \in Scalars
    BY <1>2, <1>8 DEF Scalars
  <2>2. QED
    BY <1>6, <1>8, <2>1, NthFacts, InfiniteFacts DEF m
<1>9. QED
  BY <1>7, <1>8

\* Order is prime: a scalar times a point is at infinity only if the point is.
LEMMA NthProduct ==
  ASSUME NEW k \in Scalars, NEW w \in Nat
  PROVE  Nth(k * w) = Infinite <=> w % Order = 0
<1>1. k \in Nat
  BY OrderFacts DEF Scalars
<1>2. Multiple(k, Nth(w)) = Nth(k * w)
  BY <1>1, NthFacts
<1>3. CASE Nth(w) = Infinite
  BY <1>1, <1>2, <1>3, NthInfinite, TransferAssumptions, Transfer!MultipleOfInfinity,
     SameOperators
<1>4. CASE Nth(w) \in OnCurve
  BY <1>2, <1>4, NthInfinite, ScalarMultiplyFacts, InfiniteFacts
<1>5. QED
  BY <1>3, <1>4, NthFacts, InfiniteFacts

\* Points have the same x if they are the same, or opposite.
LEMMA NthSameX ==
  ASSUME NEW i \in Nat, NEW j \in Nat, Nth(i) \in OnCurve, Nth(j) \in OnCurve
  PROVE  Nth(i).x = Nth(j).x <=>
           Nth(i + j) = Infinite \/ Nth(i + (Order-1) * j) = Infinite
<1>1. Order \in Nat /\ Order > 0 /\ (Order-1) * j \in Nat /\ Order - 1 \in Nat
  BY OrderFacts
<1> DEFINE R == Nth(i)
           S == Nth(j)
           c == (Order-1) * j
<1>2. Nth(i + j) = AddPoints(R, S) /\ Nth(i + c) = AddPoints(R, Nth(c))
  BY <1>1, NthFacts
<1>3. AddPoints(Nth(c), S) = Infinite /\ AddPoints(S, Nth(c)) = Infinite
  <2>1. c + j = Order * j /\ j + c = Order * j /\ c \in Nat
    BY <1>1
  <2>2. Order * j \in Nat /\ (Order * j) % Order = 0
    BY <1>1, DividedByOrder
  <2>3. Nth(Order * j) = Infinite
    BY <2>2, NthInfinite
  <2> HIDE DEF c
  <2>4. QED
    BY <2>1, <2>3, NthFacts
<1>4. R \in Element /\ S \in Element /\ Nth(c) \in Element
  BY <1>1, NthFacts
<1> HIDE DEF R, S, c
<1>5. AddPoints(R, Nth(c)) = Infinite <=> R = S
  <2>1. ASSUME R = S PROVE AddPoints(R, Nth(c)) = Infinite
    BY <1>3, <2>1
  <2>2. ASSUME AddPoints(R, Nth(c)) = Infinite PROVE R = S
    <3>1. AddPoints(AddPoints(R, Nth(c)), S) = AddPoints(R, AddPoints(Nth(c), S))
      BY <1>4, AdditionAssociative
    <3>2. QED
      BY <1>3, <1>4, <2>2, <3>1, AddInfinite
  <2>3. QED
    BY <2>1, <2>2
<1>6. AddPoints(R, S) = Infinite <=> Opposite(R, S)
  BY AddOfPoints, InfiniteFacts DEF R, S
<1>7. R.x = S.x <=> R = S \/ Opposite(R, S)
  BY SameX DEF Opposite, R, S
<1>8. QED
  BY <1>2, <1>5, <1>6, <1>7 DEF R, S, c

\* Alice subtracts her point.
LEMMA NthSubtract ==
  ASSUME NEW i \in Nat, NEW k \in Scalars
  PROVE  AddPoints(Nth(i), NegatePoint(Nth(k))) = Nth(i + (Order - k))
<1>1. k \in Transfer!Scalar /\ k \in Nat /\ Order - k \in Scalars /\ Order - k \in Nat
  BY OrderFacts DEF Scalars, Transfer!Scalar
<1>2. /\ NegatePoint(Transfer!MulG(k)) = Transfer!MulG(Order - k)
      /\ Order - k \in Transfer!Scalar
  BY <1>1, TransferAssumptions, Transfer!NegateMultiple
<1>3. Transfer!MulG(k) = Nth(k) /\ Transfer!MulG(Order - k) = Nth(Order - k)
  BY <1>1, <1>2, TransferAssumptions, Transfer!MulIsMultiple, SameOperators DEF Nth
<1>4. QED
  BY <1>1, <1>2, <1>3, NthFacts
-----------------------------------------------------------------------------
(* A transfer across the two languages.                                    *)

\* A multiple of Order more or less.
LEMMA ShiftByOrder ==
  ASSUME NEW w \in Int, NEW k \in Int
  PROVE  (w + Order * k) % Order = 0 <=> w % Order = 0
<1>1. Order \in Nat /\ Order > 0 /\ w + Order * k \in Int
  BY OrderFacts
<1>2. ASSUME NEW q \in Int, w = Order * q PROVE (w + Order * k) % Order = 0
  <2>1. w + Order * k = Order * (q + k) /\ q + k \in Int
    BY <1>1, <1>2
  <2>2. QED
    BY <1>1, <2>1, DividedByOrder
<1>3. ASSUME NEW q \in Int, w + Order * k = Order * q PROVE w % Order = 0
  <2>1. w = Order * (q - k) /\ q - k \in Int
    BY <1>1, <1>3
  <2>2. QED
    BY <2>1, DividedByOrder
<1>4. QED
  BY <1>1, <1>2, <1>3, DividedByOrder

\* When a multiple of the generator that a transfer meets is infinity.
LEMMA Indices ==
  ASSUME NEW a \in Scalars, NEW b \in Scalars
  PROVE  /\ (b + (Order - a)) % Order = 0 <=> b = a
         /\ (b + a) % Order = 0 <=> b = Order - a
         /\ (2 * b + (Order - a)) % Order = 0 <=> a = (2 * b) % Order
         /\ (2 * b + a) % Order = 0 <=> a = (-2 * b) % Order
         /\ ((Order - a) + Order * b) % Order # 0 /\ (a + Order * b) % Order # 0
<1>1. /\ Order \in Nat /\ Order > 0 /\ a \in 0 .. (Order-1) /\ a \in Int /\ a > 0 /\ a < Order
      /\ b \in Int /\ b \in 0 .. (Order-1) /\ Order - a \in 0 .. (Order-1) /\ Order - a \in Int
      /\ 1 \in Int /\ -1 \in Int
  BY OrderFacts DEF Scalars
<1>2. ASSUME NEW m \in 0 .. (Order-1) PROVE m % Order = m
  <2>1. (Order * 0 + m) % Order = m
    BY <1>1, DivModUnique
  <2>2. Order * 0 + m = m
    BY <1>1
  <2>3. QED
    BY <2>1, <2>2
<1>3. (b + (Order - a)) % Order = 0 <=> b = a
  <2>1. b + (Order - a) = (b - a) + Order * 1 /\ b - a \in Int
    BY <1>1
  <2>2. (b - a) % Order = 0 <=> a = b % Order
    BY <1>1, IsRemainder
  <2>3. ((b - a) + Order * 1) % Order = 0 <=> (b - a) % Order = 0
    BY <1>1, <2>1, ShiftByOrder
  <2>4. b % Order = b
    BY <1>1, <1>2
  <2>5. QED
    BY <2>1, <2>2, <2>3, <2>4
<1>4. (b + a) % Order = 0 <=> b = Order - a
  <2>1. b + a = (b - (Order - a)) + Order * 1 /\ b - (Order - a) \in Int
    BY <1>1
  <2>2. (b - (Order - a)) % Order = 0 <=> Order - a = b % Order
    BY <1>1, IsRemainder
  <2>3. ((b - (Order - a)) + Order * 1) % Order = 0 <=> (b - (Order - a)) % Order = 0
    BY <1>1, <2>1, ShiftByOrder
  <2>4. b % Order = b
    BY <1>1, <1>2
  <2>5. QED
    BY <2>1, <2>2, <2>3, <2>4
<1>5. (2 * b + (Order - a)) % Order = 0 <=> a = (2 * b) % Order
  <2>1. 2 * b + (Order - a) = (2 * b - a) + Order * 1 /\ 2 * b - a \in Int /\ 2 * b \in Int
    BY <1>1
  <2>2. (2 * b - a) % Order = 0 <=> a = (2 * b) % Order
    BY <1>1, <2>1, IsRemainder
  <2>3. ((2 * b - a) + Order * 1) % Order = 0 <=> (2 * b - a) % Order = 0
    BY <1>1, <2>1, ShiftByOrder
  <2>4. QED
    BY <2>1, <2>2, <2>3
<1>6. (2 * b + a) % Order = 0 <=> a = (-2 * b) % Order
  <2>1. -2 * b \in Int /\ 2 * b + a \in Int /\ -2 * b - a \in Int
    BY <1>1
  <2>2. (-2 * b - a) % Order = 0 <=> a = (-2 * b) % Order
    BY <1>1, <2>1, IsRemainder
  <2>3. ASSUME NEW q \in Int, 2 * b + a = Order * q PROVE (-2 * b - a) % Order = 0
    <3>1. -2 * b - a = Order * (-q) /\ -q \in Int
      BY <1>1, <2>3
    <3>2. QED
      BY <2>1, <3>1, DividedByOrder
  <2>4. ASSUME NEW q \in Int, -2 * b - a = Order * q PROVE (2 * b + a) % Order = 0
    <3>1. 2 * b + a = Order * (-q) /\ -q \in Int
      BY <1>1, <2>4
    <3>2. QED
      BY <2>1, <3>1, DividedByOrder
  <2>5. QED
    BY <2>1, <2>2, <2>3, <2>4, DividedByOrder
<1>7. ((Order - a) + Order * b) % Order # 0 /\ (a + Order * b) % Order # 0
  <2>1. (Order - a) % Order = Order - a /\ Order - a # 0
    BY <1>1, <1>2
  <2>2. a % Order = a /\ a # 0
    BY <1>1, <1>2
  <2>3. QED
    BY <1>1, <2>1, <2>2, ShiftByOrder
<1>8. QED
  BY <1>3, <1>4, <1>5, <1>6, <1>7

\* Their encodings.
EncodedNth(i) == EncodeCompressedPoint(Nth(i))

\* Alice's computations by index.
LEMMA EncodedFacts ==
  ASSUME NEW a \in Scalars
  PROVE  /\ EncodedNth(a) # NoEncoding
         /\ \A i \in Nat : EncodedNth(i) = NoEncoding <=> i % Order = 0
         /\ \A i \in Nat : Nth(i + Order) = Nth(i)
         /\ \A i \in Nat : i % Order # 0 =>
              /\ PointSubtract(EncodedNth(i), EncodedNth(a)) = EncodedNth(i + (Order - a))
              /\ GetXCoordinate(ScalarMultiplyPoint(a, EncodedNth(i))) = Nth(a * i).x
              /\ Nth(a * i) \in OnCurve
<1>1. a \in Nat /\ Nth(a) \in OnCurve /\ Order \in Nat
  BY OrderFacts, NthFacts DEF Scalars
<1>2. ASSUME NEW i \in Nat PROVE Nth(i) \in OnCurve <=> i % Order # 0
  BY NthFacts, NthInfinite, InfiniteFacts
<1>3. ASSUME NEW i \in Nat PROVE EncodedNth(i) = NoEncoding <=> i % Order = 0
  <2>1. CASE Nth(i) \in OnCurve
    BY <1>2, <2>1, PrefixFacts DEF EncodedNth
  <2>2. CASE Nth(i) = Infinite
    BY <2>2, NthInfinite, InfiniteFacts DEF EncodedNth, EncodeCompressedPoint
  <2>3. QED
    BY <2>1, <2>2, NthFacts, InfiniteFacts
<1>4. ASSUME NEW i \in Nat PROVE Nth(i + Order) = Nth(i)
  <2>1. Order % Order = 0
    BY OrderFacts
  <2>2. Nth(Order) = Infinite
    BY <1>1, <2>1, NthInfinite
  <2>3. AddPoints(Nth(i), Nth(Order)) = Nth(i + Order)
    BY <1>1, NthFacts
  <2>4. QED
    BY <2>2, <2>3, NthFacts, AddInfinite
<1>5. ASSUME NEW i \in Nat, i % Order # 0
      PROVE  /\ PointSubtract(EncodedNth(i), EncodedNth(a)) = EncodedNth(i + (Order - a))
             /\ GetXCoordinate(ScalarMultiplyPoint(a, EncodedNth(i))) = Nth(a * i).x
             /\ Nth(a * i) \in OnCurve
  <2>1. Nth(i) \in OnCurve
    BY <1>2, <1>5
  <2>2. PointSubtract(EncodedNth(i), EncodedNth(a)) = EncodedNth(i + (Order - a))
    BY <1>1, <2>1, DecodeEncode, NthSubtract DEF PointSubtract, EncodedNth
  <2>3. ScalarMultiplyPoint(a, EncodedNth(i)) = EncodeCompressedPoint(Multiple(a, Nth(i)))
        /\ Multiple(a, Nth(i)) \in OnCurve
    BY <2>1, ScalarWrappersAgree DEF EncodedNth
  <2>4. Multiple(a, Nth(i)) = Nth(a * i)
    BY <1>1, NthFacts
  <2>5. QED
    BY <2>2, <2>3, <2>4, DecodeEncode DEF GetXCoordinate
<1>6. EncodedNth(a) # NoEncoding
  BY <1>1, PrefixFacts DEF EncodedNth
<1>7. QED
  BY <1>3, <1>4, <1>5, <1>6

\* What Bob computes from Alice's point and his b.
LEMMA BobFacts ==
  ASSUME NEW a \in Scalars, NEW b \in Scalars
  PROVE  /\ Server!ProcessInit(0, b, EncodedNth(a)) = {EncodedNth(b)}
         /\ Server!ProcessInit(1, b, EncodedNth(a)) = {EncodedNth(b + a)}
         /\ Server!SharedX(b, EncodedNth(a)) = Nth(b * a).x /\ Nth(b * a) \in OnCurve
<1>1. a \in Nat /\ b \in Nat /\ Nth(a) \in OnCurve /\ Nth(b) \in OnCurve
  BY OrderFacts, NthFacts DEF Scalars
<1>2. /\ Server!ScalarMultiplyPoint(b, EncodedNth(a)) = EncodeCompressedPoint(Nth(b * a))
      /\ Nth(b * a) \in OnCurve
      /\ Server!ScalarMultiplyG(b) = EncodedNth(b)
  <2>1. Multiple(b, Nth(a)) = Nth(b * a)
    BY <1>1, NthFacts
  <2>2. QED
    BY <1>1, <2>1, ScalarWrappersAgree DEF EncodedNth, Nth
<1>3. Server!ScalarMultiplyPoint(b, EncodedNth(a)) # Server!Nullopt
  BY <1>2, PrefixFacts DEF NoEncoding, Server!Nullopt
<1>4. Server!PointAdd(EncodedNth(b), EncodedNth(a)) = {EncodedNth(b + a)}
  <2>1. AddPoints(Nth(b), Nth(a)) = Nth(b + a)
    BY <1>1, NthFacts
  <2>2. QED
    BY <1>1, <2>1, WrappersAgree DEF EncodedNth
<1>5. Server!SharedX(b, EncodedNth(a)) = Nth(b * a).x
  BY <1>2, WrappersAgree DEF Server!SharedX
<1>6. QED
  BY <1>2, <1>3, <1>4, <1>5 DEF Server!ProcessInit

\* Bob asks for the message of bit 0 ...
LEMMA KeysForBit0 ==
  ASSUME NEW a \in Scalars, NEW b \in Scalars
  PROVE  LET A == EncodedNth(a)
             B == EncodedNth(b)
             bobs == Nth(b * a).x
             keyM0 == GetXCoordinate(ScalarMultiplyPoint(a, B))
             keyM1 == GetXCoordinate(ScalarMultiplyPoint(a, PointSubtract(B, A)))
         IN  /\ B # NoEncoding
             /\ b = a <=> PointSubtract(B, A) = NoEncoding
             /\ b # a => keyM0 = bobs /\ (keyM1 = bobs <=> a = (2 * b) % Order)
<1> DEFINE c == b + (Order - a)
<1>1. a \in Nat /\ b \in Nat /\ Order \in Nat /\ Order - a \in Nat /\ c \in Nat /\ b * a = a * b
  BY OrderFacts DEF Scalars
<1>2. EncodedNth(b) # NoEncoding /\ b % Order # 0
  BY <1>1, EncodedFacts
<1>3. PointSubtract(EncodedNth(b), EncodedNth(a)) = EncodedNth(c)
  BY <1>1, <1>2, EncodedFacts
<1>4. EncodedNth(c) = NoEncoding <=> b = a
  BY <1>1, EncodedFacts, Indices
<1>5. GetXCoordinate(ScalarMultiplyPoint(a, EncodedNth(b))) = Nth(b * a).x
  BY <1>1, <1>2, EncodedFacts
<1>6. ASSUME b # a
      PROVE  GetXCoordinate(ScalarMultiplyPoint(a, EncodedNth(c))) = Nth(b * a).x
               <=> a = (2 * b) % Order
  <2>1. c % Order # 0
    BY <1>6, Indices
  <2>2. /\ GetXCoordinate(ScalarMultiplyPoint(a, EncodedNth(c))) = Nth(a * c).x
        /\ Nth(a * c) \in OnCurve
    BY <1>1, <2>1, EncodedFacts
  <2> DEFINE i == a * c
             j == b * a
  <2>3. i \in Nat /\ j \in Nat /\ Nth(j) \in OnCurve
    BY <1>1, BobFacts
  <2>4. i + j = a * (2 * b + (Order - a)) /\ i + (Order-1) * j = a * ((Order - a) + Order * b)
    BY <1>1
  <2>5. 2 * b + (Order - a) \in Nat /\ (Order - a) + Order * b \in Nat
    BY <1>1
  <2> HIDE DEF c, i, j
  <2>6. Nth(i).x = Nth(j).x <=> Nth(i + j) = Infinite \/ Nth(i + (Order-1) * j) = Infinite
    BY <2>2, <2>3, NthSameX DEF i
  <2>7. Nth(i + j) = Infinite <=> a = (2 * b) % Order
    BY <2>4, <2>5, NthProduct, Indices
  <2>8. Nth(i + (Order-1) * j) # Infinite
    BY <2>4, <2>5, NthProduct, Indices
  <2>9. QED
    BY <2>2, <2>6, <2>7, <2>8 DEF i, j
<1>7. QED
  BY <1>2, <1>3, <1>4, <1>5, <1>6

\* ... and of bit 1.
LEMMA KeysForBit1 ==
  ASSUME NEW a \in Scalars, NEW b \in Scalars
  PROVE  LET A == EncodedNth(a)
             B == EncodedNth(b + a)
             bobs == Nth(b * a).x
             keyM0 == GetXCoordinate(ScalarMultiplyPoint(a, B))
             keyM1 == GetXCoordinate(ScalarMultiplyPoint(a, PointSubtract(B, A)))
         IN  /\ b = Order - a <=> B = NoEncoding
             /\ b # Order - a =>
                  /\ PointSubtract(B, A) # NoEncoding
                  /\ keyM1 = bobs /\ (keyM0 = bobs <=> a = (-2 * b) % Order)
<1> DEFINE c == b + a
<1>1. a \in Nat /\ b \in Nat /\ Order \in Nat /\ Order - a \in Nat /\ c \in Nat /\ b * a = a * b
  BY OrderFacts DEF Scalars
<1>2. EncodedNth(b) # NoEncoding /\ b % Order # 0
  BY <1>1, EncodedFacts
<1>3. EncodedNth(c) = NoEncoding <=> b = Order - a
  BY <1>1, EncodedFacts, Indices
<1>4. SUFFICES ASSUME b # Order - a
               PROVE  /\ PointSubtract(EncodedNth(c), EncodedNth(a)) = EncodedNth(b)
                      /\ GetXCoordinate(ScalarMultiplyPoint(a, EncodedNth(b))) = Nth(b * a).x
                      /\ GetXCoordinate(ScalarMultiplyPoint(a, EncodedNth(c))) = Nth(b * a).x
                           <=> a = (-2 * b) % Order
  BY <1>2, <1>3
<1>5. c % Order # 0
  BY <1>4, Indices
<1>6. PointSubtract(EncodedNth(c), EncodedNth(a)) = EncodedNth(b)
  <2>1. PointSubtract(EncodedNth(c), EncodedNth(a)) = EncodedNth(c + (Order - a))
    BY <1>1, <1>5, EncodedFacts
  <2>2. c + (Order - a) = b + Order
    BY <1>1
  <2>3. Nth(b + Order) = Nth(b)
    BY <1>1, EncodedFacts
  <2>4. QED
    BY <2>1, <2>2, <2>3 DEF EncodedNth
<1>7. GetXCoordinate(ScalarMultiplyPoint(a, EncodedNth(b))) = Nth(b * a).x
  BY <1>1, <1>2, EncodedFacts
<1>8. /\ GetXCoordinate(ScalarMultiplyPoint(a, EncodedNth(c))) = Nth(a * c).x
      /\ Nth(a * c) \in OnCurve
  BY <1>1, <1>5, EncodedFacts
<1> DEFINE i == a * c
           j == b * a
<1>9. i \in Nat /\ j \in Nat /\ Nth(j) \in OnCurve
  BY <1>1, BobFacts
<1>10. i + j = a * (2 * b + a) /\ i + (Order-1) * j = a * (a + Order * b)
  BY <1>1
<1>11. 2 * b + a \in Nat /\ a + Order * b \in Nat
  BY <1>1
<1> HIDE DEF c, i, j
<1>12. Nth(i).x = Nth(j).x <=> Nth(i + j) = Infinite \/ Nth(i + (Order-1) * j) = Infinite
  BY <1>8, <1>9, NthSameX DEF i
<1>13. Nth(i + j) = Infinite <=> a = (-2 * b) % Order
  BY <1>10, <1>11, NthProduct, Indices
<1>14. Nth(i + (Order-1) * j) # Infinite
  BY <1>10, <1>11, NthProduct, Indices
<1>15. QED
  BY <1>6, <1>7, <1>8, <1>12, <1>13, <1>14 DEF i, j

\* A transfer between the client in TypeScript and the server in C++: the key of the chosen
\* message is the one that the server derived and the other is not, but for the collisions
\* of scalars that KeysAcrossLanguages names.
THEOREM KeysAgreeAcrossLanguages == GroupSpec => []KeysAcrossLanguages
<1>1. GroupInv => KeysAcrossLanguages
  <2>1. SUFFICES ASSUME GroupInv, point = Generator, n \in Scalars,
                        NEW b \in Scalars, NEW bit \in {0, 1},
                        NEW B \in Server!ProcessInit(bit, b, EncodeCompressedPoint(sum))
                 PROVE  LET A       == EncodeCompressedPoint(sum)
                            bobs    == Server!SharedX(b, A)
                            unusual == IF bit = 1 THEN b = Order - n ELSE b = n
                            keyM0   == GetXCoordinate(ScalarMultiplyPoint(n, B))
                            keyM1   == GetXCoordinate(ScalarMultiplyPoint(n, PointSubtract(B, A)))
                        IN  /\ unusual <=> (B = Server!Nullopt \/ PointSubtract(B, A) = NoEncoding)
                            /\ ~unusual =>
                                 IF bit = 0
                                 THEN keyM0 = bobs /\ (keyM1 = bobs <=> n = (2 * b) % Order)
                                 ELSE keyM1 = bobs /\ (keyM0 = bobs <=> n = (-2 * b) % Order)
    BY DEF KeysAcrossLanguages
  <2>2. EncodeCompressedPoint(sum) = EncodedNth(n)
    BY <2>1 DEF GroupInv, EncodedNth, Nth
  <2>3. Server!Nullopt = NoEncoding
    BY DEF Server!Nullopt, NoEncoding
  <2>4. Server!SharedX(b, EncodedNth(n)) = Nth(b * n).x
    BY <2>1, BobFacts
  <2>5. CASE bit = 0
    <3>1. B = EncodedNth(b)
      BY <2>1, <2>2, <2>5, BobFacts
    <3>2. QED
      BY <2>1, <2>2, <2>3, <2>4, <2>5, <3>1, KeysForBit0
  <2>6. CASE bit = 1
    <3>1. B = EncodedNth(b + n)
      BY <2>1, <2>2, <2>6, BobFacts
    <3>2. QED
      BY <2>1, <2>2, <2>3, <2>4, <2>6, <3>1, KeysForBit1
  <2>7. QED
    BY <2>5, <2>6
<1>2. QED
  BY <1>1, GroupInvariant, PTL
=============================================================================
