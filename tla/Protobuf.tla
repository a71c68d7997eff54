----------------------------- MODULE Protobuf -----------------------------
(* The generated message classes of GameMsg.proto, message.proto and         *)
(* order.proto: their fields, the bytes they are written to and read from,   *)
(* their sizes and merges.  The generated code of a class is one expansion   *)
(* of its fields, so a class is two tables, the types of the fields 1, 2, ...*)
(* its accessors keep and the tags its parser takes, and the operators below *)
(* are the statements generated for a field of each type.  Memory and arenas *)
(* are left out; a text is a string of one byte per character.               *)
EXTENDS Integers, Sequences, SequencesExt

(* GameMsg.proto                                                             *)
SyncPidFields             == <<"int32", "string">>
SyncPidTags               == <<8, 18>>
SyncPidResponseFields     == <<"int32", "string", "enum">>
SyncPidResponseTags       == <<8, 18, 24>>
TalkFields                == <<"string">>
TalkTags                  == <<10>>
PositionFields            == <<"float", "float", "float", "float">>
PositionTags              == <<13, 21, 29, 37>>
BroadCastFields           == <<"int32", "int32", "string", "Position", "int32">>
BroadCastTags             == <<8, 16, 26, 34, 40>>
SyncPid_AFields           == <<"int32", "string">>
SyncPid_ATags             == <<8, 18>>
SyncPlayersFields         == <<"Player">>
SyncPlayersTags           == <<10>>
SyncPlayersResponseFields == <<"int32", "string", "enum">>
SyncPlayersResponseTags   == <<8, 18, 24>>
PlayerFields              == <<"int32", "Position">>
PlayerTags                == <<8, 18>>

(* message.proto                                                             *)
DisconnectNtfFields == <<"int32", "string">>
DisconnectNtfTags   == <<8, 18>>
LoginReqFields      == <<"string", "string", "int64", "string", "string",
                         "string", "string">>
LoginReqTags        == <<10, 18, 24, 34, 42, 50, 58>>
LoginAckFields      == <<"int32", "string", "int32">>
LoginAckTags        == <<8, 18, 24>>

(* order.proto                                                               *)
MakeOrderRequestFields  == <<"int32", "string">>
MakeOrderRequestTags    == <<8, 18>>
MakeOrderResponseFields == <<"int32", "string", "string">>
MakeOrderResponseTags   == <<8, 18, 26>>

Fields == [
    SyncPid             |-> SyncPidFields,
    SyncPidResponse     |-> SyncPidResponseFields,
    Talk                |-> TalkFields,
    Position            |-> PositionFields,
    BroadCast           |-> BroadCastFields,
    SyncPid_A           |-> SyncPid_AFields,
    SyncPlayers         |-> SyncPlayersFields,
    SyncPlayersResponse |-> SyncPlayersResponseFields,
    Player              |-> PlayerFields,
    DisconnectNtf       |-> DisconnectNtfFields,
    LoginReq            |-> LoginReqFields,
    LoginAck            |-> LoginAckFields,
    makeOrderRequest    |-> MakeOrderRequestFields,
    makeOrderResponse   |-> MakeOrderResponseFields]

Tags == [
    SyncPid             |-> SyncPidTags,
    SyncPidResponse     |-> SyncPidResponseTags,
    Talk                |-> TalkTags,
    Position            |-> PositionTags,
    BroadCast           |-> BroadCastTags,
    SyncPid_A           |-> SyncPid_ATags,
    SyncPlayers         |-> SyncPlayersTags,
    SyncPlayersResponse |-> SyncPlayersResponseTags,
    Player              |-> PlayerTags,
    DisconnectNtf       |-> DisconnectNtfTags,
    LoginReq            |-> LoginReqTags,
    LoginAck            |-> LoginAckTags,
    makeOrderRequest    |-> MakeOrderRequestTags,
    makeOrderResponse   |-> MakeOrderResponseTags]

Classes == DOMAIN Fields

-----------------------------------------------------------------------------
(* A message holds a value for each field, and the fields it read but does   *)
(* not know.  A submessage, a repeated field and a member of a oneof is the  *)
(* sequence of what is there; any other field is never absent.               *)
Repeated(class, n) == class = "SyncPlayers"
OneofData(class)   == IF class = "BroadCast" THEN {3, 4, 5} ELSE {}
IsMessage(type)    == type \in Classes
Boxed(class, n)    == IsMessage(Fields[class][n]) \/ n \in OneofData(class)

Zero(type) == IF type = "string" THEN ""
              ELSE IF type = "float" THEN "0" ELSE 0

Default(class) ==
    [val     |-> [n \in DOMAIN Fields[class] |->
                    IF Boxed(class, n) THEN <<>> ELSE Zero(Fields[class][n])],
     unknown |-> <<>>]

(* The values of a field that are written and merged: proto3 leaves out a    *)
(* zero, an empty text and a float whose bits are all 0 (which those of -0   *)
(* are not), but no member of a oneof that is set.                           *)
Values(class, m, n) ==
    IF Boxed(class, n) THEN m.val[n]
    ELSE IF m.val[n] = Zero(Fields[class][n]) THEN <<>> ELSE <<m.val[n]>>
IsPresent(class, m, n) == Values(class, m, n) # <<>>

(* A member of the oneof replaces the others: clear_Data.                    *)
ClearedOthers(class, m, n) ==
    [k \in DOMAIN m.val |->
        IF n \in OneofData(class) /\ k \in OneofData(class) THEN <<>>
        ELSE m.val[k]]

(* set_<field>, or add_<field> and its value.                                *)
Put(class, m, n, v) ==
    [m EXCEPT !.val =
        [ClearedOthers(class, m, n) EXCEPT ![n] =
            IF Repeated(class, n) THEN Append(@, v)
            ELSE IF Boxed(class, n) THEN <<v>> ELSE v]]

(* _internal_mutable_<field> of a submessage: the one there is, or a new one.*)
Mutable(class, m, n) ==
    IF m.val[n] = <<>> \/ Repeated(class, n) THEN Default(Fields[class][n])
    ELSE m.val[n][1]

-----------------------------------------------------------------------------
(* Bytes of a value on the wire: a varint takes 7 bits a byte, and a negative*)
(* int32 is extended to 64 bits.                                             *)
VarintSize(v) == CHOOSE b \in 1 .. 5 : v < 128 ^ b /\ (b > 1 => v >= 128 ^ (b - 1))
Int32Size(v)  == IF v < 0 THEN 10 ELSE VarintSize(v)
LengthDelimitedSize(len) == VarintSize(len) + len

ScalarSizeUnsigned(type, v) ==   \* mutant: UInt32SizePlusOne for an int32
    IF type = "string" THEN LengthDelimitedSize(Len(v))
    ELSE IF type = "float" THEN 4 ELSE IF v < 0 THEN 5 ELSE VarintSize(v)
ScalarSize(type, v) ==
    IF type = "string" THEN LengthDelimitedSize(Len(v))
    ELSE IF type = "float" THEN 4 ELSE Int32Size(v)

Sum(sizes) == FoldLeft(LAMBDA a, b : a + b, 0, sizes)

(* The code of a class calls that of the classes of its submessages.  These  *)
(* calls go two levels down at most: a SyncPlayers holds Players, a Player   *)
(* and a BroadCast hold a Position, and a Position holds no message.  What   *)
(* is called is the parameter of an operator; Leaf... is the code of classes *)
(* that hold no message, Inner... of those that hold these.                  *)

(* A field on the wire: its tag and what follows, a value, a text, or the    *)
(* fields of a submessage behind the size that ByteSizeLong cached.          *)
WireSizesWith(Sub(_), wire) ==
    [i \in DOMAIN wire |->
        LET tag == wire[i].tag
            v   == wire[i].v
        IN  1 + CASE tag % 8 = 0 -> Int32Size(v)
                  [] tag % 8 = 5 -> 4
                  [] tag % 8 = 2 ->
                       IF "text" \in DOMAIN v THEN LengthDelimitedSize(Len(v.text))
                       ELSE VarintSize(v.size) + Sum(Sub(v.fields))]
LeafWireSizes(wire)  == WireSizesWith(LAMBDA w : <<>>, wire)
InnerWireSizes(wire) == WireSizesWith(LeafWireSizes, wire)
WireSizes(wire)      == WireSizesWith(InnerWireSizes, wire)
WireSize(wire)       == Sum(WireSizes(wire))

(* ByteSizeLong: what each value takes, and the unknown fields.              *)
ByteSizeWith(Sub(_, _), class, m) ==
    LET Size(type, v) == IF IsMessage(type) THEN LengthDelimitedSize(Sub(type, v))
                         ELSE ScalarSize(type, v)
        Sizes(n) == [i \in DOMAIN Values(class, m, n) |->
                        1 + Size(Fields[class][n], Values(class, m, n)[i])]
    IN  Sum(FlattenSeq([n \in DOMAIN Fields[class] |-> Sizes(n)])
              \o WireSizes(m.unknown))
LeafByteSize(class, m)  == ByteSizeWith(LAMBDA type, v : 0, class, m)
InnerByteSize(class, m) == ByteSizeWith(LeafByteSize, class, m)
ByteSize(class, m)      == ByteSizeWith(InnerByteSize, class, m)

(* _InternalSerialize: the fields in the order of their numbers.             *)
SerializeWith(Size(_, _), Sub(_, _), class, m) ==
    LET Payload(type, v) ==
            IF IsMessage(type) THEN [size |-> Size(type, v), fields |-> Sub(type, v)]
            ELSE IF type = "string" THEN [text |-> v] ELSE v
        Written(n) == [i \in DOMAIN Values(class, m, n) |->
                         [tag |-> Tags[class][n],
                          v   |-> Payload(Fields[class][n], Values(class, m, n)[i])]]
    IN  FlattenSeq([n \in DOMAIN Fields[class] |-> Written(n)]) \o m.unknown
LeafSerialize(class, m) ==
    SerializeWith(LAMBDA type, v : 0, LAMBDA type, v : <<>>, class, m)
InnerSerialize(class, m) == SerializeWith(LeafByteSize, LeafSerialize, class, m)
Serialize(class, m)      == SerializeWith(InnerByteSize, InnerSerialize, class, m)

-----------------------------------------------------------------------------
(* VerifyUtf8String: reading a text that is not UTF-8 fails; writing it only logs. *)
CONSTANT NotUtf8
IsUtf8(text) == text \notin NotUtf8

(* A tag that none of the cases takes is kept as unknown.                    *)
DroppedUnknown(m, field) == m
KeptUnknown(m, field) == [m EXCEPT !.unknown = Append(@, field)]

(* One field is read into st, sub being what the class of a submessage makes *)
(* of its bytes.  The first failure ends the reading.                        *)
ReadField(class, st, field, sub) ==
    LET n    == field.tag \div 8
        type == Fields[class][n]
    IN  IF ~st.ok THEN st
        ELSE IF field.tag \notin Range(Tags[class])
        THEN [st EXCEPT !.m = KeptUnknown(@, field)]
        ELSE IF IsMessage(type)
        THEN [ok |-> sub.ok, m |-> Put(class, st.m, n, sub.m)]
        ELSE IF type = "string"
        THEN [ok |-> IsUtf8(field.v.text), m |-> Put(class, st.m, n, field.v.text)]
        ELSE [ok |-> TRUE, m |-> Put(class, st.m, n, field.v)]

(* _InternalParse, on top of what m holds: read[i] is what the first i fields*)
(* of the wire make of it.                                                   *)
ParseWith(Sub(_, _, _), class, m, wire) ==
    LET OfSub(st, field) ==
            LET n == field.tag \div 8
            IN  Sub(Fields[class][n], Mutable(class, st.m, n), field.v.fields)
        read[i \in 0 .. Len(wire)] ==
            IF i = 0 THEN [ok |-> TRUE, m |-> m]
            ELSE ReadField(class, read[i - 1], wire[i], OfSub(read[i - 1], wire[i]))
    IN  read[Len(wire)]
LeafParse(class, m, wire) ==
    ParseWith(LAMBDA type, s, w : [ok |-> FALSE, m |-> s], class, m, wire)
InnerParse(class, m, wire) == ParseWith(LeafParse, class, m, wire)
ParseInto(class, m, wire)  == ParseWith(InnerParse, class, m, wire)

(* ParseFromString clears the message first.                                 *)
ParseFromString(class, wire) == ParseInto(class, Default(class), wire)

(* MergeFrom: what is present in from is set in to, a member of the oneof in *)
(* place of the others; submessages are merged, repeated fields appended.    *)
MergeWith(Sub(_, _, _), class, to, from) ==
    LET Merged(n) ==
            IF ~IsPresent(class, from, n)
            THEN IF n \in OneofData(class)
                    /\ \E k \in OneofData(class) : IsPresent(class, from, k)
                 THEN <<>> ELSE to.val[n]
            ELSE IF Repeated(class, n) THEN to.val[n] \o from.val[n]
            ELSE IF IsMessage(Fields[class][n])
            THEN <<Sub(Fields[class][n], Mutable(class, to, n), from.val[n][1])>>
            ELSE from.val[n]
    IN  [val     |-> [n \in DOMAIN Fields[class] |-> Merged(n)],
         unknown |-> to.unknown \o from.unknown]
LeafMerge(class, to, from)  == MergeWith(LAMBDA type, s, t : s, class, to, from)
InnerMerge(class, to, from) == MergeWith(LeafMerge, class, to, from)
MergeReplacing(class, to, from) == MergeWith(LAMBDA type, s, t : t, class, to, from)
MergeFrom(class, to, from)  == MergeWith(InnerMerge, class, to, from)
=============================================================================
