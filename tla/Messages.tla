----------------------------- MODULE Messages -----------------------------
(* One message of a generated class on its way: a program sets its fields    *)
(* through the accessors, writes it, and a reader parses the bytes into a    *)
(* message of a class it knows: the same one, one of another .proto, or the  *)
(* one createMessageV2 makes for the message's id (kabisrc/net/game/         *)
(* msg_api.cpp).  A second message may be written behind the first.          *)
EXTENDS Protobuf

CONSTANTS
    Kinds,          \* the classes that are tried as writer and reader
    Ints, Texts, Floats,    \* values of the fields
    MaxEdits,       \* bound: accessor calls
    MaxSends,       \* bound: messages written one behind the other
    NoClass

ASSUME MessageConstants ==
    /\ Kinds \subseteq Classes /\ NoClass \notin Classes
    /\ NotUtf8 \subseteq Texts
    /\ MaxEdits \in Nat /\ MaxSends \in Nat

VARIABLES
    kind,       \* the class of the writer's message
    msg,        \* that message
    wire,       \* the bytes written
    sent,       \* the messages written, merged into one
    sends, edits,
    registry,   \* registry2: the class of an id
    reader,     \* the class the bytes were read as, or NoClass
    byId,       \* and whether it was found by the id
    got         \* the message read, and whether it could be

msgVars == <<kind, msg, wire, sent, sends, edits, registry, reader, byId, got>>

-----------------------------------------------------------------------------
(* A program links GameMsg.pb.cc or message.pb.cc, not both: their extensions*)
(* of MessageOptions have the same number.                                   *)
ProtocolClasses == {"DisconnectNtf", "LoginReq", "LoginAck"}
LinkedWith(class) ==
    IF class \in ProtocolClasses THEN ProtocolClasses ELSE Classes \ ProtocolClasses

(* The option (MsgID) of a class, MSG_NONE if it has none.                   *)
MsgId(class) == CASE class = "SyncPid"       -> 1
                  [] class = "Talk"          -> 2
                  [] class = "Position"      -> 3
                  [] class = "BroadCast"     -> 200
                  [] class = "SyncPid_A"     -> 201
                  [] class = "SyncPlayers"   -> 202
                  [] class = "DisconnectNtf" -> 1000
                  [] class = "LoginReq"      -> 1001
                  [] class = "LoginAck"      -> 1002
                  [] OTHER                   -> 0

(* endsWith leaves out the first character of the suffix.                    *)
EndsWith(name, suffix) ==
    /\ Len(name) >= Len(suffix)
    /\ SubSeq(name, Len(name) - Len(suffix) + 2, Len(name))
         = SubSeq(suffix, 2, Len(suffix))
HasSuffix(name) == \E suffix \in {"Ntf", "Req", "Ack"} : EndsWith(name, suffix)

(* Of the names, those with a suffix have an id.                             *)
ASSUME NamedHaveIds == \A class \in Classes : HasSuffix(class) => MsgId(class) # 0

(* initProtoRegistryV2, and GameMsg::init_proto_registry, which does not ask *)
(* for the package.                                                          *)
BuiltRegistry(classes) ==
    LET named == {c \in classes : HasSuffix(c)}
    IN  [id \in {MsgId(c) : c \in named} |-> CHOOSE c \in named : MsgId(c) = id]

InitProtoRegistry ==
    /\ registry' = BuiltRegistry(LinkedWith(kind))
    /\ UNCHANGED <<kind, msg, wire, sent, sends, edits, reader, byId, got>>

(* createMessageV2: nullptr if the id is not registered.                     *)
CreateMessage(id) == IF id \in DOMAIN registry THEN registry[id] ELSE NoClass

-----------------------------------------------------------------------------
ValuesOf(type) ==
    CASE type = "string" -> Texts
      [] type = "float"  -> Floats
      [] OTHER           -> Ints

ClearField(class, m, n) ==
    [m EXCEPT !.val[n] = Default(class).val[n]]

(* The messages that one accessor call can make of m, in m or in a submessage*)
(* of it: set_, clear_ and release_, mutable_ and add_.                      *)
EditedWith(Sub(_, _), class, m) ==
    UNION {
        LET type == Fields[class][n]
            last == Len(m.val[n])
        IN  {ClearField(class, m, n)}
              \cup {Put(class, m, n, v) :
                      v \in IF ~IsMessage(type) THEN ValuesOf(type)
                            ELSE LET sub == Mutable(class, m, n)
                                 IN  {sub} \cup Sub(type, sub)}
              \cup IF ~Repeated(class, n) \/ m.val[n] = <<>> THEN {}
                   ELSE {[m EXCEPT !.val[n][last] = sub] :
                            sub \in Sub(type, m.val[n][last])}
        : n \in DOMAIN Fields[class]}
LeafEdited(class, m)  == EditedWith(LAMBDA type, v : {}, class, m)
InnerEdited(class, m) == EditedWith(LeafEdited, class, m)
Edited(class, m)      == EditedWith(InnerEdited, class, m)

MsgInit ==
    /\ kind \in Kinds
    /\ msg = Default(kind) /\ sent = Default(kind)
    /\ wire = <<>> /\ sends = 0 /\ edits = 0
    /\ registry = [id \in {} |-> NoClass]
    /\ reader = NoClass /\ byId = FALSE
    /\ got = [ok |-> FALSE, m |-> Default(kind)]

NotRead == reader' = NoClass /\ byId' = FALSE
           /\ got' = [ok |-> FALSE, m |-> Default(kind)]

Edit ==
    /\ edits < MaxEdits
    /\ msg' \in Edited(kind, msg) \ {msg}
    /\ edits' = edits + 1
    /\ UNCHANGED <<kind, wire, sent, sends, registry, reader, byId, got>>

Clear ==
    /\ msg' = Default(kind)
    /\ UNCHANGED <<kind, wire, sent, sends, edits, registry, reader, byId, got>>

(* SerializeToString, or AppendToString; sent.MergeFrom(msg).                *)
Send ==
    /\ sends < MaxSends
    /\ sends' = sends + 1
    /\ wire' = wire \o Serialize(kind, msg)
    /\ sent' = MergeFrom(kind, sent, msg)
    /\ NotRead
    /\ UNCHANGED <<kind, msg, edits, registry>>

ReadAs(class) ==
    /\ sends > 0
    /\ reader' = class
    /\ got' = ParseFromString(class, wire)
    /\ UNCHANGED <<kind, msg, wire, sent, sends, edits, registry>>

(* A peer's version of a class may lack fields, not give them other types,   *)
(* nor take them out of a oneof: an empty one would not be written again.    *)
Understands(class) ==
    \A n \in DOMAIN Fields[class] \cap DOMAIN Fields[kind] :
        Tags[class][n] = Tags[kind][n] =>
            /\ Fields[class][n] = Fields[kind][n]
            /\ Boxed(class, n) = Boxed(kind, n)

ReadByType ==
    \E class \in Kinds : Understands(class) /\ ReadAs(class) /\ byId' = FALSE

ReadById ==
    /\ CreateMessage(MsgId(kind)) # NoClass
    /\ ReadAs(CreateMessage(MsgId(kind)))
    /\ byId' = TRUE

MsgNext ==
    \/ InitProtoRegistry \/ Edit \/ Clear \/ Send
    \/ ReadByType \/ ReadById

MsgSpec == MsgInit /\ [][MsgNext]_msgVars

-----------------------------------------------------------------------------
(* A text that is not UTF-8 is among the fields.                             *)
HasBadTextWith(Sub(_), fields) ==
    \E i \in DOMAIN fields :
        /\ fields[i].tag % 8 = 2
        /\ IF "text" \in DOMAIN fields[i].v
           THEN ~IsUtf8(fields[i].v.text) ELSE Sub(fields[i].v.fields)
LeafHasBadText(fields)  == HasBadTextWith(LAMBDA w : FALSE, fields)
InnerHasBadText(fields) == HasBadTextWith(LeafHasBadText, fields)
HasBadText(fields)      == HasBadTextWith(InnerHasBadText, fields)

(* Reading what was written gives the message that was written, or, of two   *)
(* messages, what MergeFrom makes of them, whether the reader knew the class *)
(* or found it by its id; reading fails only for a text that is not UTF-8,   *)
(* which writing does not refuse.                                            *)
ReadIsWritten ==
    reader # NoClass /\ (byId \/ reader = kind) =>
        /\ got.ok <=> ~HasBadText(wire)
        /\ got.ok => reader = kind /\ got.m = sent

(* The size SerializeToString asks for is the size of what it writes: one    *)
(* byte less and the last field would be written behind the buffer.          *)
SizeIsExact == ByteSize(kind, msg) = WireSize(Serialize(kind, msg))

(* A reader that does not know all fields, and writes the message again,     *)
(* loses nothing: the bytes still read as what was sent, also if two messages*)
(* were, of which the second has another member of a oneof.                  *)
UnknownSurvives ==
    got.ok =>
        LET again == ParseFromString(kind, Serialize(reader, got.m))
        IN  /\ again.ok <=> ~HasBadText(wire)
            /\ again.ok => again.m = sent
=============================================================================
