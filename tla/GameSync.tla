------------------------------ MODULE GameSync ------------------------------
(* A game client and its server: the client's roles live in its AOIWorld,    *)
(* write their request from it (GameRole::create_id_name_login and           *)
(* create_srd_players), the stub serialises it, rpcDispatcher finds the      *)
(* service and calls it, and the client reads the answer.  The connection    *)
(* carries each message once and whole; what it does else is RpcCall's and   *)
(* ServerConnection's.  Messages are those of Protobuf.                      *)
EXTENDS AoiWorld, Protobuf, TLC

CONSTANTS
    Id,         \* [Roles -> Int]: m_id, the fd of the channel's client
    Name,       \* [Roles -> STRING]: m_username
    Goods,      \* the texts an order may be for
    OtherNames, \* method names a peer may send that no stub sends
    MaxServices \* bound: services registered

ASSUME RoleNames ==
    DOMAIN Id = Roles /\ DOMAIN Name = Roles /\ MaxServices \in Nat

VARIABLES
    services,   \* m_service_map, with what is registered under each name
    stage,      \* "idle", then where the one call is
    call,       \* the method name and the request, as a message and as bytes
    served,     \* what the service was called with, and what it answered
    reply,      \* m_err_code and m_pb_data of the answer
    outcome,    \* the controller's error code and the response
    serverUp

callVars == <<services, stage, call, served, reply, outcome, serverUp>>
vars     == <<worldVars, callVars>>

Services == {"Login", "SyncSrdPlayer", "Order"}
Method   == [Login         |-> "makeLogin",
             SyncSrdPlayer |-> "makeSrdPlayer",
             Order         |-> "makeOrder"]
RequestOf  == [Login         |-> "SyncPid",
               SyncSrdPlayer |-> "SyncPlayers",
               Order         |-> "makeOrderRequest"]
ResponseOf == [Login         |-> "SyncPidResponse",
               SyncSrdPlayer |-> "SyncPlayersResponse",
               Order         |-> "makeOrderResponse"]

(* The other names are names, and none of them is that of one of these       *)
(* methods; what the test's service answers is in ASCII.                     *)
OrderId == "2024"
ResInfo == "short balance"
ASSUME NamesDiffer ==
    /\ OtherNames \subseteq Seq(STRING)
    /\ \A s \in Services : <<s, Method[s]>> \notin OtherNames
    /\ {OrderId, ResInfo} \cap NotUtf8 = {}

None == [class |-> "none"]

Init ==
    /\ WorldInit
    /\ services = [s \in {} |-> ""]
    /\ stage = "idle" /\ serverUp = TRUE
    /\ call = None /\ served = <<>> /\ reply = None /\ outcome = None

-----------------------------------------------------------------------------
(* register_service, with a class that implements the method or not: a later *)
(* service of the same name replaces the earlier.                            *)
RegisterService(s, kind) ==
    /\ stage = "idle"
    /\ s \in DOMAIN services \/ Cardinality(DOMAIN services) < MaxServices
    /\ services' = [t \in DOMAIN services \cup {s} |->
                        IF t = s THEN kind ELSE services[t]]
    /\ UNCHANGED <<worldVars, stage, call, served, reply, outcome, serverUp>>

(* A number as a float.                                                      *)
Float(i) == ToString(i)

(* create_id_name_login                                                      *)
LoginRequest(r) ==
    Put("SyncPid", Put("SyncPid", Default("SyncPid"), 1, Id[r]), 2, Name[r])

(* create_srd_players: one Player for each role in the list.                 *)
PlayerOf(r) ==
    LET at(n, v, p) == Put("Position", p, n, Float(v))
        p == at(2, pos[r].y, at(1, pos[r].x, Mutable("Player", Default("Player"), 2)))
    IN  Put("Player", Put("Player", Default("Player"), 1, Id[r]),
            2, at(4, 0, at(3, 0, p)))
SyncRequest(r) ==
    LET players == SrdPlayers(r)
    IN  [Default("SyncPlayers") EXCEPT !.val[1] =
            [i \in DOMAIN players |-> PlayerOf(players[i].role)]]

(* CallMethod: the request as bytes, under the method's full name.           *)
CallMethod(name, class, response, request) ==
    /\ stage' = "sent"
    /\ call' = [name |-> name, class |-> class, response |-> response,
                request |-> request, bytes |-> Serialize(class, request)]
    /\ UNCHANGED <<services, served, reply, outcome, serverUp>>

CallService(s, request) ==
    CallMethod(<<s, Method[s]>>, RequestOf[s], ResponseOf[s], request)

CallLogin(r) ==
    /\ stage = "idle" /\ Usable(r)
    /\ CallService("Login", LoginRequest(r))
    /\ UNCHANGED worldVars

CallSync(r) ==
    /\ stage = "idle"
    /\ CreateSrdPlayers(r)
    /\ IF corrupt' THEN UNCHANGED callVars
       ELSE CallService("SyncSrdPlayer", SyncRequest(r))

(* Calls that do not depend on the world are tried while it is empty.        *)
CallOrder ==
    /\ stage = "idle" /\ made = {}
    /\ \E price \in {9, 100}, goods \in Goods :
         CallService("Order", Put("makeOrderRequest",
             Put("makeOrderRequest", Default("makeOrderRequest"), 1, price), 2, goods))
    /\ UNCHANGED worldVars

(* A peer that was built with other services: a name without a ".", with a   *)
(* package, or of a method that this server's service does not have.         *)
CallOther ==
    /\ stage = "idle" /\ made = {}
    /\ \E name \in OtherNames :
         CallMethod(name, "SyncPid", "SyncPidResponse", Default("SyncPid"))
    /\ UNCHANGED worldVars

-----------------------------------------------------------------------------
(* parse_service_full_name takes what is before the first "." as the service,*)
(* so that one of a package is never found; a name is the sequence of parts. *)
ServiceName(name) == Head(name)
MethodName(name)  == Tail(name)

ParseError       == "ERROR_PARSE_SERVICE_NAME"
ServiceNotFound  == "ERROR_SERVICE_NOT_FOUND"
MethodNotFound   == "ERROR_METHOD_NOT_FOUND"
DeserializeError == "ERROR_FAILED_DESERIALIZE"

Answered(err, bytes) ==
    /\ stage' = "replied"
    /\ reply' = [class |-> "reply", err |-> err, bytes |-> bytes]
    /\ UNCHANGED serverUp

SetTinyPBError(err) == Answered(err, <<>>) /\ UNCHANGED served

(* The service's method: those of the tests set state, and refuse an order of*)
(* less than 10 or give it an id.  One that is not implemented runs done,    *)
(* which is NULL.                                                            *)
Responses(s, request) ==
    LET class == ResponseOf[s]
    IN  IF s # "Order"
        THEN {Put(class, Default(class), 3, state) : state \in {0, 1}}
        ELSE IF request.val[1] < 10
        THEN {Put(class, Put(class, Default(class), 1, -1), 2, ResInfo)}
        ELSE {Put(class, Default(class), 3, OrderId)}

ServiceCall(s, request) ==
    IF services[s] = "implemented"
    THEN \E response \in Responses(s, request) :
           /\ served' = Append(served, [service |-> s, request |-> request,
                                        response |-> response])
           /\ Answered("none", Serialize(ResponseOf[s], response))
    ELSE /\ serverUp' = FALSE /\ stage' = "lost"
         /\ UNCHANGED <<served, reply>>

DispatchUnchecked(name, bytes) ==
    IF Len(name) < 2 THEN SetTinyPBError(ParseError)
    ELSE LET s == ServiceName(name)
         IN  IF s \notin DOMAIN services THEN SetTinyPBError(ServiceNotFound)
             ELSE IF MethodName(name) # <<Method[s]>>
             THEN SetTinyPBError(MethodNotFound)
             ELSE ServiceCall(s, ParseFromString(RequestOf[s], bytes).m)

(* rpcDispatcher::dispatch                                                   *)
Dispatch(name, bytes) ==
    IF Len(name) < 2 THEN SetTinyPBError(ParseError)
    ELSE LET s == ServiceName(name)
         IN  IF s \notin DOMAIN services THEN SetTinyPBError(ServiceNotFound)
             ELSE IF MethodName(name) # <<Method[s]>>
             THEN SetTinyPBError(MethodNotFound)
             ELSE LET read == ParseFromString(RequestOf[s], bytes)
                  IN  IF read.ok THEN ServiceCall(s, read.m)
                      ELSE SetTinyPBError(DeserializeError)

Serve ==
    /\ stage = "sent" /\ serverUp
    /\ Dispatch(call.name, call.bytes)
    /\ UNCHANGED <<worldVars, services, call, outcome>>

(* The read_msg callback of CallMethod: the response is parsed first.        *)
GetReply ==
    /\ stage = "replied"
    /\ stage' = "idle"
    /\ LET read == ParseFromString(call.response, reply.bytes)
       IN  outcome' = [class    |-> "outcome",
                       err      |-> IF read.ok THEN reply.err
                                    ELSE "ERROR_FAILED_SERIALIZE",
                       response |-> read.m]
    /\ UNCHANGED <<worldVars, services, call, served, reply, serverUp>>

(* The client's thread is in its loop while the call is under way.           *)
World == stage = "idle" /\ outcome = None /\ WorldNext /\ UNCHANGED callVars

Next ==
    \/ World
    \/ outcome = None /\ \/ \E s \in Services : \E kind \in {"implemented", "stub"} :
                              RegisterService(s, kind)
                         \/ \E r \in Roles : CallLogin(r) \/ CallSync(r)
                         \/ CallOrder \/ CallOther
    \/ Serve \/ GetReply

Spec == Init /\ [][Next]_vars

-----------------------------------------------------------------------------
(* What error_code.h says of the four errors of dispatch, of the call that   *)
(* was made: "service name 解析失败", "service 不存在", "method 不存在" and         *)
(* "反序列化失败" (error_code.h:10, 18-20).                                      *)
Refused(err) ==
    \/ err = ParseError /\ Len(call.name) < 2
    \/ /\ err = ServiceNotFound
       /\ Len(call.name) >= 2 /\ call.name[1] \notin DOMAIN services
    \/ /\ err = MethodNotFound
       /\ Len(call.name) >= 2 /\ call.name[1] \in DOMAIN services
       /\ call.name # <<call.name[1], Method[call.name[1]]>>
    \/ /\ err = DeserializeError
       /\ \E s \in DOMAIN services : call.name = <<s, Method[s]>>
       /\ ~ParseFromString(call.class, call.bytes).ok

(* A call ends without error if and only if a service was called, with the   *)
(* request the client built and no other, and the client has the response    *)
(* this service gave; and with an error if and only if none was called, and  *)
(* then the error is the one that says why: the name has no method, its      *)
(* service is not registered, the method is not the service's, or the        *)
(* request holds a text that is not UTF-8, which no service may be shown.    *)
(* The client's own parse of the empty response does not cover it up.        *)
RepliesAnswerTheCall ==
    outcome # None =>
        IF outcome.err = "none"
        THEN /\ Len(served) = 1
             /\ call.name = <<served[1].service, Method[served[1].service]>>
             /\ served[1].request = call.request
             /\ ParseFromString(call.class, call.bytes).ok
             /\ served[1].response = outcome.response
        ELSE /\ served = <<>>
             /\ outcome.response = Default(call.response)
             /\ Refused(outcome.err)
=============================================================================
