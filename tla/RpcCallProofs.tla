--------------------------- MODULE RpcCallProofs ---------------------------
(* Proofs about RpcCall for any finite set of calls on a channel.            *)
EXTENDS RpcCall, SequenceTheorems, TLAPS

(* Everything in flight belongs to a call that was made and has an id.       *)
Members ==
    /\ \A c \in made : id[c] \in Calls
    /\ writeDones \in Seq(made) /\ outbox \in Seq(made)
    /\ requests \in Seq(made)
    /\ readDones \in [Calls -> made \cup {NoCall}]
    /\ lastTimer \in made \cup {NoCall}
    /\ writeHandler \in made \cup {NoHandler, OnWrite}
    /\ \A c \in Calls \ made : runs[c] = 0 /\ read[c] = {} /\ timer[c] # "armed"
    /\ made = {} => error = NoError /\ sock = "fresh"

(* The socket connects once, and only a connect makes on_write send.         *)
SendPending == outOn /\ writeHandler = OnWrite
OneSend ==
    /\ Len(outbox) + Len(writeDones) <= 1
    /\ Len(requests) + Len(replies) <= 1
    /\ sock # "connected" => /\ outbox = <<>> /\ writeDones = <<>>
                             /\ requests = <<>> /\ replies = <<>>
                             /\ writeHandler # OnWrite
    /\ SendPending => requests = <<>> /\ replies = <<>>

(* Nothing of the only call is under way any more.                           *)
Quiet == /\ ~SendPending /\ sock # "connecting"
         /\ requests = <<>> /\ replies = <<>>

(* The timer of a channel's only call, from the call to timeout or reply.    *)
SoleTimer(c) ==
    made \subseteq {c} /\ timer[c] = "armed" =>
        lastTimer = c /\ runs[c] = 0 /\ read[c] = {}

(* The reply and the timeout of an only call exclude each other: a closure   *)
(* that ran for a reply leaves no message behind, one that ran for the       *)
(* timeout leaves m_is_cancled.                                              *)
SoleCall(c) ==
    ~reused /\ made \subseteq {c} =>
        /\ read[c] # {} => Quiet
        /\ error # NoError /\ ~canceled => Quiet
        /\ runs[c] > 0 /\ ~canceled => read[c] # {}
        /\ runs[c] <= 1
        /\ runs[c] > 0 => \/ outcome[c] = "timeout"
                          \/ outcome[c] = NoError /\ read[c] = {"ok"}

IInv == /\ TypeOK /\ Members /\ OneSend
        /\ \A c \in Calls : SoleTimer(c) /\ SoleCall(c)

-----------------------------------------------------------------------------
LEMMA WiderSeq ==
  ASSUME NEW S, NEW T, S \subseteq T, NEW s \in Seq(S)
  PROVE  s \in Seq(T)
  OBVIOUS

(* read_msg registers calls whose request was pushed, and nobody else.       *)
LEMMA RegisteredType ==
  ASSUME TypeOK, Members, OneSend
  PROVE  Registered(writeDones) \in [Calls -> made \cup {NoCall}]
<1> SUFFICES ASSUME NEW m \in Calls
             PROVE  Registered(writeDones)[m] \in made \cup {NoCall}
  BY DEF Registered
<1>1. CASE readDones[m] # NoCall \/ \A i \in DOMAIN writeDones : id[writeDones[i]] # m
  BY <1>1 DEF Registered, Members
<1>2. CASE ~(readDones[m] # NoCall \/ \A i \in DOMAIN writeDones : id[writeDones[i]] # m)
  <2> DEFINE first == CHOOSE i \in DOMAIN writeDones :
                         /\ id[writeDones[i]] = m
                         /\ \A j \in 1 .. i - 1 : id[writeDones[j]] # m
  <2>1. /\ writeDones \in Seq(made) /\ Len(writeDones) \in Nat
        /\ Len(outbox) \in Nat /\ Len(writeDones) <= 1
    BY DEF Members, OneSend
  <2>2. PICK k \in DOMAIN writeDones : id[writeDones[k]] = m
    BY <1>2
  <2>3. k = 1 /\ \A j \in 1 .. k - 1 : id[writeDones[j]] # m
    BY <2>1, <2>2
  <2>4. first \in DOMAIN writeDones
    BY <2>2, <2>3, Zenon
  <2>5. Registered(writeDones)[m] = writeDones[first]
    BY <1>2, Zenon DEF Registered
  <2> HIDE DEF first
  <2> QED
    BY <2>1, <2>4, <2>5, ElementOfSeq
<1> QED
  BY <1>1, <1>2

-----------------------------------------------------------------------------
(* Getting a closure to run changes the result of its call, and no type.     *)
LEMMA RunClosureType ==
  ASSUME TypeOK, NEW c \in Calls, RunClosure(c), error' \in Errors
  PROVE  /\ runs' \in [Calls -> Nat]
         /\ outcome' \in [Calls -> Errors \cup {NotRun}]
         /\ loop' \in {"notStarted", "running", "stopping", "stopped"}
<1>1. CASE hasClosure
  <2>1. /\ runs' = [runs EXCEPT ![c] = @ + 1]
        /\ outcome' = [outcome EXCEPT ![c] = error']
        /\ loop' = loop \/ loop' = "stopping"
    BY <1>1 DEF RunClosure
  <2> QED
    BY <2>1 DEF TypeOK
<1>2. CASE ~hasClosure
  BY <1>2 DEF TypeOK, RunClosure
<1> QED
  BY <1>1, <1>2

LEMMA DeliverReplyType ==
  ASSUME TypeOK, NEW c \in Calls, NEW r \in Reply, DeliverReply(r, c)
  PROVE  /\ error' \in Errors
         /\ runs' \in [Calls -> Nat]
         /\ outcome' \in [Calls -> Errors \cup {NotRun}]
         /\ loop' \in {"notStarted", "running", "stopping", "stopped"}
<1>1. CASE r.kind \in {"error", "garbled"}
  BY <1>1 DEF TypeOK, DeliverReply, Errors
<1>2. CASE r.kind = "ok" /\ canceled
  BY <1>2 DEF TypeOK, DeliverReply
<1>3. CASE r.kind = "ok" /\ ~canceled
  BY <1>3, RunClosureType DEF TypeOK, DeliverReply
<1> QED
  BY <1>1, <1>2, <1>3 DEF Reply, ReplyKinds, TypeOK

-----------------------------------------------------------------------------
LEMMA InitIInv == Init => IInv
<1> SUFFICES ASSUME Init PROVE IInv
  OBVIOUS
<1>1. <<>> \in Seq(Calls) /\ <<>> \in Seq({}) /\ <<>> \in Seq(Reply)
  BY EmptySeq
<1>2. TypeOK
  BY <1>1 DEF Init, TypeOK, Errors
<1>3. Members
  BY <1>1 DEF Init, Members
<1>4. OneSend
  BY <1>1 DEF Init, OneSend, SendPending, NoHandler, OnWrite
<1>5. \A c \in Calls : SoleTimer(c) /\ SoleCall(c)
  BY DEF Init, SoleTimer, SoleCall
<1> QED
  BY <1>2, <1>3, <1>4, <1>5 DEF IInv

LEMMA NextTypeOK == IInv /\ [Next]_vars => TypeOK'
<1> SUFFICES ASSUME IInv, [Next]_vars PROVE TypeOK'
  OBVIOUS
<1> USE DEF IInv, TypeOK, channelVars, controlVars, sockVars, streamVars,
            resultVars
<1>a. /\ NoError \in Errors /\ "channelInit" \in Errors
      /\ "serialize" \in Errors /\ "timeout" \in Errors /\ "reply" \in Errors
      /\ ConnectErrors \subseteq Errors
  BY DEF Errors
<1>b. outbox \o writeDones \in Seq(Calls)
      /\ requests \o (outbox \o writeDones) \in Seq(Calls)
  BY ConcatProperties
<1>c. Registered(writeDones) \in [Calls -> Calls \cup {NoCall}]
  BY RegisteredType
<1>d. \A c \in Calls : Append(writeDones, c) \in Seq(Calls)
  BY AppendProperties
<1>1. CASE ChannelInit
  BY <1>1 DEF ChannelInit
<1>2. CASE ResetController
  <2>1. error' \in Errors /\ canceled' \in BOOLEAN /\ reused' \in BOOLEAN
    BY <1>2, <1>a DEF ResetController
  <2>2. /\ msgId' = NoCall
        /\ UNCHANGED <<isInit, hasClosure, made, id, timer, lastTimer, sockVars,
                       streamVars, resultVars, loop>>
    BY <1>2 DEF ResetController
  <2> QED
    BY <2>1, <2>2, SMTT(30)
<1>3. ASSUME NEW c \in Calls, CallNotInit(c) PROVE TypeOK'
  BY <1>3, <1>a DEF CallNotInit, Identify
<1>4. ASSUME NEW c \in Calls, CallSerializeFails(c) PROVE TypeOK'
  BY <1>4, <1>a DEF CallSerializeFails, Identify
<1>5. ASSUME NEW c \in Calls, CallConnects(c) PROVE TypeOK'
  <2>1. CASE WriteMsg(c)
    BY <1>5, <2>1, <1>d DEF CallConnects, Identify, ArmTimer, WriteMsg
  <2>2. CASE ConnectFailed /\ outOn' = FALSE /\ UNCHANGED writeHandler
    BY <1>5, <2>2, <1>a DEF CallConnects, Identify, ArmTimer, ConnectFailed
  <2> QED
    BY <1>5, <2>1, <2>2 DEF CallConnects
<1>6. ASSUME NEW c \in Calls, CallConnecting(c) PROVE TypeOK'
  BY <1>6 DEF CallConnecting, Identify, ArmTimer
<1>7. ASSUME NEW c \in Calls, CallFailsToConnect(c) PROVE TypeOK'
  <2>1. "failedConnect" \in ConnectErrors
    BY DEF ConnectErrors
  <2> QED
    BY <1>7, <2>1, <1>a DEF CallFailsToConnect, Identify, ArmTimer, ConnectFailed
<1>8. ASSUME NEW c \in Calls, ConnectHandler(c) PROVE TypeOK'
  <2>1. /\ connError' \in ConnectErrors \cup {NoError} /\ connected' \in BOOLEAN
        /\ sock' \in {"fresh", "connecting", "connected", "reopened"}
    BY <1>8 DEF ConnectHandler
  <2>2. CASE WriteMsg(c)
    BY <1>8, <2>1, <2>2, <1>d DEF ConnectHandler, WriteMsg
  <2>3. CASE ConnectFailed /\ outOn' = FALSE /\ UNCHANGED writeHandler
    BY <1>8, <2>1, <2>3, <1>a DEF ConnectHandler, ConnectFailed
  <2> QED
    BY <1>8, <2>2, <2>3 DEF ConnectHandler
<1>9. CASE OnWriteAll
  <2>1. inOn' \in BOOLEAN /\ outOn' \in BOOLEAN
    BY <1>9 DEF OnWriteAll
  <2>2. /\ outbox' \in Seq(Calls) /\ requests' \in Seq(Calls)
        /\ writeDones' \in Seq(Calls)
        /\ readDones' \in [Calls -> Calls \cup {NoCall}]
    BY <1>9, <1>b, <1>c, EmptySeq DEF OnWriteAll, Encoded
  <2> QED
    <3>1. UNCHANGED <<channelVars, controlVars, timer, lastTimer, sock, connError, connected, writeHandler, replies,
                      resultVars, loop>>
      BY <1>9 DEF OnWriteAll
    <3> QED
      BY <2>1, <2>2, <3>1, SMTT(30)
<1>10. CASE OnWriteAgain
  <2>1. inOn' \in BOOLEAN /\ outOn' \in BOOLEAN
    BY <1>10 DEF OnWriteAgain
  <2>2. /\ outbox' \in Seq(Calls) /\ requests' \in Seq(Calls)
        /\ writeDones' \in Seq(Calls)
        /\ readDones' \in [Calls -> Calls \cup {NoCall}]
    BY <1>10, <1>b, <1>c, EmptySeq DEF OnWriteAgain, Encoded
  <2> QED
    <3>1. UNCHANGED <<channelVars, controlVars, timer, lastTimer, sock, connError, connected, writeHandler, replies,
                      resultVars, loop>>
      BY <1>10 DEF OnWriteAgain
    <3> QED
      BY <2>1, <2>2, <3>1, SMTT(30)
<1>11. CASE OnReadReply
  <2>1. Head(replies) \in Reply /\ Tail(replies) \in Seq(Reply)
    BY <1>11, HeadTailProperties DEF OnReadReply
  <2>2. Head(replies).id \in Calls /\ Head(replies).kind \in ReplyKinds
    BY <2>1 DEF Reply
  <2>3. CASE readDones[Head(replies).id] = NoCall
    BY <1>11, <2>1, <2>3 DEF OnReadReply
  <2>4. CASE readDones[Head(replies).id] # NoCall
    <3>1. PICK c \in Calls : Deliver(Head(replies), c)
      BY <1>11, <2>2, <2>4 DEF OnReadReply
    <3>2. timer' \in [Calls -> {"none", "armed", "canceled", "over"}]
          /\ read' \in [Calls -> SUBSET ReplyKinds]
      BY <3>1, <2>2 DEF Deliver
    <3>3. /\ error' \in Errors
          /\ runs' \in [Calls -> Nat]
          /\ outcome' \in [Calls -> Errors \cup {NotRun}]
          /\ loop' \in {"notStarted", "running", "stopping", "stopped"}
      BY <3>1, <2>1, DeliverReplyType DEF Deliver
    <3> QED
      <4>1. replies' \in Seq(Reply) /\ UNCHANGED <<channelVars, canceled, reused,
               lastTimer, sockVars, writeDones, outbox, requests, readDones>>
        BY <1>11, <2>1 DEF OnReadReply
      <4> QED
        BY <4>1, <3>2, <3>3
  <2> QED
    BY <2>3, <2>4
<1>12. CASE OnReadClosed
  <2>1. /\ connected' = FALSE /\ outOn' = FALSE /\ inOn' = FALSE
        /\ UNCHANGED <<channelVars, controlVars, timer, lastTimer, sock, connError,
                       writeHandler, streamVars, resultVars, loop>>
    BY <1>12 DEF OnReadClosed
  <2>2. connected' \in BOOLEAN /\ outOn' \in BOOLEAN /\ inOn' \in BOOLEAN
    BY <2>1
  <2> QED
    BY <2>1, <2>2, SMTT(30)
<1>13. ASSUME NEW c \in Calls, Timeout(c) PROVE TypeOK'
  <2>1. error' \in Errors
    BY <1>13, <1>a DEF Timeout
  <2>2. /\ runs' \in [Calls -> Nat]
        /\ outcome' \in [Calls -> Errors \cup {NotRun}]
        /\ loop' \in {"notStarted", "running", "stopping", "stopped"}
    BY <1>13, <2>1, RunClosureType DEF Timeout
  <2> QED
    <3>1. /\ timer' = [timer EXCEPT ![c] = "over"] /\ canceled' = TRUE
          /\ UNCHANGED <<channelVars, reused, lastTimer, sockVars, streamVars, read>>
      BY <1>13 DEF Timeout
    <3> QED
      BY <2>1, <2>2, <3>1
<1>14. CASE LoopExits
  BY <1>14 DEF LoopExits
<1>15. CASE PeerReplies
  <2>1. Head(requests) \in made /\ Tail(requests) \in Seq(Calls)
    BY <1>15, HeadTailProperties DEF PeerReplies, Members
  <2>2. \A k \in ReplyKinds : [id |-> id[Head(requests)], kind |-> k] \in Reply
    BY <2>1 DEF Members, Reply
  <2>3. replies' \in Seq(Reply)
    <3>1. CASE UNCHANGED replies
      BY <3>1
    <3>2. ASSUME NEW k \in ReplyKinds,
                 replies' = Append(replies, [id |-> id[Head(requests)], kind |-> k])
          PROVE  replies' \in Seq(Reply)
      <4> DEFINE r == [id |-> id[Head(requests)], kind |-> k]
      <4>1. r \in Reply /\ replies' = Append(replies, r)
        BY <2>2, <3>2
      <4> HIDE DEF r
      <4> QED
        BY <4>1, AppendProperties
    <3> QED
      BY <1>15, <3>1, <3>2 DEF PeerReplies
  <2> QED
    BY <1>15, <2>1, <2>3 DEF PeerReplies
<1>16. CASE UNCHANGED vars
  BY <1>16 DEF vars
<1> QED
  BY <1>1, <1>2, <1>3, <1>4, <1>5, <1>6, <1>7, <1>8, <1>9, <1>10, <1>11, <1>12,
     <1>13, <1>14, <1>15, <1>16 DEF Next, CallMethod, Handler

-----------------------------------------------------------------------------
(* Reading a reply consumes the only message that was under way.             *)
LEMMA LastReply ==
  ASSUME IInv, OnReadReply
  PROVE  /\ replies' = <<>> /\ requests' = <<>> /\ ~SendPending'
         /\ sock' = "connected"
<1>1. /\ replies \in Seq(Reply) /\ requests \in Seq(Calls) /\ replies # <<>>
      /\ Len(requests) + Len(replies) <= 1
      /\ replies' = Tail(replies) /\ requests' = requests
      /\ UNCHANGED sockVars
  BY DEF IInv, TypeOK, OneSend, OnReadReply
<1>2. Len(replies) = 1 /\ Len(requests) = 0
  <2> DEFINE n == Len(replies)
             k == Len(requests)
  <2>1. n \in Nat /\ k \in Nat /\ n # 0 /\ k + n <= 1
    BY <1>1, EmptySeq, LenProperties
  <2> HIDE DEF n, k
  <2>2. n = 1 /\ k = 0
    BY <2>1
  <2> QED
    BY <2>2 DEF n, k
<1>3. Len(Tail(replies)) = 0 /\ Tail(replies) \in Seq(Reply)
  BY <1>1, <1>2, HeadTailProperties
<1>4. replies' = <<>> /\ requests' = <<>>
  BY <1>1, <1>2, <1>3, EmptySeq
<1>5. ~SendPending /\ sock = "connected"
  BY <1>1 DEF IInv, OneSend
<1> QED
  BY <1>1, <1>4, <1>5 DEF SendPending, sockVars

(* No message is on its way in either direction before a connect.            *)
LEMMA NothingSent ==
  ASSUME IInv, sock # "connected"
  PROVE  /\ outbox = <<>> /\ writeDones = <<>> /\ requests = <<>> /\ replies = <<>>
         /\ writeHandler # OnWrite
  BY DEF IInv, OneSend

LEMMA NextMembers == IInv /\ [Next]_vars => Members'
<1> SUFFICES ASSUME IInv, [Next]_vars PROVE Members'
  OBVIOUS
<1> USE DEF Members, channelVars, controlVars, sockVars, streamVars, resultVars
<1>a. TypeOK /\ Members
  BY DEF IInv
<1>b. ASSUME NEW c \in Calls, Identify(c)
      PROVE  /\ made' = made \cup {c} /\ made' # {} /\ \A d \in made' : id'[d] \in Calls
             /\ writeDones \in Seq(made') /\ outbox \in Seq(made')
             /\ requests \in Seq(made')
             /\ readDones \in [Calls -> made' \cup {NoCall}]
             /\ lastTimer \in made' \cup {NoCall}
             /\ writeHandler \in made' \cup {NoHandler, OnWrite}
  BY <1>a, <1>b, WiderSeq DEF Identify, TypeOK
<1>1. CASE ChannelInit
  BY <1>1, <1>a DEF ChannelInit
<1>2. CASE ResetController
  BY <1>2, <1>a DEF ResetController
<1>3. ASSUME NEW c \in Calls, CallNotInit(c) PROVE Members'
  BY <1>3, <1>a, <1>b DEF CallNotInit
<1>4. ASSUME NEW c \in Calls, CallSerializeFails(c) PROVE Members'
  BY <1>4, <1>a, <1>b DEF CallSerializeFails
<1>5. ASSUME NEW c \in Calls, CallConnects(c) PROVE Members'
  <2>1. Identify(c) /\ ArmTimer(c)
    BY <1>5 DEF CallConnects
  <2>2. lastTimer' \in made' \cup {NoCall}
        /\ \A d \in Calls \ made' : runs'[d] = 0 /\ read'[d] = {} /\ timer'[d] # "armed"
    BY <1>5, <1>a, <1>b, <2>1 DEF CallConnects, ArmTimer, TypeOK
  <2>3. writeDones' \in Seq(made')
    <3>1. c \in made'
      BY <1>b, <2>1
    <3>2. Append(writeDones, c) \in Seq(made')
      BY <1>b, <2>1, <3>1, AppendProperties
    <3> QED
      BY <1>5, <1>b, <2>1, <3>2 DEF CallConnects, WriteMsg, ConnectFailed
  <2>4. writeHandler' \in made' \cup {NoHandler, OnWrite}
    BY <1>5, <1>b, <2>1 DEF CallConnects, WriteMsg
  <2>5. /\ UNCHANGED <<outbox, requests, readDones, runs, read>>
        /\ sock' = "connected"
    BY <1>5 DEF CallConnects
  <2> QED
    BY <1>b, <2>1, <2>2, <2>3, <2>4, <2>5
<1>6. ASSUME NEW c \in Calls, CallConnecting(c) PROVE Members'
  BY <1>6, <1>a, <1>b DEF CallConnecting, ArmTimer, TypeOK
<1>7. ASSUME NEW c \in Calls, CallFailsToConnect(c) PROVE Members'
  BY <1>7, <1>a, <1>b DEF CallFailsToConnect, ArmTimer, ConnectFailed, TypeOK
<1>8. ASSUME NEW c \in Calls, ConnectHandler(c) PROVE Members'
  <2>1. c \in made
    BY <1>8, <1>a, HandlersAssumption DEF ConnectHandler
  <2>2. Append(writeDones, c) \in Seq(made)
    BY <1>a, <2>1, AppendProperties
  <2>3. writeDones' \in Seq(made) /\ writeHandler' \in made \cup {NoHandler, OnWrite}
    BY <1>8, <1>a, <2>2 DEF ConnectHandler, WriteMsg, ConnectFailed
  <2>4. UNCHANGED <<made, id, outbox, requests, readDones, lastTimer, timer, runs, read>>
    BY <1>8 DEF ConnectHandler
  <2> QED
    BY <1>a, <2>1, <2>3, <2>4
<1>9. CASE OnWriteAll
  BY <1>9, <1>a, ConcatProperties, EmptySeq, RegisteredType
     DEF OnWriteAll, Encoded, IInv
<1>10. CASE OnWriteAgain
  BY <1>10, <1>a, ConcatProperties, EmptySeq, RegisteredType
     DEF OnWriteAgain, Encoded, IInv
<1>11. CASE OnReadReply
  <2>1. sock = "connected" /\ made # {}
    BY <1>11, LastReply, <1>a DEF OnReadReply
  <2> QED
    <3>1. CASE readDones[Head(replies).id] = NoCall
      BY <1>11, <1>a, <2>1, <3>1 DEF OnReadReply
    <3>2. CASE readDones[Head(replies).id] # NoCall
      <4> DEFINE c == readDones[Head(replies).id]
      <4>1. Head(replies) \in Reply
        BY <1>11, <1>a, HeadTailProperties DEF OnReadReply, TypeOK
      <4>2. c \in made
        BY <1>a, <3>2, <4>1 DEF Reply
      <4>3. Deliver(Head(replies), c)
        BY <1>11, <3>2 DEF OnReadReply
      <4> HIDE DEF c
      <4>4. \A d \in Calls \ made : /\ runs'[d] = runs[d] /\ read'[d] = read[d]
                                  /\ timer'[d] # "armed"
        <5> TAKE d \in Calls \ made
        <5>1. d # c /\ c \in Calls
          BY <1>a, <4>2 DEF TypeOK
        <5>2. read'[d] = read[d]
          BY <1>a, <4>3, <5>1 DEF Deliver, TypeOK
        <5>3. timer'[d] # "armed"
          BY <1>a, <4>3 DEF Deliver, TypeOK
        <5>4. runs' = runs \/ runs' = [runs EXCEPT ![c] = @ + 1]
          BY <4>1, <4>3 DEF Deliver, DeliverReply, RunClosure, Reply, ReplyKinds
        <5> QED
          BY <1>a, <5>1, <5>2, <5>3, <5>4 DEF TypeOK
      <4>5. UNCHANGED <<made, id, outbox, requests, readDones, lastTimer,
                        writeDones, writeHandler>>
        BY <1>11 DEF OnReadReply
      <4> QED
        BY <1>a, <2>1, <4>4, <4>5
    <3> QED
      BY <3>1, <3>2
<1>12. CASE OnReadClosed
  BY <1>12, <1>a DEF OnReadClosed
<1>13. ASSUME NEW c \in Calls, Timeout(c) PROVE Members'
  <2>1. c \in made
    BY <1>13, <1>a DEF Timeout
  <2>2. \A d \in Calls \ made : runs'[d] = runs[d] /\ timer'[d] = timer[d]
    BY <1>13, <1>a, <2>1 DEF Timeout, RunClosure, TypeOK
  <2> QED
    BY <1>13, <1>a, <2>1, <2>2 DEF Timeout
<1>14. CASE LoopExits
  BY <1>14, <1>a DEF LoopExits
<1>15. CASE PeerReplies
  BY <1>15, <1>a, HeadTailProperties DEF PeerReplies
<1>16. CASE UNCHANGED vars
  BY <1>16, <1>a DEF vars
<1> QED
  BY <1>1, <1>2, <1>3, <1>4, <1>5, <1>6, <1>7, <1>8, <1>9, <1>10, <1>11, <1>12,
     <1>13, <1>14, <1>15, <1>16 DEF Next, CallMethod, Handler

LEMMA NextOneSend == IInv /\ [Next]_vars => OneSend'
<1> SUFFICES ASSUME IInv, [Next]_vars PROVE OneSend'
  OBVIOUS
<1> USE DEF OneSend, SendPending, channelVars, controlVars, sockVars, streamVars,
            resultVars
<1>a. /\ OneSend
      /\ writeDones \in Seq(Calls) /\ outbox \in Seq(Calls)
      /\ requests \in Seq(Calls) /\ replies \in Seq(Reply)
      /\ Len(writeDones) \in Nat /\ Len(outbox) \in Nat
      /\ Len(requests) \in Nat /\ Len(replies) \in Nat
  BY LenProperties DEF IInv, TypeOK
<1>b. ASSUME UNCHANGED <<sock, writeHandler, outOn, writeDones, outbox, requests,
                         replies>>
      PROVE  OneSend'
  BY <1>a, <1>b
<1>c. Len(<<>>) = 0 /\ \A c \in Calls : Len(Append(<<>>, c)) = 1
  BY AppendProperties, EmptySeq
<1>d. Encoded \in Seq(Calls) /\ Len(Encoded) <= 1 /\ Len(Encoded) \in Nat
  BY <1>a, ConcatProperties DEF Encoded
<1>1. CASE ChannelInit
  BY <1>1, <1>b DEF ChannelInit
<1>2. CASE ResetController
  BY <1>2, <1>b DEF ResetController
<1>3. ASSUME NEW c \in Calls, CallNotInit(c) PROVE OneSend'
  BY <1>3, <1>b DEF CallNotInit
<1>4. ASSUME NEW c \in Calls, CallSerializeFails(c) PROVE OneSend'
  BY <1>4, <1>b DEF CallSerializeFails
<1>e. ASSUME NEW c \in Calls, sock # "connected",
             \/ WriteMsg(c) /\ sock' = "connected"
             \/ ConnectFailed /\ outOn' = FALSE /\ UNCHANGED writeHandler,
             UNCHANGED <<outbox, requests, replies>>
      PROVE  OneSend'
  <2>1. CASE WriteMsg(c) /\ sock' = "connected"
    BY <1>c, <1>e, <2>1, NothingSent DEF WriteMsg
  <2>2. CASE ConnectFailed /\ outOn' = FALSE /\ UNCHANGED writeHandler
    BY <1>c, <1>e, <2>2, NothingSent DEF ConnectFailed
  <2> QED
    BY <1>e, <2>1, <2>2
<1>5. ASSUME NEW c \in Calls, CallConnects(c) PROVE OneSend'
  <2>1. sock # "connected" /\ sock' = "connected" /\ UNCHANGED <<outbox, requests, replies>>
    BY <1>5 DEF CallConnects
  <2>2. WriteMsg(c) \/ (ConnectFailed /\ outOn' = FALSE /\ UNCHANGED writeHandler)
    BY <1>5 DEF CallConnects
  <2> HIDE DEF OneSend
  <2> QED
    BY <1>e, <2>1, <2>2, Zenon
<1>6. ASSUME NEW c \in Calls, CallConnecting(c) PROVE OneSend'
  BY <1>6, <1>c, NothingSent, HandlersAssumption DEF CallConnecting
<1>7. ASSUME NEW c \in Calls, CallFailsToConnect(c) PROVE OneSend'
  BY <1>7, <1>b DEF CallFailsToConnect, ConnectFailed
<1>8. ASSUME NEW c \in Calls, ConnectHandler(c) PROVE OneSend'
  <2>1. WriteMsg(c) => sock' = "connected"
    BY <1>8 DEF ConnectHandler, WriteMsg, ConnectErrors, NoError
  <2>2. sock # "connected" /\ UNCHANGED <<outbox, requests, replies>>
    BY <1>8 DEF ConnectHandler
  <2>3. WriteMsg(c) \/ (ConnectFailed /\ outOn' = FALSE /\ UNCHANGED writeHandler)
    BY <1>8 DEF ConnectHandler
  <2> HIDE DEF OneSend
  <2> QED
    BY <1>e, <2>1, <2>2, <2>3, Zenon
<1>9. CASE OnWriteAll
  <2>1. sock = "connected" /\ requests = <<>> /\ replies = <<>>
    BY <1>9, <1>a DEF OnWriteAll
  <2>2. /\ outbox' = Encoded /\ requests' = Encoded /\ writeDones' = <<>>
        /\ replies' = <<>> /\ ~outOn' /\ sock' = "connected"
    BY <1>9, <1>d, <2>1, ConcatEmptySeq DEF OnWriteAll
  <2> QED
    BY <1>c, <1>d, <2>2
<1>10. CASE OnWriteAgain
  <2>1. sock = "connected" /\ requests = <<>> /\ replies = <<>>
    BY <1>10, <1>a DEF OnWriteAgain
  <2>2. /\ outbox' = Encoded /\ requests' = <<>> /\ writeDones' = <<>>
        /\ replies' = <<>> /\ sock' = "connected"
    BY <1>10, <2>1 DEF OnWriteAgain
  <2> QED
    BY <1>c, <1>d, <2>2
<1>11. CASE OnReadReply
  <2>1. UNCHANGED <<outbox, writeDones>>
    BY <1>11 DEF OnReadReply
  <2> QED
    BY <1>11, <1>a, <1>c, <2>1, LastReply
<1>12. CASE OnReadClosed
  BY <1>12, <1>a DEF OnReadClosed
<1>13. ASSUME NEW c \in Calls, Timeout(c) PROVE OneSend'
  BY <1>13, <1>b DEF Timeout
<1>14. CASE LoopExits
  BY <1>14, <1>b DEF LoopExits
<1>15. CASE PeerReplies
  <2>1. Len(requests') = Len(requests) - 1 /\ sock = "connected" /\ ~SendPending
    BY <1>15, <1>a, HeadTailProperties, EmptySeq DEF PeerReplies
  <2>2. replies' = replies \/ \E r \in Reply : replies' = Append(replies, r)
    <3>1. Head(requests) \in made
      BY <1>15, HeadTailProperties DEF PeerReplies, IInv, Members
    <3>2. \A k \in ReplyKinds : [id |-> id[Head(requests)], kind |-> k] \in Reply
      BY <3>1 DEF IInv, Members, Reply
    <3> QED
      BY <1>15, <3>2 DEF PeerReplies
  <2>3. Len(replies') \in Nat /\ Len(replies') <= Len(replies) + 1
    BY <1>a, <2>2, AppendProperties
  <2>4. UNCHANGED <<outbox, writeDones, outOn, writeHandler, sock>>
    BY <1>15 DEF PeerReplies
  <2> QED
    BY <1>a, <2>1, <2>3, <2>4
<1>16. CASE UNCHANGED vars
  BY <1>16, <1>b DEF vars
<1> QED
  BY <1>1, <1>2, <1>3, <1>4, <1>5, <1>6, <1>7, <1>8, <1>9, <1>10, <1>11, <1>12,
     <1>13, <1>14, <1>15, <1>16 DEF Next, CallMethod, Handler

-----------------------------------------------------------------------------
(* A reply that is delivered goes to a call that was made.                   *)
LEMMA Delivered ==
  ASSUME IInv, OnReadReply
  PROVE  /\ Head(replies) \in Reply
         /\ \/ UNCHANGED <<timer, error, resultVars, loop>>
            \/ \E c \in made : Deliver(Head(replies), c)
         /\ UNCHANGED <<made, canceled, reused, lastTimer>>
<1>1. Head(replies) \in Reply
  BY HeadTailProperties DEF OnReadReply, IInv, TypeOK
<1>2. Head(replies).id \in Calls
  BY <1>1 DEF Reply
<1>3. readDones[Head(replies).id] \in made \cup {NoCall}
  BY <1>2 DEF IInv, Members
<1> QED
  BY <1>1, <1>3 DEF OnReadReply, channelVars

(* The first call of a channel finds nothing under way and no error.         *)
LEMMA FirstCall ==
  ASSUME IInv, NEW c \in Calls, NEW d \in Calls, d \notin made, Identify(d),
         made' \subseteq {c}
  PROVE  /\ d = c /\ made = {} /\ runs[c] = 0 /\ read[c] = {}
         /\ error = NoError /\ sock = "fresh"
  BY DEF Identify, IInv, Members

LEMMA NextSoleTimer ==
  ASSUME IInv, [Next]_vars, NEW c \in Calls PROVE SoleTimer(c)'
<1> USE DEF SoleTimer, channelVars, resultVars
<1>a. TypeOK /\ Members /\ SoleTimer(c)
  BY DEF IInv
<1>b. ASSUME UNCHANGED <<lastTimer, timer, runs, read>>, made \subseteq made'
      PROVE  SoleTimer(c)'
  BY <1>a, <1>b
<1>1. ASSUME NEW d \in Calls, d \notin made, Identify(d), ArmTimer(d),
             UNCHANGED <<runs, read>>
      PROVE  SoleTimer(c)'
  BY <1>a, <1>1, FirstCall DEF ArmTimer, TypeOK, Identify
<1>2. ASSUME NEW d \in Calls, CallNotInit(d) \/ CallSerializeFails(d)
      PROVE  SoleTimer(c)'
  BY <1>2, <1>b DEF CallNotInit, CallSerializeFails, Identify
<1>3. ASSUME NEW d \in Calls,
             CallConnects(d) \/ CallConnecting(d) \/ CallFailsToConnect(d)
      PROVE  SoleTimer(c)'
  <2>1. d \notin made /\ Identify(d) /\ ArmTimer(d) /\ UNCHANGED <<runs, read>>
    BY <1>3 DEF CallConnects, CallConnecting, CallFailsToConnect
  <2> QED
    BY <1>1, <2>1
<1>4. CASE OnReadReply
  <2>1. CASE UNCHANGED <<timer, error, resultVars, loop>>
    BY <1>4, <1>b, <2>1, Delivered
  <2>2. ASSUME NEW e \in made, Deliver(Head(replies), e) PROVE SoleTimer(c)'
    <3>1. timer' = (IF lastTimer # NoCall /\ timer[lastTimer] = "armed"
                    THEN [timer EXCEPT ![lastTimer] = "canceled"] ELSE timer)
      BY <2>2 DEF Deliver
    <3>2. made \subseteq {c} => timer'[c] # "armed"
      BY <1>a, <3>1, CallsAssumption DEF TypeOK
    <3> QED
      BY <1>4, <3>2, Delivered
  <2> QED
    BY <1>4, <2>1, <2>2, Delivered
<1>5. ASSUME NEW d \in Calls, Timeout(d) PROVE SoleTimer(c)'
  <2>1. d \in made /\ made' = made /\ timer' = [timer EXCEPT ![d] = "over"]
    BY <1>5, <1>a DEF Timeout, Members
  <2>2. made \subseteq {c} => timer'[c] # "armed"
    BY <1>a, <2>1 DEF TypeOK
  <2> QED
    BY <2>1, <2>2
<1>6. CASE ChannelInit \/ ResetController \/ LoopExits \/ PeerReplies
  BY <1>6, <1>b DEF ChannelInit, ResetController, LoopExits, PeerReplies
<1>7. CASE OnWriteAll \/ OnWriteAgain \/ OnReadClosed
             \/ \E d \in Calls : ConnectHandler(d)
  BY <1>7, <1>b DEF OnWriteAll, OnWriteAgain, OnReadClosed, ConnectHandler
<1>8. CASE UNCHANGED vars
  BY <1>8, <1>b DEF vars
<1> QED
  BY <1>2, <1>3, <1>4, <1>5, <1>6, <1>7, <1>8 DEF Next, CallMethod, Handler

LEMMA NextSoleCall ==
  ASSUME IInv, [Next]_vars, NEW c \in Calls PROVE SoleCall(c)'
<1> SUFFICES ASSUME ~reused', made' \subseteq {c} PROVE SoleCall(c)'
  BY DEF SoleCall
<1> USE DEF SoleCall, channelVars, controlVars, sockVars, streamVars, resultVars
<1>a. TypeOK /\ Members /\ OneSend /\ SoleTimer(c) /\ SoleCall(c)
  BY DEF IInv
<1>b. ASSUME UNCHANGED <<sock, writeHandler, outOn, requests, replies, error,
                         canceled, reused, runs, outcome, read, made>>
      PROVE  SoleCall(c)'
  BY <1>a, <1>b DEF Quiet, SendPending
<1>c. ASSUME NEW d \in Calls, d \notin made, Identify(d),
             UNCHANGED <<canceled, reused, runs, outcome, read>>,
             error' # NoError => Quiet'
      PROVE  SoleCall(c)'
  BY <1>a, <1>c, FirstCall
(* What is under way leaves a sole call without reply and without error.     *)
<1>d. ASSUME ~Quiet, UNCHANGED <<made, reused>>
      PROVE  /\ read[c] = {} /\ (error = NoError \/ canceled)
             /\ runs[c] > 0 => canceled /\ outcome[c] = "timeout"
             /\ runs[c] <= 1
  BY <1>a, <1>d
<1>e. ASSUME ~Quiet, UNCHANGED <<made, reused, runs, outcome, read, canceled>>,
             error' # error => Quiet'
      PROVE  SoleCall(c)'
  BY <1>a, <1>d, <1>e
<1>1. CASE ChannelInit \/ LoopExits
  BY <1>1, <1>b DEF ChannelInit, LoopExits
<1>2. CASE ResetController
  BY <1>2 DEF ResetController
<1>3. ASSUME NEW d \in Calls, CallNotInit(d) \/ CallSerializeFails(d)
      PROVE  SoleCall(c)'
  <2>1. /\ d \notin made /\ Identify(d)
        /\ UNCHANGED <<canceled, reused, runs, outcome, read, sock, writeHandler,
                       outOn, requests, replies>>
    BY <1>3 DEF CallNotInit, CallSerializeFails
  <2>2. Quiet'
    BY <1>a, <2>1, FirstCall, NothingSent DEF Quiet, SendPending
  <2> QED
    BY <1>c, <2>1, <2>2
<1>4. ASSUME NEW d \in Calls, CallConnects(d) PROVE SoleCall(c)'
  <2>1. /\ d \notin made /\ Identify(d) /\ sock # "connected" /\ sock' = "connected"
        /\ UNCHANGED <<canceled, reused, runs, outcome, read, requests, replies>>
    BY <1>4 DEF CallConnects
  <2>2. error' = NoError \/ ~outOn'
    BY <1>4, <2>1, FirstCall DEF CallConnects, WriteMsg
  <2>3. error' # NoError => Quiet'
    BY <1>a, <2>1, <2>2, NothingSent DEF Quiet, SendPending
  <2> QED
    BY <1>c, <2>1, <2>3
<1>5. ASSUME NEW d \in Calls, CallConnecting(d) PROVE SoleCall(c)'
  <2>1. d \notin made /\ Identify(d) /\ error' = error
        /\ UNCHANGED <<canceled, reused, runs, outcome, read>>
    BY <1>5 DEF CallConnecting
  <2> QED
    BY <1>c, <2>1, FirstCall
<1>6. ASSUME NEW d \in Calls, CallFailsToConnect(d) PROVE SoleCall(c)'
  <2>1. /\ d \notin made /\ Identify(d)
        /\ UNCHANGED <<canceled, reused, runs, outcome, read, sock, writeHandler,
                       outOn, requests, replies>>
    BY <1>6 DEF CallFailsToConnect
  <2>2. Quiet'
    BY <1>a, <2>1, FirstCall, NothingSent DEF Quiet, SendPending
  <2> QED
    BY <1>c, <2>1, <2>2
<1>7. ASSUME NEW d \in Calls, ConnectHandler(d) PROVE SoleCall(c)'
  <2>1. /\ ~Quiet /\ sock # "connected" /\ sock' # "connecting"
        /\ UNCHANGED <<made, reused, runs, outcome, read, canceled, requests, replies>>
    BY <1>7 DEF ConnectHandler, Quiet
  <2>2. error' = error \/ ~outOn'
    BY <1>7 DEF ConnectHandler, WriteMsg
  <2>3. error' # error => Quiet'
    BY <1>a, <2>1, <2>2, NothingSent DEF Quiet, SendPending
  <2> QED
    BY <1>e, <2>1, <2>3
<1>8. CASE OnWriteAll \/ OnWriteAgain
  <2>1. /\ ~Quiet
        /\ UNCHANGED <<made, reused, runs, outcome, read, canceled, error>>
    BY <1>8 DEF OnWriteAll, OnWriteAgain, Quiet, SendPending
  <2> QED
    BY <1>e, <2>1
<1>9. CASE OnReadReply
  <2>1. ~Quiet /\ Quiet'
    BY <1>9, LastReply DEF OnReadReply, Quiet
  <2>2. UNCHANGED <<made, reused, canceled, lastTimer>>
    BY <1>9, Delivered
  <2>3. /\ read[c] = {} /\ (error = NoError \/ canceled)
        /\ runs[c] > 0 => canceled /\ outcome[c] = "timeout"
        /\ runs[c] <= 1
    BY <1>d, <2>1, <2>2
  <2>4. CASE UNCHANGED <<timer, error, resultVars, loop>>
    BY <1>e, <2>1, <2>2, <2>4
  <2>5. ASSUME NEW e \in made, Deliver(Head(replies), e) PROVE SoleCall(c)'
    <3>1. e = c /\ Head(replies) \in Reply
      BY <1>9, <2>2, Delivered
    <3> DEFINE r == Head(replies)
    <3>2. read'[c] = {r.kind} /\ DeliverReply(r, c)
      BY <1>a, <2>3, <2>5, <3>1 DEF Deliver, TypeOK
    <3> HIDE DEF r
    <3>3. CASE UNCHANGED <<runs, outcome>>
      BY <2>1, <2>2, <2>3, <3>2, <3>3
    <3>4. CASE ~UNCHANGED <<runs, outcome>>
      <4>1. r.kind = "ok" /\ ~canceled /\ error' = error /\ RunClosure(c)
        BY <3>1, <3>2, <3>4 DEF DeliverReply, Reply, ReplyKinds, r
      <4>2. runs[c] = 0 /\ error = NoError
        BY <1>a, <2>3, <4>1 DEF TypeOK
      <4>3. runs'[c] = 1 /\ outcome'[c] = NoError
        BY <1>a, <3>4, <4>1, <4>2 DEF RunClosure, TypeOK
      <4> QED
        BY <2>1, <2>2, <3>2, <4>1, <4>3
    <3> QED
      BY <3>3, <3>4
  <2> QED
    BY <1>9, <2>4, <2>5, Delivered
<1>10. CASE OnReadClosed
  <2>1. Quiet => Quiet'
    BY <1>10 DEF OnReadClosed, Quiet, SendPending
  <2>2. UNCHANGED <<made, reused, runs, outcome, read, canceled, error>>
    BY <1>10 DEF OnReadClosed
  <2> QED
    BY <1>a, <2>1, <2>2
<1>11. ASSUME NEW d \in Calls, Timeout(d) PROVE SoleCall(c)'
  <2>1. d \in made /\ timer[d] = "armed"
    BY <1>11, <1>a DEF Timeout, Members
  <2>2. /\ canceled' /\ error' = "timeout" /\ RunClosure(d)
        /\ UNCHANGED <<made, reused, sock, writeHandler, outOn, requests, replies, read>>
    BY <1>11 DEF Timeout
  <2>3. d = c /\ runs[c] = 0 /\ read[c] = {}
    BY <1>a, <2>1, <2>2 DEF SoleTimer
  <2>4. runs'[c] = 0 \/ (runs'[c] = 1 /\ outcome'[c] = "timeout")
    BY <1>a, <2>2, <2>3 DEF RunClosure, TypeOK
  <2> QED
    BY <2>2, <2>3, <2>4
<1>12. CASE PeerReplies
  <2>1. /\ ~Quiet
        /\ UNCHANGED <<made, reused, runs, outcome, read, canceled, error>>
    BY <1>12 DEF PeerReplies, Quiet
  <2> QED
    BY <1>e, <2>1
<1>13. CASE UNCHANGED vars
  BY <1>13, <1>b DEF vars
<1> QED
  BY <1>1, <1>2, <1>3, <1>4, <1>5, <1>6, <1>7, <1>8, <1>9, <1>10, <1>11, <1>12,
     <1>13 DEF Next, CallMethod, Handler

LEMMA IInvariant == Spec => []IInv
<1>1. IInv /\ [Next]_vars => IInv'
  <2> SUFFICES ASSUME IInv, [Next]_vars PROVE IInv'
    OBVIOUS
  <2>1. TypeOK' /\ Members' /\ OneSend'
    BY NextTypeOK, NextMembers, NextOneSend
  <2>2. \A c \in Calls : SoleTimer(c)' /\ SoleCall(c)'
    BY NextSoleTimer, NextSoleCall
  <2> QED
    BY <2>1, <2>2 DEF IInv
<1> QED
  BY <1>1, InitIInv, PTL DEF Spec

-----------------------------------------------------------------------------
(* The state of a channel, its socket, its controller and its calls keeps to *)
(* its types, for any number of calls on the channel.                        *)
THEOREM CallTypes == Spec => []TypeOK
<1>1. IInv => TypeOK
  BY DEF IInv
<1> QED
  BY <1>1, IInvariant, PTL

(* At most one request ever leaves a channel, however many calls are made.   *)
THEOREM OneRequest == Spec => []OneRequestPerChannel
<1>1. IInv => OneRequestPerChannel
  <2> SUFFICES ASSUME IInv PROVE OneRequestPerChannel
    OBVIOUS
  <2>1. writeDones \in Seq(Calls) /\ outbox \in Seq(Calls)
    BY DEF IInv, TypeOK
  <2>2. Len(Encoded) = Len(outbox) + Len(writeDones)
    BY <2>1, ConcatProperties DEF Encoded
  <2> QED
    BY <2>2 DEF IInv, OneSend, OneRequestPerChannel
<1> QED
  BY <1>1, IInvariant, PTL

(* The closure of a channel's only call runs once at most (rpc_channel.cpp   *)
(* 65-119): reply and timeout exclude each other.                            *)
THEOREM ClosureRunsOnce == Spec => []ClosureOncePerController
<1>1. IInv => ClosureOncePerController
  BY DEF IInv, SoleCall, ClosureOncePerController
<1> QED
  BY <1>1, IInvariant, PTL

(* The closure of a channel's only call sees the error code of the outcome.  *)
THEOREM ClosureIsTold == Spec => []ClosureSeesOutcome
<1>1. IInv => ClosureSeesOutcome
  BY DEF IInv, SoleCall, ClosureSeesOutcome
<1> QED
  BY <1>1, IInvariant, PTL

(* Once the only call of a channel has its reply, its timer never fires.     *)
THEOREM TimerEndsWithReply == Spec => []ReplyCancelsTimer
<1>1. IInv => ReplyCancelsTimer
  BY DEF IInv, SoleTimer, ReplyCancelsTimer
<1> QED
  BY <1>1, IInvariant, PTL
=============================================================================
