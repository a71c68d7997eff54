------------------------------ MODULE RpcCall ------------------------------
(* The client side of an RPC: kabi::rpcChannel::CallMethod, the callbacks it *)
(* chains through tcpClient and tcpConnection, its controller and the one    *)
(* shot timer of every call.  All of it runs on the thread of one event      *)
(* loop; an action is one closure of that loop, or one call of the           *)
(* application.  The peer and the network answer, refuse, delay or vanish.   *)
EXTENDS Naturals, Sequences, FiniteSets

CONSTANTS Calls,    \* the calls the application makes on the channel
          NoCall

ASSUME CallsAssumption == NoCall \notin Calls /\ IsFiniteSet(Calls)

(* The handlers that m_write_callback of the socket's fdEvent can be.        *)
NoHandler == "none"
OnWrite   == "on_write"
ASSUME HandlersAssumption == NoHandler \notin Calls /\ OnWrite \notin Calls

NoError == "none"
ConnectErrors == {"peerClosed", "failedConnect"}
Errors  == {NoError, "channelInit", "serialize", "timeout", "reply"}
             \cup ConnectErrors
NotRun  == "notRun"

VARIABLES
    isInit,      \* m_is_init
    hasClosure,  \* m_closure is not null
    made,        \* the calls CallMethod was called for
    id,          \* the message id a call was sent under
    msgId,       \* the controller's m_msg_id
    error,       \* the controller's m_error_code
    canceled,    \* the controller's m_is_cancled
    reused,      \* the application has called the controller's Reset
    timer,       \* the one shot timer of each call
    lastTimer,   \* m_timer_event: the call whose timer the channel points to
    sock,        \* the kernel's view of the client socket
    connError,   \* m_connect_error_code
    connected,   \* m_connection's state is CONNECTED
    writeHandler,\* m_write_callback: a call stands for its connect handler
    outOn,       \* EPOLLOUT is registered
    inOn,        \* EPOLLIN is registered
    writeDones,  \* m_write_dones
    outbox,      \* the messages of m_out_buffer
    requests,    \* what the peer has received and not looked at
    replies,     \* what the peer has sent and on_read has not read
    readDones,   \* m_read_dones: the call waiting for each message id
    runs,        \* how often the closure ran for a call
    outcome,     \* the error code the closure saw when it ran for a call
    read,        \* the replies a call has received
    loop         \* the event loop

sockVars    == <<sock, connError, connected, writeHandler, outOn, inOn>>
streamVars  == <<writeDones, outbox, requests, replies, readDones>>
channelVars == <<isInit, hasClosure, made, id, msgId>>
controlVars == <<error, canceled, reused>>
resultVars  == <<runs, outcome, read>>
vars == <<channelVars, controlVars, timer, lastTimer, sockVars, streamVars,
          resultVars, loop>>

ReplyKinds == {"ok", "error", "garbled"}
Reply == [id : Calls, kind : ReplyKinds]

TypeOK ==
    /\ isInit \in BOOLEAN /\ hasClosure \in BOOLEAN
    /\ made \in SUBSET Calls
    /\ id \in [Calls -> Calls \cup {NoCall}]
    /\ msgId \in Calls \cup {NoCall}
    /\ error \in Errors /\ canceled \in BOOLEAN /\ reused \in BOOLEAN
    /\ timer \in [Calls -> {"none", "armed", "canceled", "over"}]
    /\ lastTimer \in Calls \cup {NoCall}
    /\ sock \in {"fresh", "connecting", "connected", "reopened"}
    /\ connError \in ConnectErrors \cup {NoError}
    /\ connected \in BOOLEAN
    /\ writeHandler \in Calls \cup {NoHandler, OnWrite}
    /\ outOn \in BOOLEAN /\ inOn \in BOOLEAN
    /\ writeDones \in Seq(Calls) /\ outbox \in Seq(Calls)
    /\ requests \in Seq(Calls) /\ replies \in Seq(Reply)
    /\ readDones \in [Calls -> Calls \cup {NoCall}]
    /\ runs \in [Calls -> Nat]
    /\ outcome \in [Calls -> Errors \cup {NotRun}]
    /\ read \in [Calls -> SUBSET ReplyKinds]
    /\ loop \in {"notStarted", "running", "stopping", "stopped"}

(* The thread's loop may be running already, or be started by tcp_connect.   *)
Init ==
    /\ isInit = FALSE /\ hasClosure = FALSE
    /\ made = {}
    /\ id = [c \in Calls |-> NoCall]
    /\ msgId = NoCall
    /\ error = NoError /\ canceled = FALSE /\ reused = FALSE
    /\ timer = [c \in Calls |-> "none"]
    /\ lastTimer = NoCall
    /\ sock = "fresh" /\ connError = NoError /\ connected = FALSE
    /\ writeHandler = NoHandler /\ outOn = FALSE /\ inOn = FALSE
    /\ writeDones = <<>> /\ outbox = <<>>
    /\ requests = <<>> /\ replies = <<>>
    /\ readDones = [c \in Calls |-> NoCall]
    /\ runs = [c \in Calls |-> 0]
    /\ outcome = [c \in Calls |-> NotRun]
    /\ read = [c \in Calls |-> {}]
    /\ loop \in {"notStarted", "running"}

LoopAlive == loop \in {"running", "stopping"}

-----------------------------------------------------------------------------
(* getClosure()->Run().  The application's closure may stop the loop         *)
(* (tcpClient::stop), as those of the test clients do.                       *)
RunClosure(c) ==
    IF hasClosure
    THEN /\ runs' = [runs EXCEPT ![c] = @ + 1]
         /\ outcome' = [outcome EXCEPT ![c] = error']
         /\ loop' \in {loop, IF loop = "running" THEN "stopping" ELSE loop}
    ELSE UNCHANGED <<runs, outcome, loop>>

(* rpc_channel_init: later calls return without effect.                      *)
ChannelInit ==
    /\ ~isInit
    /\ isInit' = TRUE
    /\ hasClosure' \in BOOLEAN
    /\ UNCHANGED <<made, id, msgId, controlVars, timer, lastTimer, sockVars,
                   streamVars, resultVars, loop>>

(* rpcController::Reset, by an application about to use the controller for   *)
(* its next call.                                                            *)
ResetController ==
    /\ \E c \in made : runs[c] > 0
    /\ error' = NoError /\ canceled' = FALSE /\ msgId' = NoCall
    /\ reused' = TRUE
    /\ UNCHANGED <<isInit, hasClosure, made, id, timer, lastTimer, sockVars,
                   streamVars, resultVars, loop>>

(* CallMethod up to tcp_connect: an id for the request, the early returns,   *)
(* and the timer.                                                            *)
KeepOldId(c) ==                  \* mutant: no id is generated
    /\ made' = made \cup {c}
    /\ id' = [id EXCEPT ![c] = msgId]
    /\ UNCHANGED <<msgId, isInit, hasClosure>>
Identify(c) ==
    /\ made' = made \cup {c}
    /\ msgId' = IF msgId = NoCall THEN c ELSE msgId
    /\ id' = [id EXCEPT ![c] = msgId']
    /\ UNCHANGED <<isInit, hasClosure>>

CallNotInit(c) ==
    /\ c \notin made /\ ~isInit
    /\ Identify(c)
    /\ error' = "channelInit"
    /\ UNCHANGED <<canceled, reused, timer, lastTimer, sockVars, streamVars,
                   resultVars, loop>>

CallSerializeFails(c) ==
    /\ c \notin made /\ isInit
    /\ Identify(c)
    /\ error' = "serialize"
    /\ UNCHANGED <<canceled, reused, timer, lastTimer, sockVars, streamVars,
                   resultVars, loop>>

ArmNoTimer(c) ==                 \* mutant: add_timer_event is forgotten
    /\ lastTimer' = c
    /\ UNCHANGED timer
ArmTimer(c) ==
    /\ timer' = [timer EXCEPT ![c] = "armed"]
    /\ lastTimer' = c

(* The callback given to tcp_connect: it looks at m_connect_error_code, then *)
(* hands the request to write_msg.                                           *)
ConnectFailed == /\ connError' # NoError
                 /\ error' = connError'
                 /\ UNCHANGED writeDones
WriteMsg(c)   == /\ connError' = NoError
                 /\ writeDones' = Append(writeDones, c)
                 /\ writeHandler' = OnWrite
                 /\ outOn' = TRUE
                 /\ UNCHANGED error

(* connect() returns 0: at once, on a blocking socket, or because the        *)
(* handshake an earlier call began is over.  That call's handler is dropped. *)
CallConnects(c) ==
    /\ c \notin made /\ isInit /\ sock # "connected"
    /\ Identify(c) /\ ArmTimer(c)
    /\ sock' = "connected" /\ connected' = TRUE /\ inOn' = FALSE
    /\ UNCHANGED connError
    /\ \/ WriteMsg(c)
       \/ ConnectFailed /\ outOn' = FALSE /\ UNCHANGED writeHandler
    /\ UNCHANGED <<canceled, reused, outbox, requests, replies, readDones, resultVars,
                   loop>>

(* EINPROGRESS: the connect handler waits for EPOLLOUT; loop() starts unless *)
(* the loop has ever run.                                                    *)
CallConnecting(c) ==
    /\ c \notin made /\ isInit /\ sock = "fresh"
    /\ Identify(c) /\ ArmTimer(c)
    /\ sock' = "connecting"
    /\ writeHandler' = c /\ outOn' = TRUE
    /\ loop' = IF loop = "notStarted" THEN "running" ELSE loop
    /\ UNCHANGED <<controlVars, connError, connected, inOn, streamVars,
                   resultVars>>

(* Any other result, among them EALREADY and EISCONN on a socket that is     *)
(* connecting or connected.                                                  *)
CallFailsToConnect(c) ==
    /\ c \notin made /\ isInit
    /\ Identify(c) /\ ArmTimer(c)
    /\ connError' = "failedConnect"
    /\ ConnectFailed
    /\ UNCHANGED <<canceled, reused, sock, connected, writeHandler, outOn, inOn,
                   outbox, requests, replies, readDones, resultVars, loop>>

CallMethod(c) == \/ CallNotInit(c) \/ CallSerializeFails(c) \/ CallConnects(c)
                 \/ CallConnecting(c) \/ CallFailsToConnect(c)

-----------------------------------------------------------------------------
(* The connect handler, when the socket becomes writable: the fd leaves      *)
(* epoll, then the callback runs.  A refusal closes the socket and makes a   *)
(* new one, a blocking one; m_connect_error_code is never reset.             *)
ConnectHandler(c) ==
    /\ LoopAlive /\ outOn /\ writeHandler = c /\ sock = "connecting"
    /\ inOn' = FALSE
    /\ \/ /\ sock' = "connected" /\ connected' = TRUE
          /\ UNCHANGED connError
       \/ /\ sock' = "reopened" /\ UNCHANGED connected
          /\ connError' \in ConnectErrors
    /\ \/ WriteMsg(c)
       \/ ConnectFailed /\ outOn' = FALSE /\ UNCHANGED writeHandler
    /\ UNCHANGED <<channelVars, canceled, reused, timer, lastTimer, outbox, requests,
                   replies, readDones, resultVars, loop>>

(* on_write encodes m_write_dones behind what m_out_buffer already holds and *)
(* writes all of it, or stops at EAGAIN; either way it calls the done of     *)
(* every message, which registers the read side of the call (read_msg).      *)
Registered(dones) ==
    [m \in Calls |->
        IF readDones[m] # NoCall \/ \A i \in DOMAIN dones : id[dones[i]] # m
        THEN readDones[m]
        ELSE dones[CHOOSE i \in DOMAIN dones :
                      /\ id[dones[i]] = m
                      /\ \A j \in 1 .. i - 1 : id[dones[j]] # m]]

Encoded == outbox \o writeDones

KeepWriteDones ==                \* mutant: m_write_dones is not cleared
    /\ LoopAlive /\ outOn /\ writeHandler = OnWrite /\ connected
    /\ outOn' = FALSE
    /\ outbox' = Encoded
    /\ requests' = requests \o Encoded
    /\ readDones' = Registered(writeDones)
    /\ inOn' = (inOn \/ writeDones # <<>>)
    /\ UNCHANGED <<channelVars, controlVars, timer, lastTimer, sock, connError,
                   connected, writeHandler, writeDones, replies, resultVars,
                   loop>>
OnWriteAll ==
    /\ LoopAlive /\ outOn /\ writeHandler = OnWrite /\ connected
    /\ outOn' = FALSE
    /\ outbox' = Encoded
    /\ requests' = requests \o Encoded
    /\ writeDones' = <<>>
    /\ readDones' = Registered(writeDones)
    /\ inOn' = (inOn \/ writeDones # <<>>)
    /\ UNCHANGED <<channelVars, controlVars, timer, lastTimer, sock, connError,
                   connected, writeHandler, replies, resultVars, loop>>

OnWriteAgain ==
    /\ LoopAlive /\ outOn /\ writeHandler = OnWrite /\ connected
    /\ outbox' = Encoded
    /\ Encoded # <<>>
    /\ writeDones' = <<>>
    /\ readDones' = Registered(writeDones)
    /\ inOn' = (inOn \/ writeDones # <<>>)
    /\ UNCHANGED <<channelVars, controlVars, timer, lastTimer, sock, connError,
                   connected, writeHandler, outOn, requests, replies,
                   resultVars, loop>>

(* on_read: a reply for a message id nobody waits for is dropped.            *)
DeliverReply(r, c) ==
    CASE r.kind = "garbled" -> /\ error' = "serialize"
                               /\ UNCHANGED <<runs, outcome, loop>>
      [] r.kind = "error"   -> /\ error' = "reply"
                               /\ UNCHANGED <<runs, outcome, loop>>
      [] r.kind = "ok"      -> /\ UNCHANGED error
                               /\ IF canceled
                                  THEN UNCHANGED <<runs, outcome, loop>>
                                  ELSE RunClosure(c)

DeliverKeepingTimer(r, c) ==     \* mutant: the timer is not canceled
    /\ UNCHANGED timer
    /\ read' = [read EXCEPT ![c] = @ \cup {r.kind}]
    /\ DeliverReply(r, c)
Deliver(r, c) ==
    /\ timer' = IF lastTimer # NoCall /\ timer[lastTimer] = "armed"
                THEN [timer EXCEPT ![lastTimer] = "canceled"] ELSE timer
    /\ read' = [read EXCEPT ![c] = @ \cup {r.kind}]
    /\ DeliverReply(r, c)

OnReadReply ==
    /\ LoopAlive /\ inOn /\ connected /\ replies # <<>>
    /\ replies' = Tail(replies)
    /\ LET c == readDones[Head(replies).id]
       IN  IF c # NoCall
           THEN Deliver(Head(replies), c)
           ELSE UNCHANGED <<timer, error, resultVars, loop>>
    /\ UNCHANGED <<channelVars, canceled, reused, lastTimer, sockVars, writeDones,
                   outbox, requests, readDones>>

(* The peer has closed: clear() removes the fd from epoll.                   *)
OnReadClosed ==
    /\ LoopAlive /\ inOn /\ connected /\ replies = <<>>
    /\ connected' = FALSE /\ outOn' = FALSE /\ inOn' = FALSE
    /\ UNCHANGED <<channelVars, controlVars, timer, lastTimer, sock, connError,
                   writeHandler, streamVars, resultVars, loop>>

(* The timer of a call is due and not canceled: the call is canceled and the *)
(* closure told.                                                             *)
TimeoutBeforeError(c) ==         \* mutant: SetError follows the closure
    /\ LoopAlive /\ timer[c] = "armed"
    /\ timer' = [timer EXCEPT ![c] = "over"]
    /\ canceled' = TRUE
    /\ UNCHANGED error
    /\ RunClosure(c)
    /\ UNCHANGED <<channelVars, reused, lastTimer, sockVars, streamVars, read>>
Timeout(c) ==
    /\ LoopAlive /\ timer[c] = "armed"
    /\ timer' = [timer EXCEPT ![c] = "over"]
    /\ canceled' = TRUE
    /\ error' = "timeout"
    /\ RunClosure(c)
    /\ UNCHANGED <<channelVars, reused, lastTimer, sockVars, streamVars, read>>

LoopExits ==
    /\ loop = "stopping"
    /\ loop' = "stopped"
    /\ UNCHANGED <<channelVars, controlVars, timer, lastTimer, sockVars,
                   streamVars, resultVars>>

-----------------------------------------------------------------------------
(* The peer answers a request under the request's id, or never does.         *)
PeerReplies ==
    /\ requests # <<>>
    /\ requests' = Tail(requests)
    /\ \/ \E k \in ReplyKinds :
             replies' = Append(replies, [id |-> id[Head(requests)], kind |-> k])
       \/ UNCHANGED replies
    /\ UNCHANGED <<channelVars, controlVars, timer, lastTimer, sockVars,
                   writeDones, outbox, readDones, resultVars, loop>>

Handler == \/ \E c \in Calls : ConnectHandler(c)
           \/ OnWriteAll \/ OnWriteAgain \/ OnReadReply \/ OnReadClosed

Next == \/ ChannelInit \/ ResetController \/ \E c \in Calls : CallMethod(c)
        \/ Handler \/ \E c \in Calls : Timeout(c)
        \/ LoopExits \/ PeerReplies

Spec == Init /\ [][Next]_vars

(* A loop that runs gets to a timer that is due; the network and the peer    *)
(* owe nothing.                                                              *)
Fairness == \A c \in Calls : WF_vars(Timeout(c))
FairSpec == Spec /\ Fairness

-----------------------------------------------------------------------------
(* Whatever the application calls and the socket answers, at most one        *)
(* request ever leaves a channel: m_out_buffer is never emptied, and a       *)
(* second message behind the first would send the first again.               *)
OneRequestPerChannel ==
    /\ Len(Encoded) <= 1
    /\ Len(requests) + Len(replies) <= 1

(* The only call of a channel whose controller is not reset runs its closure *)
(* once at most, whichever of reply and timeout comes first.                 *)
ClosureOncePerController ==
    \A c \in Calls : ~reused /\ made \subseteq {c} => runs[c] <= 1

(* The closure learns of success only if an ok reply was read, and of        *)
(* failure only by the timeout.                                              *)
ClosureSeesOutcome ==
    \A c \in Calls :
        ~reused /\ made \subseteq {c} /\ runs[c] > 0 =>
            \/ outcome[c] = "timeout"
            \/ outcome[c] = NoError /\ read[c] = {"ok"}

(* "取消以后当成功读取到回包后，定时任务即使到达时间也不会调用"                       *)
(* (rpc_channel.cpp:96): no timer is left to fire for a call that has its    *)
(* reply, if it is the channel's only call.                                  *)
ReplyCancelsTimer ==
    \A c \in Calls : made \subseteq {c} /\ read[c] # {} => timer[c] # "armed"

(* While the loop runs every call comes to an end: its closure runs, or the  *)
(* controller holds an error (which lasts until it is reset).                *)
EveryCallSettles ==
    \A c \in Calls :
        (c \in made /\ LoopAlive /\ hasClosure)
            ~> (runs[c] > 0 \/ error # NoError \/ ~LoopAlive \/ reused)

=============================================================================
