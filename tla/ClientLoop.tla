----------------------------- MODULE ClientLoop -----------------------------
(* The tcpClients one thread creates, one after another or from each other's *)
(* callbacks, and what they share: the thread's eventloop with its           *)
(* m_listen_fds, and one fdEvent per fd number that the global fdEventGroup  *)
(* keeps when the fd is closed.  The kernel gives out the lowest free fd and *)
(* forgets a closed fd's registration; m_listen_fds does not.  Data, timers  *)
(* and other threads' loops are left out.                                    *)
EXTENDS Integers, Sequences, FiniteSets, SequencesExt

CONSTANTS
    Clients,        \* tcpClient objects
    Fds,            \* the fd numbers sockets can get, enough for all clients
    NoFd, NoClient

ASSUME ClientLoopFds ==
    /\ Fds \subseteq Nat /\ IsFiniteSet(Fds) /\ IsFiniteSet(Clients)
    /\ Cardinality(Fds) >= Cardinality(Clients)
    /\ NoFd \notin Fds /\ NoClient \notin Clients

VARIABLES
    live,       \* the clients that exist
    fd,         \* m_fd
    ev,         \* the fd number of m_fd_event
    state,      \* m_connection's m_state
    step,       \* what a client is waiting for
    sock,       \* the kernel's end of the socket
    unsent,     \* the clients whose last write() was cut short
    answered,   \* the clients whose tcp_connect callback has run
    epoll,      \* the registered fds, with the events asked for
    listenFds,  \* m_listen_fds
    events,     \* m_listen_events of each fdEvent
    readCb,     \* m_read_callback: the client it calls on_read for
    writeCb,    \* m_write_callback: a kind and the client
    tasks,      \* the callbacks of this round of loop()
    control,    \* who runs: main code, loop(), or a client's callback
    looping,    \* m_is_looping
    stopped,    \* m_stop_flag
    broken      \* a callback has run for a client that is gone

clientVars == <<live, fd, ev, state, step, sock, unsent, answered, epoll,
                listenFds, events, readCb, writeCb, tasks, control, looping,
                stopped, broken>>

Bits == SUBSET {"in", "out"}
Task == {"connect", "write", "read"} \X (Clients \cup {NoClient})

TypeOK ==
    /\ live \in SUBSET Clients
    /\ fd \in [Clients -> Fds \cup {NoFd}] /\ ev \in [Clients -> Fds \cup {NoFd}]
    /\ state \in [Clients -> {"notConnected", "connected", "closed"}]
    /\ step \in [Clients -> {"idle", "connecting", "writing", "reading", "over"}]
    /\ sock \in [Clients -> {"new", "inprogress", "up", "refused", "replied",
                             "eof"}]
    /\ unsent \in SUBSET Clients /\ answered \in SUBSET Clients
    /\ DOMAIN epoll \subseteq Fds /\ \A f \in DOMAIN epoll : epoll[f] \in Bits
    /\ listenFds \in SUBSET Fds
    /\ events \in [Fds -> Bits]
    /\ readCb \in [Fds -> Clients \cup {NoClient}]
    /\ writeCb \in [Fds -> Task]
    /\ tasks \in Seq(Task)
    /\ control \in {"main", "loop"} \cup Clients
    /\ looping \in BOOLEAN /\ stopped \in BOOLEAN /\ broken \in BOOLEAN

Init ==
    /\ live = {}
    /\ fd = [c \in Clients |-> NoFd] /\ ev = fd
    /\ state = [c \in Clients |-> "notConnected"]
    /\ step = [c \in Clients |-> "idle"]
    /\ sock = [c \in Clients |-> "new"]
    /\ unsent = {} /\ answered = {}
    /\ epoll = [f \in {} |-> {}]
    /\ listenFds = {}
    /\ events = [f \in Fds |-> {}]
    /\ readCb = [f \in Fds |-> NoClient]
    /\ writeCb = [f \in Fds |-> <<"connect", NoClient>>]
    /\ tasks = <<>>
    /\ control = "main"
    /\ looping = FALSE /\ stopped = FALSE /\ broken = FALSE

-----------------------------------------------------------------------------
(* epoll_ctl                                                                 *)
Put(f, bits) ==
    [g \in DOMAIN epoll \cup {f} |-> IF g = f THEN bits ELSE epoll[g]]
Dropped(fs)  == [g \in DOMAIN epoll \ fs |-> epoll[g]]

(* add_epoll_event in the loop's thread: EPOLL_CTL_MOD if the number is in   *)
(* m_listen_fds, whatever the kernel knows; a failure is only logged.        *)
AddSwapped(f, bits) ==           \* mutant: ADD and MOD the wrong way round
    /\ epoll' = IF (f \in listenFds) = (f \notin DOMAIN epoll)
                THEN Put(f, bits) ELSE epoll
    /\ listenFds' = listenFds \cup {f}
AddEpollEvent(f, bits) ==
    /\ epoll' = IF (f \in listenFds) = (f \in DOMAIN epoll) THEN Put(f, bits)
                ELSE epoll
    /\ listenFds' = listenFds \cup {f}

(* del_epoll_event followed by add_epoll_event registers the fd afresh.      *)
DelAndAdd(f, bits) ==
    /\ epoll' = IF f \in DOMAIN epoll /\ f \notin listenFds THEN epoll
                ELSE Put(f, bits)
    /\ listenFds' = listenFds \cup {f}

(* fdEvent::listen and fdEvent::cancel                                       *)
ListenOut(f, kind, c) ==
    /\ events' = [events EXCEPT ![f] = @ \cup {"out"}]
    /\ writeCb' = [writeCb EXCEPT ![f] = <<kind, c>>]
ListenIn(f, c) == readCb' = [readCb EXCEPT ![f] = c]

Owned   == {fd[c] : c \in live}
Lowest(fs) == CHOOSE f \in fs : \A g \in fs : f <= g

-----------------------------------------------------------------------------
(* What a thread's own code may do, outside loop() or in a callback.         *)
UserCode == control # "loop" /\ ~broken

(* tcpClient::tcpClient                                                      *)
Create(c) ==
    /\ UserCode
    /\ fd[c] = NoFd
    /\ live' = live \cup {c}
    /\ fd' = [fd EXCEPT ![c] = Lowest(Fds \ Owned)]
    /\ ev' = [ev EXCEPT ![c] = fd'[c]]
    /\ UNCHANGED <<state, step, sock, unsent, answered, epoll, listenFds,
                   events, readCb, writeCb, tasks, control, looping, stopped,
                   broken>>

(* The callback of tcp_connect: on success it sends a message (write_msg).   *)
SendMessageUnheard(c) ==         \* mutant: m_write_callback is kept
    /\ answered' = answered \cup {c}
    /\ step' = [step EXCEPT ![c] = "writing"]
    /\ events' = [events EXCEPT ![ev[c]] = @ \cup {"out"}]
    /\ UNCHANGED writeCb
SendMessage(c) ==
    /\ answered' = answered \cup {c}
    /\ step' = [step EXCEPT ![c] = "writing"]
    /\ ListenOut(ev[c], "write", c)

(* tcp_connect, connect() == 0: the loop is not started.                     *)
ConnectNow(c) ==
    /\ UserCode
    /\ c \in live /\ step[c] = "idle"
    /\ sock' = [sock EXCEPT ![c] = "up"]
    /\ state' = [state EXCEPT ![c] = "connected"]
    /\ SendMessage(c)
    /\ DelAndAdd(ev[c], events[ev[c]] \cup {"out"})
    /\ UNCHANGED <<live, fd, ev, unsent, readCb, tasks, control, looping,
                   stopped, broken>>

(* ... EINPROGRESS: wait for EPOLLOUT; loop() if it has never been called.   *)
ConnectLater(c) ==
    /\ UserCode
    /\ c \in live /\ step[c] = "idle"
    /\ sock' = [sock EXCEPT ![c] = "inprogress"]
    /\ step' = [step EXCEPT ![c] = "connecting"]
    /\ ListenOut(ev[c], "connect", c)
    /\ AddEpollEvent(ev[c], events[ev[c]] \cup {"out"})
    /\ control' = IF looping THEN control ELSE "loop"
    /\ looping' = TRUE
    /\ UNCHANGED <<live, fd, ev, state, unsent, answered, readCb, tasks,
                   stopped, broken>>

(* ... any other error: the callback runs with an error code set.            *)
ConnectFails(c) ==
    /\ UserCode
    /\ c \in live /\ step[c] = "idle"
    /\ step' = [step EXCEPT ![c] = "over"]
    /\ answered' = answered \cup {c}
    /\ UNCHANGED <<live, fd, ev, state, sock, unsent, epoll, listenFds, events,
                   readCb, writeCb, tasks, control, looping, stopped, broken>>

(* tcpClient::stop                                                           *)
Stop(c) ==
    /\ UserCode
    /\ c \in live /\ looping /\ ~stopped
    /\ stopped' = TRUE
    /\ UNCHANGED <<live, fd, ev, state, step, sock, unsent, answered, epoll,
                   listenFds, events, readCb, writeCb, tasks, control, looping,
                   broken>>

(* ~tcpClient closes the fd.  In loop() a client that is finished can be     *)
(* destroyed by the callback of another.                                     *)
DestroyUnclosed(c) ==            \* mutant: the fd is not closed
    /\ UserCode
    /\ c \in live /\ (control = "main" \/ (control # c /\ step[c] = "over"))
    /\ live' = live \ {c}
    /\ UNCHANGED <<fd, ev, state, step, sock, unsent, answered, epoll,
                   listenFds, events, readCb, writeCb, tasks, control,
                   looping, stopped, broken>>
Destroy(c) ==
    /\ UserCode
    /\ c \in live /\ (control = "main" \/ (control # c /\ step[c] = "over"))
    /\ live' = live \ {c}
    /\ epoll' = Dropped({fd[c]})
    /\ UNCHANGED <<fd, ev, state, step, sock, unsent, answered, listenFds,
                   events, readCb, writeCb, tasks, control, looping, stopped,
                   broken>>

(* A callback returns to loop().                                             *)
Return ==
    /\ UserCode /\ control # "main"
    /\ control' = "loop"
    /\ UNCHANGED <<live, fd, ev, state, step, sock, unsent, answered, epoll,
                   listenFds, events, readCb, writeCb, tasks, looping, stopped,
                   broken>>

-----------------------------------------------------------------------------
Owner(f) == CHOOSE c \in live : fd[c] = f

(* What epoll_wait reports of a registered fd, and the callbacks that        *)
(* loop() queues for it.                                                     *)
Reported(f) ==
    CASE sock[Owner(f)] = "refused" -> epoll[f] \cup {"err"}
      [] sock[Owner(f)] \in {"replied", "eof"} -> epoll[f]
      [] sock[Owner(f)] = "up" -> epoll[f] \cap {"out"}
      [] OTHER -> {}
Queued(f) ==
    (IF "in" \in Reported(f) THEN <<<<"read", readCb[f]>>>> ELSE <<>>)
    \o (IF "out" \in Reported(f) THEN <<writeCb[f]>> ELSE <<>>)

InLoop == control = "loop" /\ ~broken

(* One epoll_wait.  EPOLLERR takes the fd out of the epoll set; there is no  *)
(* error callback to queue, as no caller gives fdEvent::listen one.          *)
Poll ==
    /\ InLoop
    /\ tasks = <<>> /\ ~stopped
    /\ LET ready  == {f \in DOMAIN epoll : Reported(f) # {}}
           failed == {f \in ready : "err" \in Reported(f)}
       IN  /\ ready # {}
           /\ \E order \in SetToSeqs(ready) :
                 tasks' = FlattenSeq([i \in DOMAIN order |-> Queued(order[i])])
           /\ epoll' = Dropped(failed \cap listenFds)
           /\ listenFds' = listenFds \ failed
    /\ UNCHANGED <<live, fd, ev, state, step, sock, unsent, answered, events,
                   readCb, writeCb, control, looping, stopped, broken>>

(* loop() ends after the round in which stop() was called; what its last     *)
(* epoll_wait reports stays in m_pending_tasks.                              *)
LeaveLoop ==
    /\ InLoop
    /\ tasks = <<>> /\ stopped
    /\ control' = "main"
    /\ UNCHANGED <<live, fd, ev, state, step, sock, unsent, answered, epoll,
                   listenFds, events, readCb, writeCb, tasks, looping, stopped,
                   broken>>

Runs(kind, c) ==
    /\ InLoop
    /\ tasks # <<>> /\ Head(tasks) = <<kind, c>>
    /\ tasks' = Tail(tasks)

(* A callback bound to an object that is gone: anything may happen.          *)
CallGone ==
    /\ \E kind \in {"connect", "write", "read"} :
          \E c \in (Clients \cup {NoClient}) \ live : Runs(kind, c)
    /\ broken' = TRUE
    /\ UNCHANGED <<live, fd, ev, state, step, sock, unsent, answered, epoll,
                   listenFds, events, readCb, writeCb, control, looping,
                   stopped>>

(* The callback that waits for the connection: a second connect() tells.     *)
ConnectedCb(c) ==
    /\ Runs("connect", c)
    /\ c \in live /\ sock[c] # "refused"
    /\ state' = [state EXCEPT ![c] = "connected"]
    /\ SendMessage(c)
    /\ DelAndAdd(ev[c], events[ev[c]] \cup {"out"})
    /\ control' = c
    /\ UNCHANGED <<live, fd, ev, sock, unsent, readCb, looping, stopped,
                   broken>>

(* ... it failed: a new socket replaces the old one, unconnected.            *)
RefusedCb(c) ==
    /\ Runs("connect", c)
    /\ c \in live /\ sock[c] = "refused"
    /\ fd' = [fd EXCEPT ![c] = Lowest((Fds \ Owned) \cup {fd[c]})]
    /\ sock' = [sock EXCEPT ![c] = "new"]
    /\ epoll' = Dropped({fd[c]})
    /\ listenFds' = listenFds \ {ev[c]}
    /\ step' = [step EXCEPT ![c] = "over"]
    /\ answered' = answered \cup {c}
    /\ control' = c
    /\ UNCHANGED <<live, ev, state, unsent, events, readCb, writeCb, looping,
                   stopped, broken>>

(* on_write: all is sent and EPOLLOUT cancelled, or the socket is full; the  *)
(* callbacks of the messages run either way and wait for the reply.          *)
OnWriteUncancelled(c) ==         \* mutant: EPOLLOUT is not cancelled
    /\ Runs("write", c)
    /\ c \in live
    /\ unsent' = unsent \ {c}
    /\ step' = [step EXCEPT ![c] = "reading"]
    /\ events' = [events EXCEPT ![ev[c]] = @ \cup {"in"}]
    /\ ListenIn(ev[c], c)
    /\ AddEpollEvent(ev[c], events'[ev[c]])
    /\ control' = c
    /\ UNCHANGED <<live, fd, ev, state, sock, answered, writeCb, looping,
                   stopped, broken>>
OnWrite(c) ==
    /\ Runs("write", c)
    /\ c \in live
    /\ IF state[c] # "connected"
       THEN UNCHANGED <<unsent, step, events, readCb, epoll, listenFds, control>>
       ELSE /\ \E all \in BOOLEAN :
                  LET kept == events[ev[c]] \ (IF all THEN {"out"} ELSE {})
                      next == IF step[c] = "writing" THEN kept \cup {"in"}
                              ELSE kept
                  IN  /\ unsent' = IF all THEN unsent \ {c}
                                   ELSE unsent \cup {c}
                      /\ events' = [events EXCEPT ![ev[c]] = next]
                      /\ IF all \/ step[c] = "writing"
                         THEN AddEpollEvent(ev[c], next)
                         ELSE UNCHANGED <<epoll, listenFds>>
            /\ IF step[c] = "writing"
               THEN /\ step' = [step EXCEPT ![c] = "reading"]
                    /\ ListenIn(ev[c], c)
                    /\ control' = c
               ELSE UNCHANGED <<step, readCb, control>>
    /\ UNCHANGED <<live, fd, ev, state, sock, answered, writeCb, looping,
                   stopped, broken>>

(* on_read: the reply's callback runs, or the peer has closed and clear()    *)
(* ends the connection.                                                      *)
OnRead(c) ==
    /\ Runs("read", c)
    /\ c \in live
    /\ IF state[c] = "connected" /\ sock[c] = "replied"
       THEN /\ sock' = [sock EXCEPT ![c] = "up"]
            /\ step' = [step EXCEPT ![c] = "over"]
            /\ control' = c
            /\ UNCHANGED <<state, events, epoll, listenFds>>
       ELSE IF state[c] = "connected" /\ sock[c] = "eof"
       THEN /\ state' = [state EXCEPT ![c] = "closed"]
            /\ step' = [step EXCEPT ![c] = "over"]
            /\ events' = [events EXCEPT ![ev[c]] = {}]
            /\ epoll' = IF ev[c] \in listenFds THEN Dropped({ev[c]}) ELSE epoll
            /\ listenFds' = listenFds \ {ev[c]}
            /\ UNCHANGED <<sock, control>>
       ELSE UNCHANGED <<state, sock, step, events, epoll, listenFds, control>>
    /\ UNCHANGED <<live, fd, ev, unsent, answered, readCb, writeCb, looping,
                   stopped, broken>>

-----------------------------------------------------------------------------
(* The peer and the network.                                                 *)
Network(c, before, after) ==
    /\ c \in live /\ sock[c] \in before /\ ~broken
    /\ sock' = [sock EXCEPT ![c] = after]
    /\ UNCHANGED <<live, fd, ev, state, step, unsent, answered, epoll,
                   listenFds, events, readCb, writeCb, tasks, control, looping,
                   stopped, broken>>

Establish(c) == Network(c, {"inprogress"}, "up")
Refuse(c)    == Network(c, {"inprogress"}, "refused")
Reply(c)     == step[c] = "reading" /\ c \notin unsent /\ Network(c, {"up"}, "replied")
PeerClose(c) == Network(c, {"up"}, "eof")

User(c)  == Create(c) \/ ConnectNow(c) \/ ConnectLater(c) \/ ConnectFails(c)
              \/ Stop(c) \/ Destroy(c)
Loop     == Poll \/ LeaveLoop \/ CallGone
              \/ \E c \in Clients : ConnectedCb(c) \/ RefusedCb(c)
                                      \/ OnWrite(c) \/ OnRead(c)

Next == \/ \E c \in Clients :
              User(c) \/ Establish(c) \/ Refuse(c) \/ Reply(c) \/ PeerClose(c)
        \/ Loop \/ Return

(* The thread goes on with loop() and returns from its callbacks, and a      *)
(* connection attempt ends one way or the other (SYN timeout).               *)
Spec == Init /\ [][Next]_clientVars
FairSpec ==
    /\ Spec
    /\ WF_clientVars(Loop) /\ WF_clientVars(Return)
    /\ \A c \in Clients : WF_clientVars(Establish(c) \/ Refuse(c))

-----------------------------------------------------------------------------

(* epoll never holds a closed fd or one whose EPOLLOUT callback belongs to   *)
(* an earlier client of the same number.  The EPOLLIN callback is the        *)
(* owner's once it has asked for its reply; before that, a client that       *)
(* connects at once may be registered for EPOLLIN with the callback an       *)
(* earlier client left in the fdEvent.                                       *)
RegisteredForOwner ==
    \A f \in DOMAIN epoll :
        \E c \in live :
            /\ fd[c] = f
            /\ "out" \in epoll[f] => writeCb[f][2] = c
            /\ state[c] = "connected" /\ step[c] # "writing" => readCb[f] = c

(* "不然会一直触发" (tcp_client.cpp:68): once all is sent, a connection that  *)
(* waits for the reply does not ask for EPOLLOUT, which would make loop()    *)
(* spin.                                                                     *)
WaitsQuietly ==
    \A c \in live :
        step[c] = "reading" /\ c \notin unsent /\ fd[c] \in DOMAIN epoll
            => "out" \notin epoll[fd[c]]

(* "如果连接完成，才会执行回调函数" (tcp_client.cpp:71): the callback of         *)
(* tcp_connect runs when the connection is made or refused, and not again:   *)
(* neither the round of loop() under way nor the client's fd has it still.   *)
ConnectCallbackOnce ==
    \A c \in live \cap answered :
        /\ \A i \in DOMAIN tasks : tasks[i] # <<"connect", c>>
        /\ fd[c] \in DOMAIN epoll => writeCb[fd[c]] # <<"connect", c>>

FirstUse(c) == \A d \in Clients \ {c} : fd[c] \notin {fd[d], ev[d]}

(* On an fd number no earlier client had, a connection attempt made in a     *)
(* running loop is answered: the callback runs, unless the loop is stopped   *)
(* or a callback of a destroyed client has run.                              *)
ConnectAnswered ==
    \A c \in Clients :
        (step[c] = "connecting" /\ FirstUse(c) /\ control # "main")
            ~> (c \in answered \/ stopped \/ broken \/ ~FirstUse(c))

(* "如果connect成功，done会被执行" (tcp_client.cpp:31): if connect succeeds,   *)
(* done is executed, as long as the client and its loop exist.               *)
DoneAfterConnect ==
    \A c \in Clients :
        (step[c] = "connecting" /\ sock[c] = "up")
            ~> (c \in answered \/ stopped \/ broken \/ c \notin live)
=============================================================================
