------------------------------- MODULE Server -------------------------------
(* tcpServer: the main thread builds the ioThreads and starts their loops,   *)
(* accepts clients and hands each to the next thread; the thread's loop      *)
(* registers the fd and calls on_read while the main thread is still         *)
(* finishing the tcpConnection.  A loop's queue is the FIFO that EventLoop   *)
(* implements; what on_read does with the bytes is ServerConnection's.       *)
EXTENDS Integers, Sequences, FiniteSets, SequencesExt

CONSTANTS
    N,          \* m_io_threads
    Clients,    \* the peers that may connect
    NoClient,
    FirstFd,    \* the first fd number the process has left for a client
    FdLimit,    \* the process cannot open this number
    InitSize    \* the entries fdEventGroup starts with: 128

Threads == 0 .. N - 1

ASSUME ServerSizes ==
    /\ N \in Nat \ {0}
    /\ IsFiniteSet(Clients) /\ NoClient \notin Clients
    /\ FirstFd \in Nat /\ FdLimit \in Nat /\ FirstFd <= FdLimit
    /\ InitSize \in Nat /\ InitSize >= 2

VARIABLES
    pc,         \* where the main thread is
    built,      \* the ioThreads constructed so far
    begun,      \* the ioThreads started so far
    ioPc,       \* where each ioThread is
    hasLoop,    \* the threads whose m_event_loop is set
    initSem,    \* the threads with m_init_semaphore up
    startSem,   \* the threads with m_start_semaphore up
    index,      \* m_index of the ioThreadGroup
    given,      \* how many clients each thread was given
    cur,        \* the client on_accept is at
    openFds,    \* client fds opened so far; none is ever closed
    fd,         \* the fd of each client, -1 if accept failed
    tableSize,  \* m_fd_group.size()
    thread,     \* the ioThread of each tcpConnection
    state,      \* m_state
    coder,      \* the connections with m_coder set
    tasks,      \* m_pending_tasks of each loop
    registered, \* the clients in their loop's epoll set
    peer,       \* "away", "waiting" for accept, or "open"
    unread,     \* the clients with data in the kernel's buffer
    closing,    \* the peers that have closed their end
    seen        \* the clients of which on_read has read something

vars == <<pc, built, begun, ioPc, hasLoop, initSem, startSem, index, given,
          cur, openFds, fd, tableSize, thread, state, coder, tasks,
          registered, peer, unread, closing, seen>>

MainPC == {"build", "waitInit", "start", "loop", "getThread", "construct",
           "setCoder", "setState", "crashed"}

TypeOK ==
    /\ pc \in MainPC
    /\ built \in 0 .. N /\ begun \in 0 .. N
    /\ ioPc \in [Threads -> {"none", "main", "waitStart", "loop"}]
    /\ hasLoop \in SUBSET Threads
    /\ initSem \in SUBSET Threads /\ startSem \in SUBSET Threads
    /\ index \in 0 .. N
    /\ given \in [Threads -> Nat]
    /\ cur \in Clients \cup {NoClient}
    /\ openFds \in Nat
    /\ fd \in [Clients -> Nat \cup {-1}]
    /\ tableSize \in Nat
    /\ thread \in [Clients -> Threads]
    /\ state \in [Clients -> {"notConnected", "connected", "closed"}]
    /\ coder \in SUBSET Clients
    /\ tasks \in [Threads -> Seq({"add", "read"} \X Clients)]
    /\ registered \in SUBSET Clients
    /\ peer \in [Clients -> {"away", "waiting", "open"}]
    /\ unread \in SUBSET Clients /\ closing \in SUBSET Clients
    /\ seen \in SUBSET Clients

Init ==
    /\ pc = "build"
    /\ built = 0 /\ begun = 0
    /\ ioPc = [i \in Threads |-> "none"]
    /\ hasLoop = {} /\ initSem = {} /\ startSem = {}
    /\ index = 0
    /\ given = [i \in Threads |-> 0]
    /\ cur = NoClient
    /\ openFds = 0
    /\ fd = [c \in Clients |-> -1]
    /\ tableSize = InitSize
    /\ thread = [c \in Clients |-> 0]
    /\ state = [c \in Clients |-> "notConnected"]
    /\ coder = {}
    /\ tasks = [i \in Threads |-> <<>>]
    /\ registered = {}
    /\ peer = [c \in Clients |-> "away"]
    /\ unread = {} /\ closing = {} /\ seen = {}

connVars   == <<index, given, cur, openFds, fd, tableSize, thread, state, coder,
                tasks, registered, peer, unread, closing, seen>>
threadVars == <<built, begun, ioPc, hasLoop, initSem, startSem>>

-----------------------------------------------------------------------------
(* ioThreadGroup(size): ioThread::ioThread() creates its thread and waits    *)
(* until Main has made the loop.                                             *)
NewThreadNoWait ==               \* mutant: no sem_wait(&m_init_semaphore)
    /\ pc = "build" /\ built < N
    /\ ioPc' = [ioPc EXCEPT ![built] = "main"]
    /\ built' = built + 1
    /\ UNCHANGED <<pc, begun, hasLoop, initSem, startSem, connVars>>
NewThread ==
    /\ pc = "build" /\ built < N
    /\ ioPc' = [ioPc EXCEPT ![built] = "main"]
    /\ pc' = "waitInit"
    /\ UNCHANGED <<built, begun, hasLoop, initSem, startSem, connVars>>

WaitInit ==
    /\ pc = "waitInit" /\ built \in initSem
    /\ initSem' = initSem \ {built}
    /\ built' = built + 1
    /\ pc' = "build"
    /\ UNCHANGED <<begun, ioPc, hasLoop, startSem, connVars>>

(* tcpServer::start: every thread's start(), then the main loop.             *)
Listen ==
    /\ pc = "build" /\ built = N
    /\ pc' = "start"
    /\ UNCHANGED <<threadVars, connVars>>

StartThread ==
    /\ pc = "start" /\ begun < N
    /\ startSem' = startSem \cup {begun}
    /\ begun' = begun + 1
    /\ UNCHANGED <<pc, built, ioPc, hasLoop, initSem, connVars>>

StartLoop ==
    /\ pc = "start" /\ begun = N
    /\ pc' = "loop"
    /\ UNCHANGED <<threadVars, connVars>>

(* ioThread::Main                                                            *)
MakeLoop(i) ==
    /\ ioPc[i] = "main"
    /\ hasLoop' = hasLoop \cup {i}
    /\ initSem' = initSem \cup {i}
    /\ ioPc' = [ioPc EXCEPT ![i] = "waitStart"]
    /\ UNCHANGED <<pc, built, begun, startSem, connVars>>

EnterLoop(i) ==
    /\ ioPc[i] = "waitStart" /\ i \in startSem
    /\ startSem' = startSem \ {i}
    /\ ioPc' = [ioPc EXCEPT ![i] = "loop"]
    /\ UNCHANGED <<pc, built, begun, hasLoop, initSem, connVars>>

-----------------------------------------------------------------------------
(* on_accept: tcp_accept() takes the client; or accept() fails, for want of  *)
(* an fd or for any other reason, and -1 is returned all the same.           *)
Accept(c) ==
    /\ pc = "loop" /\ peer[c] = "waiting"
    /\ cur' = c
    /\ \/ /\ FirstFd + openFds < FdLimit
          /\ fd' = [fd EXCEPT ![c] = FirstFd + openFds]
          /\ openFds' = openFds + 1
          /\ peer' = [peer EXCEPT ![c] = "open"]
       \/ UNCHANGED <<fd, openFds, peer>>
    /\ pc' = "getThread"
    /\ UNCHANGED <<threadVars, index, given, tableSize, thread, state, coder,
                   tasks, registered, unread, closing, seen>>

(* get_io_thread()                                                           *)
TurnUnreset == index                                  \* mutant: no wrap
TurnOf      == IF index = N THEN 0 ELSE index

GetIoThread ==
    /\ pc = "getThread"
    /\ thread' = [thread EXCEPT ![cur] = TurnOf]
    /\ given' = [given EXCEPT ![TurnOf] = @ + 1]
    /\ index' = TurnOf + 1
    /\ pc' = "construct"
    /\ UNCHANGED <<threadVars, cur, openFds, fd, tableSize, state, coder,
                   tasks, registered, peer, unread, closing, seen>>

(* get_fd_event(fd): as a size_t, -1 is not below size(), and the group does *)
(* not grow for it; indexing beyond the vector is undefined.                 *)
GrownToFd(n) == IF n = -1 THEN -1 ELSE n            \* mutant: one too few
GrownTo(n)   == IF n = -1 THEN -1 ELSE (3 * n) \div 2

SizeFor(n) ==
    IF (n # -1 /\ n < tableSize) \/ GrownTo(n) < tableSize THEN tableSize
    ELSE GrownTo(n)

(* tcpConnection's constructor up to listen_read_event().                    *)
Construct ==
    /\ pc = "construct"
    /\ tableSize' = SizeFor(fd[cur])
    /\ IF fd[cur] \in 0 .. tableSize' - 1
       THEN /\ tasks' = [tasks EXCEPT ![thread[cur]] = Append(@, <<"add", cur>>)]
            /\ pc' = "setCoder"
       ELSE /\ pc' = "crashed"
            /\ UNCHANGED tasks
    /\ UNCHANGED <<threadVars, index, given, cur, openFds, fd, thread, state,
                   coder, registered, peer, unread, closing, seen>>

(* m_coder = new tinyPBCoder()                                               *)
SetCoder ==
    /\ pc = "setCoder"
    /\ coder' = coder \cup {cur}
    /\ pc' = "setState"
    /\ UNCHANGED <<threadVars, index, given, cur, openFds, fd, tableSize,
                   thread, state, tasks, registered, peer, unread,
                   closing, seen>>

(* connection->set_state(CONNECTED); m_client.insert(connection)             *)
SetState ==
    /\ pc = "setState"
    /\ state' = [state EXCEPT ![cur] = "connected"]
    /\ pc' = "loop"
    /\ UNCHANGED <<threadVars, index, given, cur, openFds, fd, tableSize,
                   thread, coder, tasks, registered, peer, unread,
                   closing, seen>>

-----------------------------------------------------------------------------
(* A loop runs its tasks in order: it registers an fd, or calls on_read.      *)
Runs(i, kind, c) ==
    /\ ioPc[i] = "loop"
    /\ tasks[i] # <<>> /\ Head(tasks[i]) = <<kind, c>>
    /\ tasks' = [tasks EXCEPT ![i] = Tail(@)]

Register(i, c) ==
    /\ Runs(i, "add", c)
    /\ registered' = registered \cup {c}
    /\ UNCHANGED <<pc, threadVars, index, given, cur, openFds, fd, tableSize,
                   thread, state, coder, peer, unread, closing, seen>>

(* epoll_wait reports what is readable, as often as it still is.  A round's  *)
(* on_reads are called before the next epoll_wait.                           *)
Ready(i) == {c \in registered : thread[c] = i /\ c \in unread \cup closing}

Poll(i) ==
    /\ ioPc[i] = "loop" /\ Ready(i) # {}
    /\ \A k \in DOMAIN tasks[i] : tasks[i][k][1] # "read"
    /\ \E order \in SetToSeqs(Ready(i)) :
          tasks' = [tasks EXCEPT ![i] =
                      @ \o [k \in DOMAIN order |-> <<"read", order[k]>>]]
    /\ UNCHANGED <<pc, threadVars, index, given, cur, openFds, fd, tableSize,
                   thread, state, coder, registered, peer, unread, closing,
                   seen>>

(* on_read does nothing unless m_state is CONNECTED; it reads, or clear()s   *)
(* the connection at the end of the stream.                                  *)
ReadOrClear(c) ==
    IF c \in unread
    THEN /\ unread' = unread \ {c}
         /\ seen' = seen \cup {c}
         /\ UNCHANGED <<state, registered>>
    ELSE IF c \in closing
    THEN /\ state' = [state EXCEPT ![c] = "closed"]
         /\ registered' = registered \ {c}
         /\ UNCHANGED <<unread, seen>>
    ELSE UNCHANGED <<unread, seen, state, registered>>

DropRead(c) ==                   \* mutant: an early on_read gives the fd up
    /\ registered' = registered \ {c}
    /\ UNCHANGED <<unread, seen, state>>
IgnoreRead(c) == UNCHANGED <<unread, seen, state, registered>>

OnReadAnyState(i, c) ==          \* mutant: m_state is not tested
    /\ Runs(i, "read", c)
    /\ ReadOrClear(c)
    /\ UNCHANGED <<pc, threadVars, index, given, cur, openFds, fd, tableSize,
                   thread, coder, peer, closing>>
OnRead(i, c) ==
    /\ Runs(i, "read", c)
    /\ IF state[c] = "connected" THEN ReadOrClear(c) ELSE IgnoreRead(c)
    /\ UNCHANGED <<pc, threadVars, index, given, cur, openFds, fd, tableSize,
                   thread, coder, peer, closing>>

-----------------------------------------------------------------------------
(* The peers.                                                                *)
peerUnchanged == <<pc, threadVars, index, given, cur, openFds, fd, tableSize,
                   thread, state, coder, tasks, registered, seen>>

Arrive(c) ==
    /\ peer[c] = "away" /\ peer' = [peer EXCEPT ![c] = "waiting"]
    /\ UNCHANGED <<peerUnchanged, unread, closing>>

Send(c) ==
    /\ peer[c] # "away" /\ c \notin closing
    /\ unread' = unread \cup {c}
    /\ UNCHANGED <<peerUnchanged, peer, closing>>

Close(c) ==
    /\ peer[c] # "away"
    /\ closing' = closing \cup {c}
    /\ UNCHANGED <<peerUnchanged, peer, unread>>

-----------------------------------------------------------------------------
Main      == \/ \E c \in Clients : Accept(c)
             \/ NewThread \/ WaitInit \/ Listen \/ StartThread \/ StartLoop
             \/ GetIoThread \/ Construct \/ SetCoder \/ SetState
Io(i)     == \/ MakeLoop(i) \/ EnterLoop(i) \/ Poll(i)
             \/ \E c \in Clients : Register(i, c) \/ OnRead(i, c)
Peers     == \E c \in Clients : Arrive(c) \/ Send(c) \/ Close(c)

Next ==
    /\ pc # "crashed"
    /\ \/ Main \/ Peers
       \/ \E i \in Threads : Io(i)

Spec == Init /\ [][Next]_vars

(* Every thread goes on: the main thread, and the I/O threads, whose loops   *)
(* get to every task in the queue and every readable fd.                     *)
FairSpec ==
    /\ Spec
    /\ WF_vars(pc # "crashed" /\ Main)
    /\ \A i \in Threads : WF_vars(pc # "crashed" /\ Io(i))

-----------------------------------------------------------------------------
(* The semaphores do what io_thread.cpp:12 asks of them: no client is given  *)
(* to a thread whose loop does not exist or that was not told to start.      *)
LoopReady ==
    pc \in {"loop", "getThread", "construct", "setCoder", "setState"} =>
        \A i \in Threads : i \in hasLoop /\ (i \in startSem \/ ioPc[i] = "loop")

(* Round robin: the threads' clients never differ by more than one.          *)
Balanced == \A i, j \in Threads : given[i] <= given[j] + 1

(* fdEventGroup has an entry for every fd that accept() returns: the server  *)
(* goes out of bounds only with the -1 of an accept() that failed.           *)
CrashOnlyAfterFailedAccept ==
    pc = "crashed" => fd[cur] = -1

(* A thread's loop can call on_read before the main thread has finished the  *)
(* tcpConnection; nothing is read, and handed to m_coder, before it has.     *)
CoderBeforeRead == seen \subseteq coder

(* ... and no connection that was cleared becomes CONNECTED again.           *)
ClosedStaysClosed ==
    [][\A c \in Clients : state[c] = "closed" => state'[c] = "closed"]_vars

(* Every client is accepted and everything it sends is read, although fds    *)
(* become readable before on_read accepts them, unless an accept() fails.     *)
EveryClientServed ==
    \A c \in Clients :
        (peer[c] = "waiting" \/ c \in unread)
            ~> ((peer[c] = "open" /\ c \notin unread) \/ pc = "crashed")
=============================================================================
