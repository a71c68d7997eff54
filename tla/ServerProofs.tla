---------------------------- MODULE ServerProofs ----------------------------
(* Proofs about Server, for any number of I/O threads and clients and any    *)
(* limit on fds.                                                             *)
EXTENDS Server, FiniteSetTheorems, TLAPS

(* The state without the task queues is in its types.                        *)
Typed ==
    /\ pc \in MainPC
    /\ built \in 0 .. N /\ begun \in 0 .. N
    /\ ioPc \in [Threads -> {"none", "main", "waitStart", "loop"}]
    /\ hasLoop \in SUBSET Threads
    /\ initSem \in SUBSET Threads /\ startSem \in SUBSET Threads
    /\ index \in 0 .. N
    /\ given \in [Threads -> Nat]
    /\ openFds \in Nat
    /\ fd \in [Clients -> Nat \cup {-1}]
    /\ tableSize \in Nat
    /\ thread \in [Clients -> Threads]
    /\ state \in [Clients -> {"notConnected", "connected", "closed"}]
    /\ coder \in SUBSET Clients
    /\ registered \in SUBSET Clients
    /\ peer \in [Clients -> {"away", "waiting", "open"}]
    /\ unread \in SUBSET Clients /\ closing \in SUBSET Clients
    /\ seen \in SUBSET Clients

Tasks == {"add", "read"} \X Clients

QueuesTyped == tasks \in [Threads -> Seq(Tasks)]

Accepting == {"getThread", "construct", "setCoder", "setState"}

(* on_accept is at a client.                                                 *)
CurTyped ==
    /\ cur \in Clients \cup {NoClient}
    /\ pc \in Accepting => cur \in Clients

(* What the semaphores have told the main thread.                            *)
Handshake ==
    /\ pc = "build" \/ pc = "waitInit" => begun = 0
    /\ pc = "waitInit" => built < N
    /\ pc # "build" /\ pc # "waitInit" => built = N
    /\ pc \in {"loop", "crashed"} \cup Accepting => begun = N
    /\ \A i \in Threads :
          /\ i < built \/ i \in initSem => i \in hasLoop
          /\ i < begun => i \in startSem \/ ioPc[i] = "loop"

(* The threads before m_index have had one client more than the others.      *)
RoundRobin ==
    \E k \in Nat :
        \A i \in Threads : given[i] = IF i < index THEN k + 1 ELSE k

(* A client on_accept has not taken has no fd; at most FdLimit are used.     *)
FdsCounted ==
    /\ FirstFd + openFds <= FdLimit
    /\ tableSize >= 2
    /\ \A c \in Clients : peer[c] # "open" => fd[c] = -1
    /\ CrashOnlyAfterFailedAccept

(* A connection is not read before it is CONNECTED, and not CONNECTED before *)
(* it has its coder.                                                         *)
ReadWhenReady ==
    /\ seen \subseteq coder
    /\ \A c \in Clients : state[c] # "notConnected" => c \in coder
    /\ \A c \in Clients : peer[c] # "open" => state[c] = "notConnected"
    /\ pc = "setState" => cur \in coder
    /\ pc \in {"setCoder", "setState"} => peer[cur] = "open"
    /\ pc \in Accepting => state[cur] = "notConnected"

IInv == /\ Typed /\ QueuesTyped /\ CurTyped /\ Handshake /\ RoundRobin
        /\ FdsCounted /\ ReadWhenReady

-----------------------------------------------------------------------------
(* Nothing is built at the start.                                            *)
LEMMA InitIInv == Init => IInv
<1> SUFFICES ASSUME Init PROVE IInv
  OBVIOUS
<1> USE ServerSizes
<1>1. Typed /\ CurTyped
  BY DEF Init, Typed, CurTyped, MainPC, Threads, Accepting
<1>2. QueuesTyped
  <2>1. <<>> \in Seq(Tasks)
    OBVIOUS
  <2> QED
    BY <2>1 DEF Init, QueuesTyped
<1>3. Handshake /\ FdsCounted /\ ReadWhenReady
  BY DEF Init, Handshake, FdsCounted, CrashOnlyAfterFailedAccept, ReadWhenReady,
         Accepting, Threads
<1>4. RoundRobin
  <2>1. \A i \in Threads : given[i] = IF i < index THEN 0 + 1 ELSE 0
    BY DEF Init, Threads
  <2> QED
    BY <2>1 DEF RoundRobin
<1> QED
  BY <1>1, <1>2, <1>3, <1>4 DEF IInv

(* Every action keeps the types.                                             *)
LEMMA KeepsTyped ==
  ASSUME Typed, CurTyped, Handshake, [Next]_vars
  PROVE  Typed'
<1>1. ASSUME NEW c \in Clients, Accept(c) PROVE Typed'
  <2>1. FirstFd + openFds \in Nat /\ openFds + 1 \in Nat
    BY ServerSizes DEF Typed
  <2>2. fd' \in [Clients -> Nat \cup {-1}] /\ openFds' \in Nat
    BY <1>1, <2>1 DEF Accept, Typed
  <2>3. peer' \in [Clients -> {"away", "waiting", "open"}]
    BY <1>1 DEF Accept, Typed
  <2> QED
    BY <1>1, <2>2, <2>3 DEF Accept, threadVars, Typed, MainPC, Threads
<1>2. CASE NewThread
  BY <1>2, ServerSizes
     DEF NewThread, connVars, Typed, CurTyped, Handshake, Accepting, MainPC,
         Threads
<1>3. CASE WaitInit
  BY <1>3, ServerSizes
     DEF WaitInit, connVars, Typed, CurTyped, Handshake, Accepting, MainPC,
         Threads
<1>4. CASE Listen
  BY <1>4, ServerSizes
     DEF Listen, connVars, threadVars, Typed, CurTyped, Handshake, Accepting,
         MainPC, Threads
<1>5. CASE StartThread
  BY <1>5, ServerSizes
     DEF StartThread, connVars, Typed, CurTyped, Handshake, Accepting, MainPC,
         Threads
<1>6. CASE StartLoop
  BY <1>6, ServerSizes
     DEF StartLoop, connVars, threadVars, Typed, CurTyped, Handshake,
         Accepting, MainPC, Threads
<1>7. CASE GetIoThread
  <2>1. TurnOf \in Threads /\ TurnOf + 1 \in 0 .. N /\ cur \in Clients
    BY <1>7, ServerSizes
       DEF GetIoThread, TurnOf, Typed, CurTyped, Accepting, Threads
  <2>2. given' \in [Threads -> Nat] /\ thread' \in [Clients -> Threads]
    BY <1>7, <2>1 DEF GetIoThread, Typed
  <2>3. index' \in 0 .. N
    BY <1>7, <2>1 DEF GetIoThread
  <2> QED
    BY <1>7, <2>2, <2>3 DEF GetIoThread, threadVars, Typed, MainPC, Threads
<1>8. CASE Construct
  <2>1. tableSize' \in Nat
    <3>1. cur \in Clients
      BY <1>8 DEF Construct, CurTyped, Accepting
    <3>2. \A n \in Nat : (3 * n) \div 2 \in Nat
      OBVIOUS
    <3> QED
      BY <1>8, <3>1, <3>2 DEF Construct, SizeFor, GrownTo, Typed
  <2>2. pc' \in MainPC
    BY <1>8 DEF Construct, MainPC
  <2> QED
    BY <1>8, <2>1, <2>2 DEF Construct, threadVars, Typed, Threads
<1>9. CASE SetCoder
  BY <1>9, ServerSizes
     DEF SetCoder, threadVars, Typed, CurTyped, Handshake, Accepting, MainPC,
         Threads
<1>10. CASE SetState
  BY <1>10, ServerSizes
     DEF SetState, threadVars, Typed, CurTyped, Handshake, Accepting, MainPC,
         Threads
<1>11. ASSUME NEW i \in Threads, MakeLoop(i) PROVE Typed'
  BY <1>11, ServerSizes
     DEF MakeLoop, connVars, Typed, CurTyped, Handshake, Accepting, MainPC,
         Threads
<1>12. ASSUME NEW i \in Threads, EnterLoop(i) PROVE Typed'
  BY <1>12, ServerSizes
     DEF EnterLoop, connVars, Typed, CurTyped, Handshake, Accepting, MainPC,
         Threads
<1>13. ASSUME NEW i \in Threads, Poll(i) PROVE Typed'
  BY <1>13, ServerSizes
     DEF Poll, threadVars, Typed, CurTyped, Handshake, Accepting, MainPC,
         Threads
<1>14. ASSUME NEW i \in Threads, NEW c \in Clients, Register(i, c) PROVE Typed'
  BY <1>14, ServerSizes
     DEF Register, threadVars, Runs, Typed, CurTyped, Handshake, Accepting,
         MainPC, Threads
<1>15. ASSUME NEW i \in Threads, NEW c \in Clients, OnRead(i, c) PROVE Typed'
  BY <1>15, ServerSizes
     DEF OnRead, threadVars, Runs, ReadOrClear, IgnoreRead, Typed, CurTyped,
         Handshake, Accepting, MainPC, Threads
<1>16. ASSUME NEW c \in Clients, Arrive(c) PROVE Typed'
  BY <1>16, ServerSizes
     DEF Arrive, threadVars, peerUnchanged, Typed, CurTyped, Handshake,
         Accepting, MainPC, Threads
<1>17. ASSUME NEW c \in Clients, Send(c) PROVE Typed'
  BY <1>17, ServerSizes
     DEF Send, threadVars, peerUnchanged, Typed, CurTyped, Handshake,
         Accepting, MainPC, Threads
<1>18. ASSUME NEW c \in Clients, Close(c) PROVE Typed'
  BY <1>18, ServerSizes
     DEF Close, threadVars, peerUnchanged, Typed, CurTyped, Handshake,
         Accepting, MainPC, Threads
<1>19. CASE UNCHANGED vars
  BY <1>19 DEF vars, threadVars, connVars, Typed, CurTyped, Handshake,
      Accepting, MainPC, Threads
<1> QED
  BY <1>1, <1>2, <1>3, <1>4, <1>5, <1>6, <1>7, <1>8, <1>9, <1>10, <1>11,
      <1>12, <1>13, <1>14, <1>15, <1>16, <1>17, <1>18, <1>19
     DEF Next, Main, Io, Peers

(* on_accept stays at its client.                                            *)
LEMMA KeepsCurTyped ==
  ASSUME Typed, CurTyped, [Next]_vars
  PROVE  CurTyped'
<1>1. ASSUME NEW c \in Clients, Accept(c) PROVE CurTyped'
  BY <1>1
     DEF Accept, threadVars, CurTyped, Accepting
<1>2. CASE NewThread
  BY <1>2
     DEF NewThread, connVars, CurTyped, Accepting
<1>3. CASE WaitInit
  BY <1>3
     DEF WaitInit, connVars, CurTyped, Accepting
<1>4. CASE Listen
  BY <1>4
     DEF Listen, connVars, threadVars, CurTyped, Accepting
<1>5. CASE StartThread
  BY <1>5
     DEF StartThread, connVars, CurTyped, Accepting
<1>6. CASE StartLoop
  BY <1>6
     DEF StartLoop, connVars, threadVars, CurTyped, Accepting
<1>7. CASE GetIoThread
  BY <1>7
     DEF GetIoThread, threadVars, TurnOf, CurTyped, Accepting
<1>8. CASE Construct
  BY <1>8
     DEF Construct, threadVars, SizeFor, GrownTo, CurTyped, Accepting
<1>9. CASE SetCoder
  BY <1>9
     DEF SetCoder, threadVars, CurTyped, Accepting
<1>10. CASE SetState
  BY <1>10
     DEF SetState, threadVars, CurTyped, Accepting
<1>11. ASSUME NEW i \in Threads, MakeLoop(i) PROVE CurTyped'
  BY <1>11
     DEF MakeLoop, connVars, CurTyped, Accepting
<1>12. ASSUME NEW i \in Threads, EnterLoop(i) PROVE CurTyped'
  BY <1>12
     DEF EnterLoop, connVars, CurTyped, Accepting
<1>13. ASSUME NEW i \in Threads, Poll(i) PROVE CurTyped'
  BY <1>13
     DEF Poll, threadVars, CurTyped, Accepting
<1>14. ASSUME NEW i \in Threads, NEW c \in Clients, Register(i, c)
     PROVE CurTyped'
  BY <1>14
     DEF Register, threadVars, Runs, CurTyped, Accepting
<1>15. ASSUME NEW i \in Threads, NEW c \in Clients, OnRead(i, c)
     PROVE CurTyped'
  BY <1>15
     DEF OnRead, threadVars, Runs, ReadOrClear, IgnoreRead, CurTyped, Accepting
<1>16. ASSUME NEW c \in Clients, Arrive(c) PROVE CurTyped'
  BY <1>16
     DEF Arrive, threadVars, peerUnchanged, CurTyped, Accepting
<1>17. ASSUME NEW c \in Clients, Send(c) PROVE CurTyped'
  BY <1>17
     DEF Send, threadVars, peerUnchanged, CurTyped, Accepting
<1>18. ASSUME NEW c \in Clients, Close(c) PROVE CurTyped'
  BY <1>18
     DEF Close, threadVars, peerUnchanged, CurTyped, Accepting
<1>19. CASE UNCHANGED vars
  BY <1>19 DEF vars, threadVars, connVars, CurTyped, Accepting
<1> QED
  BY <1>1, <1>2, <1>3, <1>4, <1>5, <1>6, <1>7, <1>8, <1>9, <1>10, <1>11,
      <1>12, <1>13, <1>14, <1>15, <1>16, <1>17, <1>18, <1>19
     DEF Next, Main, Io, Peers

(* The queues hold tasks for clients.                                        *)
LEMMA KeepsQueues ==
  ASSUME Typed, CurTyped, QueuesTyped, [Next]_vars
  PROVE  QueuesTyped'
<1>1. ASSUME NEW c \in Clients, Accept(c) PROVE QueuesTyped'
  BY <1>1
     DEF Accept, threadVars, QueuesTyped
<1>2. CASE NewThread
  BY <1>2
     DEF NewThread, connVars, QueuesTyped
<1>3. CASE WaitInit
  BY <1>3
     DEF WaitInit, connVars, QueuesTyped
<1>4. CASE Listen
  BY <1>4
     DEF Listen, connVars, threadVars, QueuesTyped
<1>5. CASE StartThread
  BY <1>5
     DEF StartThread, connVars, QueuesTyped
<1>6. CASE StartLoop
  BY <1>6
     DEF StartLoop, connVars, threadVars, QueuesTyped
<1>7. CASE GetIoThread
  BY <1>7
     DEF GetIoThread, threadVars, TurnOf, QueuesTyped
<1>8. CASE Construct
  <2>1. cur \in Clients /\ thread[cur] \in Threads
    BY <1>8 DEF Construct, CurTyped, Accepting, Typed
  <2>2. Append(tasks[thread[cur]], <<"add", cur>>) \in Seq(Tasks)
    BY <2>1 DEF QueuesTyped, Tasks
  <2> QED
    BY <1>8, <2>2 DEF Construct, QueuesTyped
<1>9. CASE SetCoder
  BY <1>9
     DEF SetCoder, threadVars, QueuesTyped
<1>10. CASE SetState
  BY <1>10
     DEF SetState, threadVars, QueuesTyped
<1>11. ASSUME NEW i \in Threads, MakeLoop(i) PROVE QueuesTyped'
  BY <1>11
     DEF MakeLoop, connVars, QueuesTyped
<1>12. ASSUME NEW i \in Threads, EnterLoop(i) PROVE QueuesTyped'
  BY <1>12
     DEF EnterLoop, connVars, QueuesTyped
<1>13. ASSUME NEW i \in Threads, Poll(i) PROVE QueuesTyped'
  <2>1. PICK order \in SetToSeqs(Ready(i)) :
          tasks' = [tasks EXCEPT ![i] =
                      @ \o [k \in DOMAIN order |-> <<"read", order[k]>>]]
    BY <1>13 DEF Poll
  <2>2. Cardinality(Ready(i)) \in Nat
    <3>1. Ready(i) \subseteq Clients
      BY DEF Ready, Typed
    <3> QED
      BY <3>1, ServerSizes, FS_Subset, FS_CardinalityType
  <2>3. order \in [1 .. Cardinality(Ready(i)) -> Clients]
    BY DEF SetToSeqs, Ready, Typed
  <2>4. [k \in DOMAIN order |-> <<"read", order[k]>>] \in Seq(Tasks)
    <3> DEFINE n == Cardinality(Ready(i))
    <3>1. [k \in 1 .. n |-> <<"read", order[k]>>] \in [1 .. n -> Tasks]
      BY <2>3 DEF Tasks
    <3>2. DOMAIN order = 1 .. n
      BY <2>3
    <3> HIDE DEF n
    <3>3. n \in Nat
      BY <2>2 DEF n
    <3> QED
      BY <3>1, <3>2, <3>3
  <2>5. tasks[i] \o [k \in DOMAIN order |-> <<"read", order[k]>>]
          \in Seq(Tasks)
    BY <2>4 DEF QueuesTyped
  <2> QED
    BY <2>1, <2>5 DEF QueuesTyped
<1>14. ASSUME NEW i \in Threads, NEW c \in Clients, Register(i, c)
     PROVE QueuesTyped'
  <2>1. Tail(tasks[i]) \in Seq(Tasks)
    BY <1>14 DEF Register, Runs, QueuesTyped
  <2> QED
    BY <1>14, <2>1 DEF Register, Runs, QueuesTyped
<1>15. ASSUME NEW i \in Threads, NEW c \in Clients, OnRead(i, c)
     PROVE QueuesTyped'
  <2>1. Tail(tasks[i]) \in Seq(Tasks)
    BY <1>15 DEF OnRead, Runs, QueuesTyped
  <2> QED
    BY <1>15, <2>1 DEF OnRead, Runs, QueuesTyped
<1>16. ASSUME NEW c \in Clients, Arrive(c) PROVE QueuesTyped'
  BY <1>16
     DEF Arrive, threadVars, peerUnchanged, QueuesTyped
<1>17. ASSUME NEW c \in Clients, Send(c) PROVE QueuesTyped'
  BY <1>17
     DEF Send, threadVars, peerUnchanged, QueuesTyped
<1>18. ASSUME NEW c \in Clients, Close(c) PROVE QueuesTyped'
  BY <1>18
     DEF Close, threadVars, peerUnchanged, QueuesTyped
<1>19. CASE UNCHANGED vars
  BY <1>19 DEF vars, threadVars, connVars, QueuesTyped
<1> QED
  BY <1>1, <1>2, <1>3, <1>4, <1>5, <1>6, <1>7, <1>8, <1>9, <1>10, <1>11,
      <1>12, <1>13, <1>14, <1>15, <1>16, <1>17, <1>18, <1>19
     DEF Next, Main, Io, Peers

(* The main thread goes on only when the semaphore says so.                  *)
LEMMA KeepsHandshake ==
  ASSUME Typed, Handshake, [Next]_vars
  PROVE  Handshake'
<1>1. ASSUME NEW c \in Clients, Accept(c) PROVE Handshake'
  BY <1>1, ServerSizes
     DEF Accept, threadVars, Typed, Handshake, Accepting, MainPC, Threads
<1>2. CASE NewThread
  BY <1>2, ServerSizes
     DEF NewThread, connVars, Typed, Handshake, Accepting, MainPC, Threads
<1>3. CASE WaitInit
  BY <1>3, ServerSizes
     DEF WaitInit, connVars, Typed, Handshake, Accepting, MainPC, Threads
<1>4. CASE Listen
  BY <1>4, ServerSizes
     DEF Listen, connVars, threadVars, Typed, Handshake, Accepting, MainPC,
         Threads
<1>5. CASE StartThread
  BY <1>5, ServerSizes
     DEF StartThread, connVars, Typed, Handshake, Accepting, MainPC, Threads
<1>6. CASE StartLoop
  BY <1>6, ServerSizes
     DEF StartLoop, connVars, threadVars, Typed, Handshake, Accepting, MainPC,
         Threads
<1>7. CASE GetIoThread
  BY <1>7, ServerSizes
     DEF GetIoThread, threadVars, TurnOf, Typed, Handshake, Accepting, MainPC,
         Threads
<1>8. CASE Construct
  BY <1>8, ServerSizes
     DEF Construct, threadVars, SizeFor, GrownTo, Typed, Handshake, Accepting,
         MainPC, Threads
<1>9. CASE SetCoder
  BY <1>9, ServerSizes
     DEF SetCoder, threadVars, Typed, Handshake, Accepting, MainPC, Threads
<1>10. CASE SetState
  BY <1>10, ServerSizes
     DEF SetState, threadVars, Typed, Handshake, Accepting, MainPC, Threads
<1>11. ASSUME NEW i \in Threads, MakeLoop(i) PROVE Handshake'
  BY <1>11, ServerSizes
     DEF MakeLoop, connVars, Typed, Handshake, Accepting, MainPC, Threads
<1>12. ASSUME NEW i \in Threads, EnterLoop(i) PROVE Handshake'
  BY <1>12, ServerSizes
     DEF EnterLoop, connVars, Typed, Handshake, Accepting, MainPC, Threads
<1>13. ASSUME NEW i \in Threads, Poll(i) PROVE Handshake'
  BY <1>13, ServerSizes
     DEF Poll, threadVars, Typed, Handshake, Accepting, MainPC, Threads
<1>14. ASSUME NEW i \in Threads, NEW c \in Clients, Register(i, c)
     PROVE Handshake'
  BY <1>14, ServerSizes
     DEF Register, threadVars, Runs, Typed, Handshake, Accepting, MainPC,
         Threads
<1>15. ASSUME NEW i \in Threads, NEW c \in Clients, OnRead(i, c)
     PROVE Handshake'
  BY <1>15, ServerSizes
     DEF OnRead, threadVars, Runs, ReadOrClear, IgnoreRead, Typed, Handshake,
         Accepting, MainPC, Threads
<1>16. ASSUME NEW c \in Clients, Arrive(c) PROVE Handshake'
  BY <1>16, ServerSizes
     DEF Arrive, threadVars, peerUnchanged, Typed, Handshake, Accepting,
         MainPC, Threads
<1>17. ASSUME NEW c \in Clients, Send(c) PROVE Handshake'
  BY <1>17, ServerSizes
     DEF Send, threadVars, peerUnchanged, Typed, Handshake, Accepting, MainPC,
         Threads
<1>18. ASSUME NEW c \in Clients, Close(c) PROVE Handshake'
  BY <1>18, ServerSizes
     DEF Close, threadVars, peerUnchanged, Typed, Handshake, Accepting,
         MainPC, Threads
<1>19. CASE UNCHANGED vars
  BY <1>19 DEF vars, threadVars, connVars, Typed, Handshake, Accepting,
      MainPC, Threads
<1> QED
  BY <1>1, <1>2, <1>3, <1>4, <1>5, <1>6, <1>7, <1>8, <1>9, <1>10, <1>11,
      <1>12, <1>13, <1>14, <1>15, <1>16, <1>17, <1>18, <1>19
     DEF Next, Main, Io, Peers

(* get_io_thread gives to the first of the threads that had one less.        *)
LEMMA KeepsRoundRobin ==
  ASSUME Typed, RoundRobin, [Next]_vars
  PROVE  RoundRobin'
<1>1. ASSUME NEW c \in Clients, Accept(c) PROVE RoundRobin'
  BY <1>1
     DEF Accept, threadVars, RoundRobin
<1>2. CASE NewThread
  BY <1>2
     DEF NewThread, connVars, RoundRobin
<1>3. CASE WaitInit
  BY <1>3
     DEF WaitInit, connVars, RoundRobin
<1>4. CASE Listen
  BY <1>4
     DEF Listen, connVars, threadVars, RoundRobin
<1>5. CASE StartThread
  BY <1>5
     DEF StartThread, connVars, RoundRobin
<1>6. CASE StartLoop
  BY <1>6
     DEF StartLoop, connVars, threadVars, RoundRobin
<1>7. CASE GetIoThread
  <2>1. PICK k \in Nat :
          \A i \in Threads : given[i] = IF i < index THEN k + 1 ELSE k
    BY DEF RoundRobin
  <2>2. TurnOf \in Threads
    BY ServerSizes DEF TurnOf, Typed, Threads
  <2>3. CASE index = N
    <3>1. \A i \in Threads :
            given'[i] = IF i < index' THEN (k + 1) + 1 ELSE k + 1
      BY <1>7, <2>1, <2>2, <2>3, ServerSizes
         DEF GetIoThread, TurnOf, Typed, Threads
    <3> QED
      BY <3>1 DEF RoundRobin
  <2>4. CASE index # N
    <3>1. \A i \in Threads : given'[i] = IF i < index' THEN k + 1 ELSE k
      BY <1>7, <2>1, <2>2, <2>4, ServerSizes
         DEF GetIoThread, TurnOf, Typed, Threads
    <3> QED
      BY <3>1 DEF RoundRobin
  <2> QED
    BY <2>3, <2>4
<1>8. CASE Construct
  BY <1>8
     DEF Construct, threadVars, SizeFor, GrownTo, RoundRobin
<1>9. CASE SetCoder
  BY <1>9
     DEF SetCoder, threadVars, RoundRobin
<1>10. CASE SetState
  BY <1>10
     DEF SetState, threadVars, RoundRobin
<1>11. ASSUME NEW i \in Threads, MakeLoop(i) PROVE RoundRobin'
  BY <1>11
     DEF MakeLoop, connVars, RoundRobin
<1>12. ASSUME NEW i \in Threads, EnterLoop(i) PROVE RoundRobin'
  BY <1>12
     DEF EnterLoop, connVars, RoundRobin
<1>13. ASSUME NEW i \in Threads, Poll(i) PROVE RoundRobin'
  BY <1>13
     DEF Poll, threadVars, RoundRobin
<1>14. ASSUME NEW i \in Threads, NEW c \in Clients, Register(i, c)
     PROVE RoundRobin'
  BY <1>14
     DEF Register, threadVars, Runs, RoundRobin
<1>15. ASSUME NEW i \in Threads, NEW c \in Clients, OnRead(i, c)
     PROVE RoundRobin'
  BY <1>15
     DEF OnRead, threadVars, Runs, ReadOrClear, IgnoreRead, RoundRobin
<1>16. ASSUME NEW c \in Clients, Arrive(c) PROVE RoundRobin'
  BY <1>16
     DEF Arrive, threadVars, peerUnchanged, RoundRobin
<1>17. ASSUME NEW c \in Clients, Send(c) PROVE RoundRobin'
  BY <1>17
     DEF Send, threadVars, peerUnchanged, RoundRobin
<1>18. ASSUME NEW c \in Clients, Close(c) PROVE RoundRobin'
  BY <1>18
     DEF Close, threadVars, peerUnchanged, RoundRobin
<1>19. CASE UNCHANGED vars
  BY <1>19 DEF vars, threadVars, connVars, RoundRobin
<1> QED
  BY <1>1, <1>2, <1>3, <1>4, <1>5, <1>6, <1>7, <1>8, <1>9, <1>10, <1>11,
      <1>12, <1>13, <1>14, <1>15, <1>16, <1>17, <1>18, <1>19
     DEF Next, Main, Io, Peers

(* The table grows past every fd accept returns: 3 * n \div 2 > n from 2 on. *)
LEMMA KeepsFdsCounted ==
  ASSUME Typed, CurTyped, FdsCounted, [Next]_vars
  PROVE  FdsCounted'
<1>1. ASSUME NEW c \in Clients, Accept(c) PROVE FdsCounted'
  BY <1>1, ServerSizes
     DEF Accept, threadVars, Typed, CurTyped, FdsCounted, CrashOnlyAfterFailedAccept,
         Accepting, MainPC
<1>2. CASE NewThread
  BY <1>2, ServerSizes
     DEF NewThread, connVars, Typed, CurTyped, FdsCounted,
         CrashOnlyAfterFailedAccept, Accepting, MainPC
<1>3. CASE WaitInit
  BY <1>3, ServerSizes
     DEF WaitInit, connVars, Typed, CurTyped, FdsCounted, CrashOnlyAfterFailedAccept,
         Accepting, MainPC
<1>4. CASE Listen
  BY <1>4, ServerSizes
     DEF Listen, connVars, threadVars, Typed, CurTyped, FdsCounted,
         CrashOnlyAfterFailedAccept, Accepting, MainPC
<1>5. CASE StartThread
  BY <1>5, ServerSizes
     DEF StartThread, connVars, Typed, CurTyped, FdsCounted,
         CrashOnlyAfterFailedAccept, Accepting, MainPC
<1>6. CASE StartLoop
  BY <1>6, ServerSizes
     DEF StartLoop, connVars, threadVars, Typed, CurTyped, FdsCounted,
         CrashOnlyAfterFailedAccept, Accepting, MainPC
<1>7. CASE GetIoThread
  BY <1>7, ServerSizes
     DEF GetIoThread, threadVars, TurnOf, Typed, CurTyped, FdsCounted,
         CrashOnlyAfterFailedAccept, Accepting, MainPC
<1>8. CASE Construct
  BY <1>8, ServerSizes
     DEF Construct, threadVars, SizeFor, GrownTo, Typed, CurTyped, FdsCounted,
         CrashOnlyAfterFailedAccept, Accepting, MainPC
<1>9. CASE SetCoder
  BY <1>9, ServerSizes
     DEF SetCoder, threadVars, Typed, CurTyped, FdsCounted,
         CrashOnlyAfterFailedAccept, Accepting, MainPC
<1>10. CASE SetState
  BY <1>10, ServerSizes
     DEF SetState, threadVars, Typed, CurTyped, FdsCounted,
         CrashOnlyAfterFailedAccept, Accepting, MainPC
<1>11. ASSUME NEW i \in Threads, MakeLoop(i) PROVE FdsCounted'
  BY <1>11, ServerSizes
     DEF MakeLoop, connVars, Typed, CurTyped, FdsCounted, CrashOnlyAfterFailedAccept,
         Accepting, MainPC
<1>12. ASSUME NEW i \in Threads, EnterLoop(i) PROVE FdsCounted'
  BY <1>12, ServerSizes
     DEF EnterLoop, connVars, Typed, CurTyped, FdsCounted,
         CrashOnlyAfterFailedAccept, Accepting, MainPC
<1>13. ASSUME NEW i \in Threads, Poll(i) PROVE FdsCounted'
  BY <1>13, ServerSizes
     DEF Poll, threadVars, Typed, CurTyped, FdsCounted, CrashOnlyAfterFailedAccept,
         Accepting, MainPC
<1>14. ASSUME NEW i \in Threads, NEW c \in Clients, Register(i, c)
     PROVE FdsCounted'
  BY <1>14, ServerSizes
     DEF Register, threadVars, Runs, Typed, CurTyped, FdsCounted,
         CrashOnlyAfterFailedAccept, Accepting, MainPC
<1>15. ASSUME NEW i \in Threads, NEW c \in Clients, OnRead(i, c)
     PROVE FdsCounted'
  BY <1>15, ServerSizes
     DEF OnRead, threadVars, Runs, ReadOrClear, IgnoreRead, Typed, CurTyped,
         FdsCounted, CrashOnlyAfterFailedAccept, Accepting, MainPC
<1>16. ASSUME NEW c \in Clients, Arrive(c) PROVE FdsCounted'
  BY <1>16, ServerSizes
     DEF Arrive, threadVars, peerUnchanged, Typed, CurTyped, FdsCounted,
         CrashOnlyAfterFailedAccept, Accepting, MainPC
<1>17. ASSUME NEW c \in Clients, Send(c) PROVE FdsCounted'
  BY <1>17, ServerSizes
     DEF Send, threadVars, peerUnchanged, Typed, CurTyped, FdsCounted,
         CrashOnlyAfterFailedAccept, Accepting, MainPC
<1>18. ASSUME NEW c \in Clients, Close(c) PROVE FdsCounted'
  BY <1>18, ServerSizes
     DEF Close, threadVars, peerUnchanged, Typed, CurTyped, FdsCounted,
         CrashOnlyAfterFailedAccept, Accepting, MainPC
<1>19. CASE UNCHANGED vars
  BY <1>19 DEF vars, threadVars, connVars, Typed, CurTyped, FdsCounted,
      CrashOnlyAfterFailedAccept, Accepting, MainPC
<1> QED
  BY <1>1, <1>2, <1>3, <1>4, <1>5, <1>6, <1>7, <1>8, <1>9, <1>10, <1>11,
      <1>12, <1>13, <1>14, <1>15, <1>16, <1>17, <1>18, <1>19
     DEF Next, Main, Io, Peers

(* Only on_read of a CONNECTED connection reads or clears it.                *)
LEMMA KeepsReadWhenReady ==
  ASSUME Typed, CurTyped, FdsCounted, ReadWhenReady, [Next]_vars
  PROVE  ReadWhenReady'
<1>1. ASSUME NEW c \in Clients, Accept(c) PROVE ReadWhenReady'
  BY <1>1
     DEF Accept, threadVars, Typed, CurTyped, ReadWhenReady, Accepting
<1>2. CASE NewThread
  BY <1>2
     DEF NewThread, connVars, Typed, CurTyped, ReadWhenReady, Accepting
<1>3. CASE WaitInit
  BY <1>3
     DEF WaitInit, connVars, Typed, CurTyped, ReadWhenReady, Accepting
<1>4. CASE Listen
  BY <1>4
     DEF Listen, connVars, threadVars, Typed, CurTyped, ReadWhenReady,
         Accepting
<1>5. CASE StartThread
  BY <1>5
     DEF StartThread, connVars, Typed, CurTyped, ReadWhenReady, Accepting
<1>6. CASE StartLoop
  BY <1>6
     DEF StartLoop, connVars, threadVars, Typed, CurTyped, ReadWhenReady,
         Accepting
<1>7. CASE GetIoThread
  BY <1>7
     DEF GetIoThread, threadVars, TurnOf, Typed, CurTyped, ReadWhenReady,
         Accepting
<1>8. CASE Construct
  <2>1. pc' = "setCoder" => peer[cur] = "open"
    BY <1>8 DEF Construct, FdsCounted, Typed, CurTyped, Accepting
  <2> QED
    BY <1>8, <2>1
       DEF Construct, threadVars, Typed, CurTyped, ReadWhenReady, Accepting
<1>9. CASE SetCoder
  BY <1>9
     DEF SetCoder, threadVars, Typed, CurTyped, ReadWhenReady, Accepting
<1>10. CASE SetState
  BY <1>10
     DEF SetState, threadVars, Typed, CurTyped, ReadWhenReady, Accepting
<1>11. ASSUME NEW i \in Threads, MakeLoop(i) PROVE ReadWhenReady'
  BY <1>11
     DEF MakeLoop, connVars, Typed, CurTyped, ReadWhenReady, Accepting
<1>12. ASSUME NEW i \in Threads, EnterLoop(i) PROVE ReadWhenReady'
  BY <1>12
     DEF EnterLoop, connVars, Typed, CurTyped, ReadWhenReady, Accepting
<1>13. ASSUME NEW i \in Threads, Poll(i) PROVE ReadWhenReady'
  BY <1>13
     DEF Poll, threadVars, Typed, CurTyped, ReadWhenReady, Accepting
<1>14. ASSUME NEW i \in Threads, NEW c \in Clients, Register(i, c)
     PROVE ReadWhenReady'
  BY <1>14
     DEF Register, threadVars, Runs, Typed, CurTyped, ReadWhenReady, Accepting
<1>15. ASSUME NEW i \in Threads, NEW c \in Clients, OnRead(i, c)
     PROVE ReadWhenReady'
  BY <1>15
     DEF OnRead, threadVars, Runs, ReadOrClear, IgnoreRead, Typed, CurTyped,
         ReadWhenReady, Accepting
<1>16. ASSUME NEW c \in Clients, Arrive(c) PROVE ReadWhenReady'
  BY <1>16
     DEF Arrive, threadVars, peerUnchanged, Typed, CurTyped, ReadWhenReady,
         Accepting
<1>17. ASSUME NEW c \in Clients, Send(c) PROVE ReadWhenReady'
  BY <1>17
     DEF Send, threadVars, peerUnchanged, Typed, CurTyped, ReadWhenReady,
         Accepting
<1>18. ASSUME NEW c \in Clients, Close(c) PROVE ReadWhenReady'
  BY <1>18
     DEF Close, threadVars, peerUnchanged, Typed, CurTyped, ReadWhenReady,
         Accepting
<1>19. CASE UNCHANGED vars
  BY <1>19 DEF vars, threadVars, connVars, Typed, CurTyped, ReadWhenReady,
      Accepting
<1> QED
  BY <1>1, <1>2, <1>3, <1>4, <1>5, <1>6, <1>7, <1>8, <1>9, <1>10, <1>11,
      <1>12, <1>13, <1>14, <1>15, <1>16, <1>17, <1>18, <1>19
     DEF Next, Main, Io, Peers

-----------------------------------------------------------------------------
(* The parts above together are inductive.                                   *)
LEMMA NextIInv == IInv /\ [Next]_vars => IInv'
  BY KeepsTyped, KeepsCurTyped, KeepsQueues, KeepsHandshake, KeepsRoundRobin,
     KeepsFdsCounted, KeepsReadWhenReady DEF IInv

(* What the runs check follows.                                              *)
LEMMA IInvImplies ==
  IInv => /\ TypeOK /\ LoopReady /\ Balanced
          /\ CrashOnlyAfterFailedAccept /\ CoderBeforeRead
<1> SUFFICES ASSUME IInv
             PROVE  /\ TypeOK /\ LoopReady /\ Balanced
                    /\ CrashOnlyAfterFailedAccept /\ CoderBeforeRead
  OBVIOUS
<1>1. TypeOK
  BY DEF IInv, TypeOK, Typed, CurTyped, QueuesTyped, Tasks
<1>2. LoopReady
  BY ServerSizes DEF IInv, Handshake, LoopReady, Typed, Accepting, Threads
<1>3. Balanced
  BY DEF IInv, RoundRobin, Balanced
<1>4. CrashOnlyAfterFailedAccept /\ CoderBeforeRead
  BY DEF IInv, FdsCounted, ReadWhenReady, CoderBeforeRead
<1> QED
  BY <1>1, <1>2, <1>3, <1>4

(* The server's state stays in its types.                                    *)
THEOREM ServerTypeCorrect == Spec => []TypeOK
<1>1. IInv => TypeOK
  BY IInvImplies
<1> QED
  BY <1>1, InitIInv, NextIInv, PTL DEF Spec

(* No client is given to a thread that has no loop or was not started.       *)
THEOREM ServerLoopsAreReady == Spec => []LoopReady
<1>1. IInv => LoopReady
  BY IInvImplies
<1> QED
  BY <1>1, InitIInv, NextIInv, PTL DEF Spec

(* Round robin keeps the threads' numbers of clients within one.             *)
THEOREM ServerBalances == Spec => []Balanced
<1>1. IInv => Balanced
  BY IInvImplies
<1> QED
  BY <1>1, InitIInv, NextIInv, PTL DEF Spec

(* fdEventGroup is indexed out of bounds only with the -1 of a failed        *)
(* accept().                                                                 *)
THEOREM ServerTableCoversFds == Spec => []CrashOnlyAfterFailedAccept
<1>1. IInv => CrashOnlyAfterFailedAccept
  BY IInvImplies
<1> QED
  BY <1>1, InitIInv, NextIInv, PTL DEF Spec

(* An I/O thread never reads a connection the main thread has not finished.  *)
THEOREM ServerReadsWithCoder == Spec => []CoderBeforeRead
<1>1. IInv => CoderBeforeRead
  BY IInvImplies
<1> QED
  BY <1>1, InitIInv, NextIInv, PTL DEF Spec

(* A connection that was cleared is never set CONNECTED again.               *)
THEOREM ServerClosedStaysClosed == Spec => ClosedStaysClosed
<1>1. ASSUME IInv, [Next]_vars
      PROVE  \A c \in Clients : state[c] = "closed" => state'[c] = "closed"
  <2> SUFFICES ASSUME NEW d \in Clients, state[d] = "closed"
               PROVE  state'[d] = "closed"
    OBVIOUS
  <2>1. ASSUME NEW c \in Clients, Accept(c)
        PROVE  state'[d] = "closed"
    BY <1>1, <2>1 DEF Accept, threadVars, IInv, Typed, CurTyped,
        ReadWhenReady, Accepting
  <2>2. CASE NewThread
    BY <1>1, <2>2 DEF NewThread, connVars, IInv, Typed, CurTyped,
        ReadWhenReady, Accepting
  <2>3. CASE WaitInit
    BY <1>1, <2>3 DEF WaitInit, connVars, IInv, Typed, CurTyped,
        ReadWhenReady, Accepting
  <2>4. CASE Listen
    BY <1>1, <2>4 DEF Listen, connVars, threadVars, IInv, Typed, CurTyped,
        ReadWhenReady, Accepting
  <2>5. CASE StartThread
    BY <1>1, <2>5 DEF StartThread, connVars, IInv, Typed, CurTyped,
        ReadWhenReady, Accepting
  <2>6. CASE StartLoop
    BY <1>1, <2>6 DEF StartLoop, connVars, threadVars, IInv, Typed, CurTyped,
        ReadWhenReady, Accepting
  <2>7. CASE GetIoThread
    BY <1>1, <2>7 DEF GetIoThread, threadVars, TurnOf, IInv, Typed, CurTyped,
        ReadWhenReady, Accepting
  <2>8. CASE Construct
    BY <1>1, <2>8 DEF Construct, threadVars, SizeFor, GrownTo, IInv, Typed,
        CurTyped, ReadWhenReady, Accepting
  <2>9. CASE SetCoder
    BY <1>1, <2>9 DEF SetCoder, threadVars, IInv, Typed, CurTyped,
        ReadWhenReady, Accepting
  <2>10. CASE SetState
    BY <1>1, <2>10 DEF SetState, threadVars, IInv, Typed, CurTyped,
        ReadWhenReady, Accepting
  <2>11. ASSUME NEW i \in Threads, MakeLoop(i)
        PROVE  state'[d] = "closed"
    BY <1>1, <2>11 DEF MakeLoop, connVars, IInv, Typed, CurTyped,
        ReadWhenReady, Accepting
  <2>12. ASSUME NEW i \in Threads, EnterLoop(i)
        PROVE  state'[d] = "closed"
    BY <1>1, <2>12 DEF EnterLoop, connVars, IInv, Typed, CurTyped,
        ReadWhenReady, Accepting
  <2>13. ASSUME NEW i \in Threads, Poll(i)
        PROVE  state'[d] = "closed"
    BY <1>1, <2>13 DEF Poll, threadVars, IInv, Typed, CurTyped, ReadWhenReady,
        Accepting
  <2>14. ASSUME NEW i \in Threads, NEW c \in Clients, Register(i, c)
        PROVE  state'[d] = "closed"
    BY <1>1, <2>14 DEF Register, threadVars, Runs, IInv, Typed, CurTyped,
        ReadWhenReady, Accepting
  <2>15. ASSUME NEW i \in Threads, NEW c \in Clients, OnRead(i, c)
        PROVE  state'[d] = "closed"
    BY <1>1, <2>15 DEF OnRead, threadVars, Runs, ReadOrClear, IgnoreRead,
        IInv, Typed, CurTyped, ReadWhenReady, Accepting
  <2>16. ASSUME NEW c \in Clients, Arrive(c)
        PROVE  state'[d] = "closed"
    BY <1>1, <2>16 DEF Arrive, threadVars, peerUnchanged, IInv, Typed,
        CurTyped, ReadWhenReady, Accepting
  <2>17. ASSUME NEW c \in Clients, Send(c)
        PROVE  state'[d] = "closed"
    BY <1>1, <2>17 DEF Send, threadVars, peerUnchanged, IInv, Typed, CurTyped,
        ReadWhenReady, Accepting
  <2>18. ASSUME NEW c \in Clients, Close(c)
        PROVE  state'[d] = "closed"
    BY <1>1, <2>18 DEF Close, threadVars, peerUnchanged, IInv, Typed,
        CurTyped, ReadWhenReady, Accepting
  <2>19. CASE UNCHANGED vars
    BY <2>19 DEF vars, connVars
  <2> QED
    BY <1>1, <2>1, <2>2, <2>3, <2>4, <2>5, <2>6, <2>7, <2>8, <2>9, <2>10,
        <2>11, <2>12, <2>13, <2>14, <2>15, <2>16, <2>17, <2>18, <2>19
       DEF Next, Main, Io, Peers
<1> QED
  BY <1>1, InitIInv, NextIInv, PTL DEF Spec, ClosedStaysClosed
=============================================================================
