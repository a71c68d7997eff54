-------------------------- MODULE EventLoopProofs --------------------------
(* Proofs about EventLoop for any number of posters, fds and closures.       *)
EXTENDS EventLoop, FiniteSetTheorems, SequenceTheorems, TLAPS

(* A thread on its way to push has a closure to push.                        *)
ArgIsTask == \A t \in Threads : pc[t] \in {"lockPush", "push"} => arg[t] \in Task

TypeInv == TypeOK /\ ArgIsTask

-----------------------------------------------------------------------------
LEMMA AllFdsFinite == IsFiniteSet(AllFds)
<1>1. IsFiniteSet(Fds)
  BY FdsAssumption
<1>2. IsFiniteSet({TimerFd, WakeFd})
  <2>1. {TimerFd, WakeFd} = {TimerFd} \cup {WakeFd}
    OBVIOUS
  <2>2. IsFiniteSet({TimerFd})
    BY FS_Singleton
  <2>3. IsFiniteSet({TimerFd} \cup {WakeFd})
    BY <2>2, FS_AddElement
  <2> QED
    BY <2>1, <2>3
<1> QED
  BY <1>1, <1>2, FS_Union DEF AllFds

(* What epoll_wait returns is a sequence of events of distinct fds of S.     *)
LEMMA EpollResultsProperties ==
  ASSUME NEW S \in SUBSET AllFds, NEW result \in EpollResults(S)
  PROVE  /\ result \in Seq(Event)
         /\ \A i \in DOMAIN result : result[i].fd \in S
         /\ \A i, j \in DOMAIN result : i # j => result[i].fd # result[j].fd
<1>1. Cardinality(S) \in Nat
  BY AllFdsFinite, FS_Subset, FS_CardinalityType
<1>2. PICK order \in Orders(S), kinds \in KindsReported(S) :
         result = [i \in 1 .. Cardinality(S) |->
                     [fd |-> order[i], kinds |-> kinds[order[i]]]]
  BY DEF EpollResults
<1>3. /\ order \in [1 .. Cardinality(S) -> S]
      /\ \A i, j \in 1 .. Cardinality(S) : i # j => order[i] # order[j]
  BY DEF Orders
<1>4. kinds \in [S -> (SUBSET Kinds) \ {{}}]
  BY DEF KindsReported
<1>5. \A i \in 1 .. Cardinality(S) :
         [fd |-> order[i], kinds |-> kinds[order[i]]] \in Event
  BY <1>3, <1>4 DEF Event
<1>6. result \in Seq(Event)
  BY <1>1, <1>2, <1>5
<1> QED
  BY <1>2, <1>3, <1>6

(* Dispatching one kind of the first event leaves a sequence of events.      *)
LEMMA DispatchedType ==
  ASSUME TypeOK, NEW kind, Dispatched(kind), events # <<>>
  PROVE  events' \in Seq(Event) /\ events[1] \in Event
<1>1. events \in Seq(Event) /\ events[1] \in Event /\ 1 \in 1 .. Len(events)
  BY EmptySeq, ElementOfSeq DEF TypeOK
<1>2. CASE events[1].kinds = {kind}
  BY <1>1, <1>2, HeadTailProperties DEF Dispatched
<1>3. CASE events[1].kinds # {kind}
  <2>1. [events[1] EXCEPT !.kinds = @ \ {kind}] \in Event
    BY <1>1 DEF Event
  <2>2. events' = [events EXCEPT ![1] = [events[1] EXCEPT !.kinds = @ \ {kind}]]
    BY <1>3 DEF Dispatched
  <2> QED
    BY <1>1, <2>1, <2>2
<1> QED
  BY <1>2, <1>3

-----------------------------------------------------------------------------
LEMMA InitTypeInv == Init => TypeInv
<1> SUFFICES ASSUME Init PROVE TypeInv
  OBVIOUS
<1>1. LoopThread \in Threads /\ \A p \in Posters : p \in Threads /\ p # LoopThread
  BY ThreadsAssumption DEF Threads
<1>2. ArgIsTask
  BY <1>1 DEF Init, ArgIsTask
<1>3. TypeOK
  <2>1. <<>> \in Seq(Task) /\ <<>> \in Seq(Event)
    BY EmptySeq
  <2>2. {TimerFd, WakeFd} \in SUBSET AllFds
    BY DEF AllFds
  <2>3. pc \in [Threads -> LoopPC \cup PosterPC]
    BY <1>1 DEF Init, LoopPC, PosterPC
  <2>4. pc[LoopThread] \in LoopPC /\ \A p \in Posters : pc[p] \in PosterPC
    BY <1>1 DEF Init, LoopPC, PosterPC
  <2> QED
    BY <2>1, <2>2, <2>3, <2>4 DEF Init, TypeOK
<1> QED
  BY <1>2, <1>3 DEF TypeInv

LEMMA NextTypeInv == TypeInv /\ [Next]_vars => TypeInv'
<1> SUFFICES ASSUME TypeInv, [Next]_vars PROVE TypeInv'
  OBVIOUS
<1> USE DEF TypeInv, TypeOK, ArgIsTask, LoopPC, PosterPC
<1>a. LoopThread \in Threads /\ \A p \in Posters : p \in Threads /\ p # LoopThread
  BY ThreadsAssumption DEF Threads
<1>1. CASE TestStopFlag
  BY <1>1, <1>a DEF TestStopFlag, Goto
<1>2. CASE LockSwap
  BY <1>2, <1>a DEF LockSwap, Acquire
<1>3. CASE Swap
  BY <1>3, <1>a DEF Swap, Leave, Unlock
<1>4. CASE RunTask
  <2>1. Head(batch) \in Task /\ Tail(batch) \in Seq(Task)
    BY <1>4, HeadTailProperties DEF RunTask
  <2>2. listenFds' \in SUBSET AllFds
    <3>1. Head(batch).op \in {"add", "del", "in", "out", "call"}
      BY <2>1 DEF Task
    <3>2. Head(batch).op \in {"add", "del"} => Head(batch).arg \in Fds
      BY <2>1 DEF Task
    <3> QED
      BY <1>4, <3>1, <3>2 DEF RunTask, Registered, AllFds
  <2> QED
    BY <1>4, <2>1, <2>2 DEF RunTask
<1>5. CASE BeginWait
  BY <1>5, <1>a DEF BeginWait, Goto
<1>6. CASE EpollReturns
  <2>1. events' \in Seq(Event)
    <3>1. PICK S \in SUBSET listenFds : events' \in EpollResults(S)
      BY <1>6 DEF EpollReturns
    <3> QED
      BY <3>1, EpollResultsProperties
  <2> QED
    BY <1>6, <1>a, <2>1 DEF EpollReturns, Goto
<1>7. CASE EpollTimesOut
  BY <1>7, <1>a DEF EpollTimesOut, Goto
<1>8. CASE DispatchIn
  <2>1. events' \in Seq(Event) /\ events[1] \in Event
    BY <1>8, DispatchedType DEF DispatchIn
  <2>2. [op |-> "in", arg |-> events[1].fd] \in Task
    BY <2>1 DEF Task, Event
  <2> QED
    BY <1>8, <1>a, <2>1, <2>2 DEF DispatchIn, Goto
<1>9. CASE DispatchOut
  <2>1. events' \in Seq(Event) /\ events[1] \in Event
    BY <1>9, DispatchedType DEF DispatchOut
  <2>2. [op |-> "out", arg |-> events[1].fd] \in Task
    BY <2>1 DEF Task, Event
  <2> QED
    BY <1>9, <1>a, <2>1, <2>2 DEF DispatchOut, Goto
<1>10. CASE DispatchError
  <2>1. events' \in Seq(Event) /\ events[1] \in Event
    BY <1>10, DispatchedType DEF DispatchError
  <2>2. [op |-> "out", arg |-> events[1].fd] \in Task
    BY <2>1 DEF Task, Event
  <2>3. listenFds' \in SUBSET AllFds
    BY <1>10 DEF DispatchError
  <2>4. CASE events[1].fd \in ErrorFds
    BY <1>10, <1>a, <2>1, <2>2, <2>3, <2>4 DEF DispatchError, Goto
  <2>5. CASE events[1].fd \notin ErrorFds
    BY <1>10, <1>a, <2>1, <2>3, <2>5 DEF DispatchError
  <2> QED
    BY <2>4, <2>5
<1>11. CASE IterationDtor
  BY <1>11, <1>a DEF IterationDtor, Unlock, Goto
<1>12. ASSUME NEW t \in Threads, LockPush(t) PROVE TypeInv'
  BY <1>12, <1>a DEF LockPush, Acquire, Threads
<1>13. ASSUME NEW t \in Threads, Push(t) PROVE TypeInv'
  <2>1. queue' \in Seq(Task)
    BY <1>13, AppendProperties DEF Push
  <2> QED
    BY <1>13, <1>a, <2>1 DEF Push, Leave, Unlock, Threads
<1>14. ASSUME NEW t \in Threads, PushDtor(t) PROVE TypeInv'
  BY <1>14, <1>a DEF PushDtor, Unlock, Goto, Threads
<1>15. ASSUME NEW p \in Posters, Requests(p) PROVE TypeInv'
  <2>1. ASSUME NEW task \in Task, Begin(p, task) PROVE TypeInv'
    BY <2>1, <1>a DEF Begin, Goto
  <2>2. CASE Stop(p)
    BY <2>2, <1>a DEF Stop, Goto
  <2>3. ASSUME NEW fd \in Fds
        PROVE  [op |-> "add", arg |-> fd] \in Task /\ [op |-> "del", arg |-> fd] \in Task
    BY DEF Task
  <2>4. ASSUME NEW c \in Calls PROVE [op |-> "call", arg |-> c] \in Task
    BY DEF Task
  <2> QED
    BY <1>15, <2>1, <2>2, <2>3, <2>4
       DEF Requests, AddEpollEvent, DelEpollEvent, AddTask
<1>16. ASSUME NEW p \in Posters, Wakeup(p) \/ StopWakeup(p) PROVE TypeInv'
  BY <1>16, <1>a DEF Wakeup, StopWakeup, Goto
<1>17. CASE UNCHANGED vars
  BY <1>17 DEF vars
<1> QED
  BY <1>1, <1>2, <1>3, <1>4, <1>5, <1>6, <1>7, <1>8, <1>9, <1>10, <1>11, <1>12,
     <1>13, <1>14, <1>15, <1>16, <1>17, <1>a
     DEF Next, LoopStep, LoopBusy, InFlight

LEMMA TypeInvariant == Spec => []TypeInv
  BY InitTypeInv, NextTypeInv, PTL DEF Spec

(* Every reachable state has the types TypeOK gives, whatever the threads do.*)
THEOREM TypeCorrect == Spec => []TypeOK
<1>1. TypeInv => TypeOK
  BY DEF TypeInv
<1> QED
  BY <1>1, TypeInvariant, PTL

-----------------------------------------------------------------------------
(* The mutex.  Until two sections have overlapped at most one thread is in a *)
(* section, hence nobody else changes the queue it has read.                 *)
Exclusive ==
    ~raced => \A t, u \in Threads :
                 t # u => ~(pc[t] \in Critical /\ pc[u] \in Critical)

LockInv == NoLeakedLock /\ Exclusive /\ SectionSeesQueue

(* A step outside every section, which may be one of the late unlocks.       *)
LEMMA OutsideStep ==
  ASSUME TypeOK, LockInv, NEW t \in Threads, NEW next,
         pc' = [pc EXCEPT ![t] = next],
         pc[t] \notin Critical, next \notin Critical,
         mutex' \in {mutex, Nobody}, UNCHANGED <<queue, snap, raced>>
  PROVE  LockInv'
  BY DEF LockInv, NoLeakedLock, Exclusive, SectionSeesQueue, TypeOK

(* A step that leaves its thread where it is.                                *)
LEMMA InPlaceStep ==
  ASSUME LockInv, mutex' \in {mutex, Nobody}, UNCHANGED <<pc, queue, snap, raced>>
  PROVE  LockInv'
  BY DEF LockInv, NoLeakedLock, Exclusive, SectionSeesQueue

LEMMA AcquireStep ==
  ASSUME TypeOK, LockInv, NEW t \in Threads, NEW section \in Critical,
         Acquire(t, section), UNCHANGED queue
  PROVE  LockInv'
<1> USE DEF TypeOK, Acquire
<1>1. NoLeakedLock'
  BY DEF NoLeakedLock
<1>2. Exclusive'
  BY DEF LockInv, Exclusive
<1>3. SectionSeesQueue'
  BY DEF LockInv, SectionSeesQueue
<1> QED
  BY <1>1, <1>2, <1>3 DEF LockInv

LEMMA LeaveStep ==
  ASSUME TypeOK, LockInv, NEW t \in Threads, NEW next,
         pc[t] \in Critical, next \notin Critical,
         Leave(t, next), UNCHANGED raced
  PROVE  LockInv'
<1> USE DEF TypeOK, Leave, Unlock
<1>1. NoLeakedLock'
  BY DEF NoLeakedLock
<1>2. Exclusive'
  BY DEF LockInv, Exclusive
<1>3. SectionSeesQueue'
  BY DEF LockInv, Exclusive, SectionSeesQueue
<1> QED
  BY <1>1, <1>2, <1>3 DEF LockInv

LEMMA InitLockInv == Init => LockInv
<1> SUFFICES ASSUME Init PROVE LockInv
  OBVIOUS
<1>1. \A t \in Threads : pc[t] \notin Critical
  BY DEF Init, Critical
<1> QED
  BY <1>1 DEF Init, LockInv, NoLeakedLock, Exclusive, SectionSeesQueue

LEMMA NextLockInv == TypeInv /\ LockInv /\ [Next]_vars => LockInv'
<1> SUFFICES ASSUME TypeInv, LockInv, [Next]_vars PROVE LockInv'
  OBVIOUS
<1>a. LoopThread \in Threads /\ \A p \in Posters : p \in Threads
  BY DEF Threads
<1>b. TypeOK
  BY DEF TypeInv
<1>1. CASE TestStopFlag \/ BeginWait \/ EpollReturns \/ EpollTimesOut
             \/ DispatchIn \/ DispatchOut \/ IterationDtor
  <2>1. PICK next \in LoopPC \ Critical :
          /\ pc' = [pc EXCEPT ![LoopThread] = next]
          /\ pc[LoopThread] \notin Critical
          /\ mutex' \in {mutex, Nobody}
          /\ UNCHANGED <<queue, snap, raced>>
    BY <1>1 DEF TestStopFlag, BeginWait, EpollReturns, EpollTimesOut,
                DispatchIn, DispatchOut, IterationDtor, Unlock, Goto, Critical,
                LoopPC
  <2> QED
    BY <2>1, <1>a, <1>b, OutsideStep
<1>2. CASE LockSwap
  BY <1>2, <1>a, <1>b, AcquireStep DEF LockSwap, Critical
<1>3. CASE Swap
  BY <1>3, <1>a, <1>b, LeaveStep DEF Swap, Critical
<1>4. CASE RunTask
  BY <1>4, InPlaceStep DEF RunTask
<1>5. CASE DispatchError
  <2>1. CASE events[1].fd \in ErrorFds
    BY <1>5, <2>1, <1>a, <1>b, OutsideStep DEF DispatchError, Goto, Critical
  <2>2. CASE events[1].fd \notin ErrorFds
    BY <1>5, <2>2, InPlaceStep DEF DispatchError
  <2> QED
    BY <2>1, <2>2
<1>6. ASSUME NEW t \in Threads, LockPush(t) PROVE LockInv'
  BY <1>6, <1>b, AcquireStep DEF LockPush, Critical
<1>7. ASSUME NEW t \in Threads, Push(t) PROVE LockInv'
  BY <1>7, <1>b, LeaveStep DEF Push, Critical
<1>8. ASSUME NEW t \in Threads, PushDtor(t) PROVE LockInv'
  <2>1. PICK next \in {"dispatch", "idle"} : pc' = [pc EXCEPT ![t] = next]
    BY <1>8 DEF PushDtor, Goto
  <2> QED
    BY <1>8, <2>1, <1>b, OutsideStep DEF PushDtor, Unlock, Critical
<1>9. ASSUME NEW p \in Posters, Requests(p) PROVE LockInv'
  <2>1. ASSUME NEW task, Begin(p, task) PROVE LockInv'
    BY <2>1, <1>a, <1>b, OutsideStep DEF Begin, Goto, Critical
  <2>2. CASE Stop(p)
    BY <2>2, <1>a, <1>b, OutsideStep DEF Stop, Goto, Critical
  <2> QED
    BY <1>9, <2>1, <2>2 DEF Requests, AddEpollEvent, DelEpollEvent, AddTask
<1>10. ASSUME NEW p \in Posters, Wakeup(p) \/ StopWakeup(p) PROVE LockInv'
  BY <1>10, <1>a, <1>b, OutsideStep DEF Wakeup, StopWakeup, Goto, Critical
<1>11. CASE UNCHANGED vars
  BY <1>11, InPlaceStep DEF vars
<1> QED
  BY <1>1, <1>2, <1>3, <1>4, <1>5, <1>6, <1>7, <1>8, <1>9, <1>10, <1>11, <1>a
     DEF Next, LoopStep, LoopBusy, InFlight

LEMMA LockInvariant == Spec => []LockInv
  BY InitLockInv, NextLockInv, TypeInvariant, InitTypeInv, PTL DEF Spec

(* Until two sections overlap, no thread's view of the queue is outdated.    *)
THEOREM SectionsSeeTheQueue == Spec => []SectionSeesQueue
<1>1. LockInv => SectionSeesQueue
  BY DEF LockInv
<1> QED
  BY <1>1, LockInvariant, PTL

(* Whatever the destructors unlock, nobody outside a section holds the mutex.*)
THEOREM LockIsNeverLeaked == Spec => []NoLeakedLock
<1>1. LockInv => NoLeakedLock
  BY DEF LockInv
<1> QED
  BY <1>1, LockInvariant, PTL

-----------------------------------------------------------------------------
(* The phases of loop(): tmp_tasks is empty outside the drain, and there are *)
(* results to dispatch only between epoll_wait and the end of the iteration. *)
BatchOnlyInDrain == pc[LoopThread] # "drain" => batch = <<>>
EventsOnlyInDispatch ==
    pc[LoopThread] \notin {"dispatch", "lockPush", "push", "dtor"} => events = <<>>
DistinctFds ==
    \A i, j \in DOMAIN events : i # j => events[i].fd # events[j].fd

PhaseInv == /\ BatchOnlyInDrain /\ EventsOnlyInDispatch
            /\ DistinctFds /\ DispatchedIsRegistered

(* Dispatching one kind of the first event leaves the fds of the others.     *)
LEMMA DispatchedFds ==
  ASSUME TypeOK, NEW kind, Dispatched(kind), events # <<>>
  PROVE  IF events[1].kinds = {kind}
         THEN /\ DOMAIN events' = 1 .. Len(events) - 1
              /\ \A i \in DOMAIN events' : /\ i + 1 \in DOMAIN events
                                           /\ events'[i] = events[i + 1]
         ELSE /\ DOMAIN events' = DOMAIN events
              /\ \A i \in DOMAIN events : events'[i].fd = events[i].fd
<1>1. events \in Seq(Event) /\ Len(events) \in Nat \ {0}
  BY EmptySeq DEF TypeOK
<1>2. CASE events[1].kinds = {kind}
  <2>1. events' = Tail(events)
    BY <1>2 DEF Dispatched
  <2> QED
    BY <1>1, <1>2, <2>1, HeadTailProperties, LenProperties
<1>3. CASE events[1].kinds # {kind}
  <2>1. events' = [events EXCEPT ![1] = [events[1] EXCEPT !.kinds = @ \ {kind}]]
    BY <1>3 DEF Dispatched
  <2>2. [events[1] EXCEPT !.kinds = @ \ {kind}].fd = events[1].fd
    BY <1>1 DEF Event
  <2> QED
    BY <1>1, <1>3, <2>1, <2>2
<1> QED
  BY <1>2, <1>3

LEMMA DispatchedKeepsFds ==
  ASSUME TypeOK, DistinctFds, DispatchedIsRegistered,
         NEW kind, Dispatched(kind), events # <<>>,
         \/ listenFds' = listenFds
         \/ events[1].kinds = {kind} /\ listenFds' = listenFds \ {events[1].fd}
  PROVE  DistinctFds' /\ DispatchedIsRegistered'
<1>1. Len(events) \in Nat \ {0} /\ DOMAIN events = 1 .. Len(events)
  BY EmptySeq, LenProperties DEF TypeOK
<1>2. CASE events[1].kinds = {kind}
  <2>1. \A i \in DOMAIN events' : /\ i \in Nat /\ i + 1 \in DOMAIN events
                                  /\ i + 1 # 1 /\ events'[i] = events[i + 1]
    BY <1>1, <1>2, DispatchedFds
  <2>2. DistinctFds'
    BY <2>1 DEF DistinctFds
  <2>3. DispatchedIsRegistered'
    BY <1>1, <2>1 DEF DistinctFds, DispatchedIsRegistered
  <2> QED
    BY <2>2, <2>3
<1>3. CASE events[1].kinds # {kind}
  BY <1>3, DispatchedFds DEF DistinctFds, DispatchedIsRegistered
<1> QED
  BY <1>2, <1>3

LEMMA InitPhaseInv == Init => PhaseInv
  BY DEF Init, PhaseInv, BatchOnlyInDrain, EventsOnlyInDispatch, DistinctFds,
         DispatchedIsRegistered

(* A step of another thread, or one of loop() within a phase.                *)
LEMMA SamePhaseStep ==
  ASSUME PhaseInv, UNCHANGED <<batch, events, listenFds>>,
         \/ pc'[LoopThread] = pc[LoopThread]
         \/ /\ pc[LoopThread] \notin {"drain", "dispatch", "lockPush", "push", "dtor"}
            /\ pc'[LoopThread] \notin {"drain", "dispatch", "lockPush", "push", "dtor"}
         \/ /\ pc[LoopThread] \in {"dispatch", "lockPush", "push", "dtor"}
            /\ pc'[LoopThread] \in {"dispatch", "lockPush", "push", "dtor"}
  PROVE  PhaseInv'
  BY DEF PhaseInv, BatchOnlyInDrain, EventsOnlyInDispatch, DistinctFds,
         DispatchedIsRegistered

LEMMA NextPhaseInv == TypeInv /\ PhaseInv /\ [Next]_vars => PhaseInv'
<1> SUFFICES ASSUME TypeInv, PhaseInv, [Next]_vars PROVE PhaseInv'
  OBVIOUS
<1>a. LoopThread \in Threads /\ \A p \in Posters : p \in Threads /\ p # LoopThread
  BY ThreadsAssumption DEF Threads
<1>b. TypeOK
  BY DEF TypeInv
<1>c. pc \in [Threads -> LoopPC \cup PosterPC]
  BY <1>b DEF TypeOK
<1>1. CASE TestStopFlag
  BY <1>1, <1>a, <1>c, SamePhaseStep DEF TestStopFlag, Goto
<1>2. CASE LockSwap
  BY <1>2, <1>a, <1>c, SamePhaseStep DEF LockSwap, Acquire
<1>3. CASE Swap
  BY <1>3, <1>a, <1>c DEF Swap, Leave, PhaseInv, BatchOnlyInDrain,
     EventsOnlyInDispatch, DistinctFds, DispatchedIsRegistered
<1>4. CASE RunTask
  <2>1. events = <<>>
    BY <1>4 DEF RunTask, PhaseInv, EventsOnlyInDispatch
  <2> QED
    BY <1>4, <2>1 DEF RunTask, PhaseInv, BatchOnlyInDrain,
       EventsOnlyInDispatch, DistinctFds, DispatchedIsRegistered
<1>5. CASE BeginWait
  BY <1>5, <1>a, <1>c DEF BeginWait, Goto, PhaseInv, BatchOnlyInDrain,
     EventsOnlyInDispatch, DistinctFds, DispatchedIsRegistered
<1>6. CASE EpollReturns
  <2>1. PICK S \in SUBSET listenFds : events' \in EpollResults(S)
    BY <1>6 DEF EpollReturns
  <2>2. S \in SUBSET AllFds
    BY <1>b DEF TypeOK
  <2>3. DistinctFds' /\ DispatchedIsRegistered'
    BY <1>6, <2>1, <2>2, EpollResultsProperties
       DEF EpollReturns, DistinctFds, DispatchedIsRegistered
  <2> QED
    BY <1>6, <1>a, <1>c, <2>3 DEF EpollReturns, Goto, PhaseInv,
       BatchOnlyInDrain, EventsOnlyInDispatch
<1>7. CASE EpollTimesOut
  BY <1>7, <1>a, <1>c DEF EpollTimesOut, Goto, PhaseInv, BatchOnlyInDrain,
     EventsOnlyInDispatch, DistinctFds, DispatchedIsRegistered
<1>8. CASE DispatchIn \/ DispatchOut \/ DispatchError
  <2>1. DistinctFds' /\ DispatchedIsRegistered'
    BY <1>8, <1>b, DispatchedKeepsFds
       DEF DispatchIn, DispatchOut, DispatchError, PhaseInv
  <2>2. /\ pc[LoopThread] = "dispatch" /\ batch' = batch
        /\ pc'[LoopThread] \in {"dispatch", "lockPush"}
    BY <1>8, <1>a, <1>c DEF DispatchIn, DispatchOut, DispatchError, Goto
  <2> QED
    BY <2>1, <2>2 DEF PhaseInv, BatchOnlyInDrain, EventsOnlyInDispatch
<1>9. CASE IterationDtor
  BY <1>9, <1>a, <1>c DEF IterationDtor, Goto, PhaseInv, BatchOnlyInDrain,
     EventsOnlyInDispatch, DistinctFds, DispatchedIsRegistered
<1>10. ASSUME NEW t \in Threads, LockPush(t) \/ Push(t) \/ PushDtor(t)
       PROVE  PhaseInv'
  <2>1. CASE t = LoopThread
    BY <1>10, <2>1, <1>a, <1>c, SamePhaseStep
       DEF LockPush, Acquire, Push, Leave, PushDtor, Goto
  <2>2. CASE t # LoopThread
    <3>1. pc'[LoopThread] = pc[LoopThread]
      BY <1>10, <2>2, <1>a, <1>c DEF LockPush, Acquire, Push, Leave, PushDtor, Goto
    <3> QED
      BY <1>10, <3>1, SamePhaseStep DEF LockPush, Push, PushDtor
  <2> QED
    BY <2>1, <2>2
<1>11. ASSUME NEW p \in Posters, Requests(p) \/ Wakeup(p) \/ StopWakeup(p)
       PROVE  PhaseInv'
  <2>1. /\ pc'[LoopThread] = pc[LoopThread]
        /\ UNCHANGED <<batch, events, listenFds>>
    BY <1>11, <1>a, <1>c DEF Requests, AddEpollEvent, DelEpollEvent, AddTask,
       Begin, Stop, Wakeup, StopWakeup, Goto
  <2> QED
    BY <2>1, SamePhaseStep
<1>12. CASE UNCHANGED vars
  BY <1>12, SamePhaseStep DEF vars
<1> QED
  BY <1>1, <1>2, <1>3, <1>4, <1>5, <1>6, <1>7, <1>8, <1>9, <1>10, <1>11, <1>12,
     <1>a DEF Next, LoopStep, LoopBusy, InFlight

LEMMA PhaseInvariant == Spec => []PhaseInv
  BY InitPhaseInv, NextPhaseInv, TypeInvariant, PTL DEF Spec

(* No fd is removed from the epoll set between epoll_wait and the dispatch of*)
(* its event, by whichever thread del_epoll_event is called.                 *)
THEOREM DispatchIsOfRegistered == Spec => []DispatchedIsRegistered
<1>1. PhaseInv => DispatchedIsRegistered
  BY DEF PhaseInv
<1> QED
  BY <1>1, PhaseInvariant, PTL

-----------------------------------------------------------------------------
(* Refinement: to its users the loop is a queue of closures until two        *)
(* sections overlap.                                                         *)
LEMMA PostStep ==
  ASSUME NEW b \in Seq(Task), NEW q \in Seq(Task), NEW task \in Task
  PROVE  b \o Append(q, task) = Append(b \o q, task)
<1>1. <<task>> \in Seq(Task)
  OBVIOUS
<1>2. b \o q \in Seq(Task)
  BY ConcatProperties
<1> QED
  BY <1>1, <1>2, AppendIsConcat, ConcatAssociative

LEMMA RunStep ==
  ASSUME NEW b \in Seq(Task), NEW q \in Seq(Task), b # <<>>
  PROVE  /\ b \o q # <<>>
         /\ Head(b \o q) = Head(b)
         /\ Tail(b \o q) = Tail(b) \o q
<1>1. Len(b) \in Nat \ {0} /\ Len(q) \in Nat
  BY EmptySeq, LenProperties
<1>2. b \o q \in Seq(Task) /\ Len(b \o q) = Len(b) + Len(q)
  BY ConcatProperties
<1>3. b \o q # <<>>
  BY <1>1, <1>2, EmptySeq
<1>4. Tail(b) \in Seq(Task) /\ Len(Tail(b)) = Len(b) - 1
  BY HeadTailProperties
<1>5. \A i \in 1 .. Len(b) + Len(q) :
         (b \o q)[i] = IF i <= Len(b) THEN b[i] ELSE q[i - Len(b)]
  BY ConcatProperties
<1>6. Head(b \o q) = Head(b)
  BY <1>1, <1>5
<1>7. /\ Tail(b \o q) \in Seq(Task)
      /\ Len(Tail(b \o q)) = Len(b) + Len(q) - 1
      /\ \A i \in 1 .. Len(b) + Len(q) - 1 : Tail(b \o q)[i] = (b \o q)[i + 1]
  BY <1>2, <1>3, HeadTailProperties
<1>8. /\ Tail(b) \o q \in Seq(Task)
      /\ Len(Tail(b) \o q) = Len(b) + Len(q) - 1
      /\ \A i \in 1 .. Len(b) + Len(q) - 1 :
            (Tail(b) \o q)[i] = IF i <= Len(b) - 1 THEN Tail(b)[i]
                                ELSE q[i - (Len(b) - 1)]
  BY <1>1, <1>4, ConcatProperties
<1>9. \A i \in 1 .. Len(b) - 1 : Tail(b)[i] = b[i + 1]
  BY <1>4, HeadTailProperties
<1>10. \A i \in 1 .. Len(b) + Len(q) - 1 : Tail(b \o q)[i] = (Tail(b) \o q)[i]
  BY <1>1, <1>5, <1>7, <1>8, <1>9
<1>11. Tail(b \o q) = Tail(b) \o q
  BY <1>1, <1>7, <1>8, <1>10, SeqEqual
<1> QED
  BY <1>3, <1>6, <1>11

LEMMA InitRefines == Init => TQ!Init
<1> SUFFICES ASSUME Init PROVE TQ!Init
  OBVIOUS
<1>1. PendingTasks = <<>>
  BY DEF Init, PendingTasks
<1> QED
  BY <1>1 DEF Init, TQ!Init

LEMMA NextRefines ==
  TypeInv /\ LockInv /\ PhaseInv /\ [Next]_vars => [TQ!Next]_(TQ!vars)
<1> SUFFICES ASSUME TypeInv, LockInv, PhaseInv, [Next]_vars
             PROVE  [TQ!Next]_(TQ!vars)
  OBVIOUS
<1>t. /\ queue \in Seq(Task) /\ batch \in Seq(Task) /\ raced \in BOOLEAN
      /\ LoopThread \in Threads /\ \A p \in Posters : p \in Threads
  BY DEF TypeInv, TypeOK, Threads
<1>a. ASSUME UNCHANGED <<batch, queue, running, raced>>
      PROVE  [TQ!Next]_(TQ!vars)
  BY <1>a DEF TQ!vars, PendingTasks
<1>b. ASSUME raced' PROVE [TQ!Next]_(TQ!vars)
  BY <1>b DEF TQ!Next, TQ!Break
<1>1. CASE LockSwap \/ \E t \in Threads : LockPush(t)
  <2>1. \/ raced' = TRUE
        \/ UNCHANGED <<batch, queue, running, raced>>
    BY <1>1, <1>t DEF LockSwap, LockPush, Acquire
  <2> QED
    BY <2>1, <1>a, <1>b
<1>2. CASE Swap
  <2>1. CASE raced
    BY <1>2, <2>1, <1>b DEF Swap
  <2>2. CASE ~raced
    <3>1. snap[LoopThread] = queue
      BY <1>2, <2>2, <1>t DEF Swap, Critical, LockInv, SectionSeesQueue
    <3>2. batch = <<>>
      BY <1>2 DEF Swap, PhaseInv, BatchOnlyInDrain
    <3>3. PendingTasks' = PendingTasks
      BY <1>2, <1>t, <3>1, <3>2, ConcatEmptySeq DEF Swap, PendingTasks
    <3> QED
      BY <1>2, <3>3 DEF Swap, TQ!vars
  <2> QED
    BY <2>1, <2>2
<1>3. CASE RunTask
  <2>1. CASE raced
    BY <1>3, <2>1, <1>b DEF RunTask
  <2>2. CASE ~raced
    <3>1. batch # <<>> /\ running' = Head(batch) /\ batch' = Tail(batch)
          /\ queue' = queue /\ ~raced'
      BY <1>3, <2>2 DEF RunTask
    <3>2. TQ!Run
      BY <1>t, <3>1, RunStep DEF TQ!Run, PendingTasks
    <3> QED
      BY <2>2, <3>2 DEF TQ!Next
  <2> QED
    BY <2>1, <2>2
<1>4. CASE BeginWait
  <2>1. CASE raced
    BY <1>4, <2>1, <1>b DEF BeginWait
  <2>2. CASE ~raced
    BY <1>4, <2>2 DEF BeginWait, TQ!Next, TQ!Finish, PendingTasks
  <2> QED
    BY <2>1, <2>2
<1>5. ASSUME NEW t \in Threads, Push(t) PROVE [TQ!Next]_(TQ!vars)
  <2>1. CASE raced
    BY <1>5, <2>1, <1>b DEF Push
  <2>2. CASE ~raced
    <3>1. snap[t] = queue
      BY <1>5, <2>2 DEF Push, Critical, LockInv, SectionSeesQueue
    <3>2. arg[t] \in Task
      BY <1>5 DEF Push, TypeInv, ArgIsTask
    <3>3. PendingTasks' = Append(PendingTasks, arg[t])
      BY <1>5, <1>t, <3>1, <3>2, PostStep DEF Push, PendingTasks
    <3>4. TQ!Post
      BY <1>5, <2>2, <3>2, <3>3 DEF Push, TQ!Post
    <3> QED
      BY <2>2, <3>4 DEF TQ!Next
  <2> QED
    BY <2>1, <2>2
<1>6. CASE TestStopFlag \/ EpollReturns \/ EpollTimesOut \/ DispatchIn
             \/ DispatchOut \/ DispatchError \/ IterationDtor
  BY <1>6, <1>a DEF TestStopFlag, EpollReturns, EpollTimesOut, DispatchIn,
     DispatchOut, DispatchError, IterationDtor
<1>7. ASSUME NEW t \in Threads, PushDtor(t) PROVE [TQ!Next]_(TQ!vars)
  BY <1>7, <1>a DEF PushDtor
<1>8. ASSUME NEW p \in Posters, Requests(p) \/ Wakeup(p) \/ StopWakeup(p)
      PROVE  [TQ!Next]_(TQ!vars)
  BY <1>8, <1>a DEF Requests, AddEpollEvent, DelEpollEvent, AddTask, Begin,
     Stop, Wakeup, StopWakeup
<1>9. CASE UNCHANGED vars
  BY <1>9, <1>a DEF vars
<1> QED
  BY <1>1, <1>2, <1>3, <1>4, <1>5, <1>6, <1>7, <1>8, <1>9, <1>t
     DEF Next, LoopStep, LoopBusy, InFlight

(* Until two sections overlap the loop is a FIFO queue that runs each closure*)
(* handed to add_task exactly once, for any number of threads.               *)
THEOREM RefinesTaskQueue == Spec => ImplementsTaskQueue
  BY InitRefines, NextRefines, TypeInvariant, LockInvariant, PhaseInvariant, PTL
     DEF Spec, ImplementsTaskQueue, TQ!Spec
=============================================================================
