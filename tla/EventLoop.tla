----------------------------- MODULE EventLoop -----------------------------
(* One kabi::eventloop (kabisrc/net/eventloop.cpp), the thread that runs its *)
(* loop() and the threads that call add_epoll_event, del_epoll_event,        *)
(* add_task and stop on it.  m_mutex is held through scope_mutext            *)
(* (kabisrc/include/mutex.h), whose destructor unlocks even after an explicit*)
(* unlock(): both unlocks are modelled.  A critical section is two steps, a  *)
(* read of m_pending_tasks (kept in snap) and a write based on it, so that   *)
(* two overlapping sections lose or repeat closures as the racing code does; *)
(* `raced' remembers that an overlap has happened.                           *)
EXTENDS Naturals, Sequences, FiniteSets

CONSTANTS
    LoopThread,       \* the thread that created the loop and runs loop()
    Posters,          \* the other threads that use the loop
    Nobody,           \* m_mutex is free
    Calls,            \* closures other threads hand to add_task
    Fds,              \* sockets that can be registered
    TimerFd,          \* m_timer's timerfd
    WakeFd,           \* m_wakeup_fd, an eventfd
    ErrorFds,         \* the fds whose fdEvent has an error callback
    NoTask,
    MaxEpollEvents,   \* g_epoll_max_event
    MaxQueue          \* bound: no new post while the queue is this long

Threads == Posters \cup {LoopThread}
AllFds  == Fds \cup {TimerFd, WakeFd}

ASSUME ThreadsAssumption == LoopThread \notin Posters /\ Nobody \notin Threads
ASSUME FdsAssumption == /\ TimerFd \notin Fds /\ WakeFd \notin Fds
                        /\ TimerFd # WakeFd /\ ErrorFds \subseteq Fds
                        /\ IsFiniteSet(Fds)
ASSUME BoundsAssumption == MaxEpollEvents \in Nat \ {0} /\ MaxQueue \in Nat

(* A closure of m_pending_tasks.  "add" and "del" are the lambdas of         *)
(* add_epoll_event and del_epoll_event, "in" and "out" the callbacks of the  *)
(* fd's fdEvent, "call" a closure handed to add_task directly.               *)
Task == [op : {"add", "del"}, arg : Fds]
          \cup [op : {"in", "out"}, arg : AllFds]
          \cup [op : {"call"}, arg : Calls]

ASSUME NoTaskIsNoTask == NoTask \notin Task

Kinds == {"in", "out", "err"}
KindsOf(fd) == IF fd \in Fds THEN Kinds ELSE {"in"}

VARIABLES
    mutex,      \* the thread that holds m_mutex, or Nobody
    pc,         \* where each thread is
    snap,       \* what a thread read of m_pending_tasks in its section
    arg,        \* the closure a thread is handing to add_task
    queue,      \* m_pending_tasks
    batch,      \* tmp_tasks
    running,    \* the closure loop() is running
    events,     \* what epoll_wait returned and is not dispatched yet
    listenFds,  \* m_listen_fds, and the fds registered with epoll
    signalled,  \* the eventfd's counter is not zero
    stopFlag,   \* m_stop_flag
    raced       \* two critical sections have overlapped

vars == <<mutex, pc, snap, arg, queue, batch, running, events, listenFds,
          signalled, stopFlag, raced>>

Critical == {"swap", "push"}
LoopPC   == {"top", "lock", "swap", "drain", "wait", "dispatch", "lockPush",
             "push", "dtor", "exit"}
PosterPC == {"idle", "lockPush", "push", "wakeup", "dtor", "stopWakeup"}

Event == [fd : AllFds, kinds : SUBSET Kinds]

TypeOK ==
    /\ mutex \in Threads \cup {Nobody}
    /\ pc \in [Threads -> LoopPC \cup PosterPC]
    /\ pc[LoopThread] \in LoopPC
    /\ \A p \in Posters : pc[p] \in PosterPC
    /\ snap \in [Threads -> Seq(Task)]
    /\ arg \in [Threads -> Task \cup {NoTask}]
    /\ queue \in Seq(Task)
    /\ batch \in Seq(Task)
    /\ running \in Task \cup {NoTask}
    /\ events \in Seq(Event)
    /\ listenFds \in SUBSET AllFds
    /\ signalled \in BOOLEAN
    /\ stopFlag \in BOOLEAN
    /\ raced \in BOOLEAN

Init ==
    /\ mutex = Nobody
    /\ pc = [t \in Threads |-> IF t = LoopThread THEN "top" ELSE "idle"]
    /\ snap = [t \in Threads |-> <<>>]
    /\ arg = [t \in Threads |-> NoTask]
    /\ queue = <<>>
    /\ batch = <<>>
    /\ running = NoTask
    /\ events = <<>>
    /\ listenFds = {TimerFd, WakeFd}
    /\ signalled = FALSE
    /\ stopFlag = FALSE
    /\ raced = FALSE

-----------------------------------------------------------------------------
(* scope_mutext<mutex> locker(m_mutex), and the first access to the queue.   *)
Acquire(t, section) ==
    /\ mutex = Nobody
    /\ mutex' = t
    /\ snap' = [snap EXCEPT ![t] = queue]
    /\ pc' = [pc EXCEPT ![t] = section]
    /\ raced' = (raced \/ \E u \in Threads \ {t} : pc[u] \in Critical)

(* pthread_mutex_unlock on a default mutex frees it whoever holds it.  A     *)
(* section's own copy of the queue is dead once it is left.                  *)
Unlock == mutex' = Nobody
Leave(t, next) ==
    /\ pc' = [pc EXCEPT ![t] = next]
    /\ snap' = [snap EXCEPT ![t] = <<>>]
    /\ Unlock

Goto(t, next) == pc' = [pc EXCEPT ![t] = next]

-----------------------------------------------------------------------------
(* add_task, from the lock on: used by other threads (is_wake_up = true) and *)
(* by loop() for the callbacks it dispatches (is_wake_up = false).           *)
LockPush(t) ==
    /\ pc[t] = "lockPush"
    /\ Acquire(t, "push")
    /\ UNCHANGED <<arg, queue, batch, running, events, listenFds, signalled,
                   stopFlag>>

PushAfterReset(t) ==             \* mutant: the closure is moved from too early
    /\ pc[t] = "push"
    /\ arg' = [arg EXCEPT ![t] = NoTask]
    /\ queue' = Append(snap[t], arg'[t])
    /\ Leave(t, IF t = LoopThread THEN "dtor" ELSE "wakeup")
    /\ UNCHANGED <<batch, running, events, listenFds, signalled, stopFlag,
                   raced>>

Push(t) ==
    /\ pc[t] = "push"
    /\ queue' = Append(snap[t], arg[t])
    /\ arg' = [arg EXCEPT ![t] = NoTask]
    /\ Leave(t, IF t = LoopThread THEN "dtor" ELSE "wakeup")
    /\ UNCHANGED <<batch, running, events, listenFds, signalled, stopFlag,
                   raced>>

(* The destructor of add_task's locker: the second unlock.                   *)
PushDtor(t) ==
    /\ pc[t] = "dtor"
    /\ Unlock
    /\ Goto(t, IF t = LoopThread THEN "dispatch" ELSE "idle")
    /\ UNCHANGED <<snap, arg, queue, batch, running, events, listenFds,
                   signalled, stopFlag, raced>>

(* A thread other than the loop's calls add_epoll_event, del_epoll_event or  *)
(* add_task.  The guard on the queue's length and on raced is the bound that *)
(* keeps the state space finite.                                             *)
PostBound == Len(queue) < MaxQueue /\ ~raced

Begin(p, task) ==
    /\ pc[p] = "idle"
    /\ PostBound
    /\ arg' = [arg EXCEPT ![p] = task]
    /\ Goto(p, "lockPush")
    /\ UNCHANGED <<mutex, snap, queue, batch, running, events, listenFds,
                   signalled, stopFlag, raced>>

AddEpollEvent(p) == \E fd \in Fds : Begin(p, [op |-> "add", arg |-> fd])
DelEpollEventDirectly(p) ==      \* mutant: no is_inloop_thread() test
    /\ pc[p] = "idle"
    /\ \E fd \in Fds : listenFds' = listenFds \ {fd}
    /\ UNCHANGED <<mutex, pc, snap, arg, queue, batch, running, events,
                   signalled, stopFlag, raced>>
DelEpollEvent(p) == \E fd \in Fds : Begin(p, [op |-> "del", arg |-> fd])
AddTask(p)       == \E c \in Calls : Begin(p, [op |-> "call", arg |-> c])

(* wakeUpFdEvent::wakeup from add_task: the eventfd becomes readable.        *)
Wakeup(p) ==
    /\ pc[p] = "wakeup"
    /\ signalled' = TRUE
    /\ Goto(p, "dtor")
    /\ UNCHANGED <<mutex, snap, arg, queue, batch, running, events, listenFds,
                   stopFlag, raced>>

(* eventloop::stop: the flag, then the wakeup.                               *)
Stop(p) ==
    /\ pc[p] = "idle"
    /\ ~stopFlag
    /\ stopFlag' = TRUE
    /\ Goto(p, "stopWakeup")
    /\ UNCHANGED <<mutex, snap, arg, queue, batch, running, events, listenFds,
                   signalled, raced>>

StopWakeup(p) ==
    /\ pc[p] = "stopWakeup"
    /\ signalled' = TRUE
    /\ Goto(p, "idle")
    /\ UNCHANGED <<mutex, snap, arg, queue, batch, running, events, listenFds,
                   stopFlag, raced>>

-----------------------------------------------------------------------------
(* loop(): while(!m_stop_flag)                                               *)
TestStopFlag ==
    /\ pc[LoopThread] = "top"
    /\ Goto(LoopThread, IF stopFlag THEN "exit" ELSE "lock")
    /\ UNCHANGED <<mutex, snap, arg, queue, batch, running, events, listenFds,
                   signalled, stopFlag, raced>>

LockSwap ==
    /\ pc[LoopThread] = "lock"
    /\ Acquire(LoopThread, "swap")
    /\ UNCHANGED <<arg, queue, batch, running, events, listenFds, signalled,
                   stopFlag>>

(* m_pending_tasks.swap(tmp_tasks); locker.unlock()                          *)
CopyInsteadOfSwap ==             \* mutant: m_pending_tasks is not emptied
    /\ pc[LoopThread] = "swap"
    /\ batch' = snap[LoopThread]
    /\ Leave(LoopThread, "drain")
    /\ UNCHANGED <<arg, queue, running, events, listenFds, signalled, stopFlag,
                   raced>>

Swap ==
    /\ pc[LoopThread] = "swap"
    /\ batch' = snap[LoopThread]
    /\ queue' = <<>>
    /\ Leave(LoopThread, "drain")
    /\ UNCHANGED <<arg, running, events, listenFds, signalled, stopFlag, raced>>

(* What running a closure does to the loop.  A callback of a socket may      *)
(* (re)register it (listen_write_event, on_write), remove it (clear) or      *)
(* leave it; called on the loop's own thread these take effect at once.      *)
(* The wakeup callback empties the eventfd.                                  *)
Registered(task) ==
    CASE task.op = "add"  -> {listenFds \cup {task.arg}}
      [] task.op = "del"  -> {listenFds \ {task.arg}}
      [] task.op \in {"in", "out"} /\ task.arg \in Fds ->
            {listenFds, listenFds \cup {task.arg}, listenFds \ {task.arg}}
      [] OTHER -> {listenFds}

RunTask ==
    /\ pc[LoopThread] = "drain"
    /\ batch # <<>>
    /\ running' = Head(batch)
    /\ batch' = Tail(batch)
    /\ listenFds' \in Registered(Head(batch))
    /\ signalled' = (signalled /\ Head(batch) # [op |-> "in", arg |-> WakeFd])
    /\ UNCHANGED <<mutex, pc, snap, arg, queue, events, stopFlag, raced>>

BeginWait ==
    /\ pc[LoopThread] = "drain"
    /\ batch = <<>>
    /\ running' = NoTask
    /\ Goto(LoopThread, "wait")
    /\ UNCHANGED <<mutex, snap, arg, queue, batch, events, listenFds,
                   signalled, stopFlag, raced>>

(* epoll_wait returns some of the ready fds, in any order and at most        *)
(* MaxEpollEvents of them; a signalled eventfd is among them unless the      *)
(* result is full.  Readiness of the other fds is the environment's choice.  *)
Orders(S) == {s \in [1 .. Cardinality(S) -> S] :
                 \A i, j \in DOMAIN s : i # j => s[i] # s[j]}


KindsReported(S) == {kinds \in [S -> (SUBSET Kinds) \ {{}}] :
                        \A fd \in S : kinds[fd] \subseteq KindsOf(fd)}

EpollResults(S) == {[i \in 1 .. Cardinality(S) |->
                       [fd |-> order[i], kinds |-> kinds[order[i]]]] :
                          order \in Orders(S), kinds \in KindsReported(S)}

EpollReturns ==
    /\ pc[LoopThread] = "wait"
    /\ \E S \in SUBSET (listenFds \ (IF signalled THEN {} ELSE {WakeFd})) :
          /\ S # {}
          /\ Cardinality(S) <= MaxEpollEvents
          /\ signalled => WakeFd \in S \/ Cardinality(S) = MaxEpollEvents
          /\ events' \in EpollResults(S)
    /\ Goto(LoopThread, "dispatch")
    /\ UNCHANGED <<mutex, snap, arg, queue, batch, running, listenFds,
                   signalled, stopFlag, raced>>

(* The 10 s timeout (g_global_max_timeout), or an interrupted call.          *)
NeverTimesOut == FALSE           \* mutant: epoll_wait with timeout -1

EpollTimesOut ==
    /\ pc[LoopThread] = "wait"
    /\ ~signalled
    /\ Goto(LoopThread, "dispatch")
    /\ UNCHANGED <<mutex, snap, arg, queue, batch, running, events, listenFds,
                   signalled, stopFlag, raced>>

(* The for loop over result_event: EPOLLIN, EPOLLOUT, EPOLLERR in that order.*)
(* The error branch removes the fd and, if there is an error callback, adds  *)
(* the OUT callback.                                                         *)
Dispatched(kind) ==
    IF events[1].kinds = {kind}
    THEN events' = Tail(events)
    ELSE events' = [events EXCEPT ![1].kinds = @ \ {kind}]

DispatchIn ==
    /\ pc[LoopThread] = "dispatch"
    /\ events # <<>> /\ "in" \in events[1].kinds
    /\ arg' = [arg EXCEPT ![LoopThread] = [op |-> "in", arg |-> events[1].fd]]
    /\ Dispatched("in")
    /\ Goto(LoopThread, "lockPush")
    /\ UNCHANGED <<mutex, snap, queue, batch, running, listenFds, signalled,
                   stopFlag, raced>>

DispatchOut ==
    /\ pc[LoopThread] = "dispatch"
    /\ events # <<>> /\ "in" \notin events[1].kinds
    /\ "out" \in events[1].kinds
    /\ arg' = [arg EXCEPT ![LoopThread] = [op |-> "out", arg |-> events[1].fd]]
    /\ Dispatched("out")
    /\ Goto(LoopThread, "lockPush")
    /\ UNCHANGED <<mutex, snap, queue, batch, running, listenFds, signalled,
                   stopFlag, raced>>

DispatchError ==
    /\ pc[LoopThread] = "dispatch"
    /\ events # <<>> /\ events[1].kinds = {"err"}
    /\ listenFds' = listenFds \ {events[1].fd}
    /\ IF events[1].fd \in ErrorFds
       THEN /\ arg' = [arg EXCEPT ![LoopThread] =
                                      [op |-> "out", arg |-> events[1].fd]]
            /\ Goto(LoopThread, "lockPush")
       ELSE UNCHANGED <<arg, pc>>
    /\ Dispatched("err")
    /\ UNCHANGED <<mutex, snap, queue, batch, running, signalled, stopFlag,
                   raced>>

(* The end of an iteration destroys loop()'s locker: an unlock long after    *)
(* the section was left.                                                     *)
IterationDtor ==
    /\ pc[LoopThread] = "dispatch"
    /\ events = <<>>
    /\ Unlock
    /\ Goto(LoopThread, "top")
    /\ UNCHANGED <<snap, arg, queue, batch, running, events, listenFds,
                   signalled, stopFlag, raced>>

-----------------------------------------------------------------------------
(* What loop() does without waiting for anything but the mutex.              *)
LoopBusy == \/ TestStopFlag \/ LockSwap \/ Swap \/ RunTask \/ BeginWait
            \/ DispatchIn \/ DispatchOut \/ DispatchError \/ IterationDtor
            \/ LockPush(LoopThread) \/ Push(LoopThread) \/ PushDtor(LoopThread)

LoopStep == LoopBusy \/ EpollReturns \/ EpollTimesOut

Requests(p)  == AddEpollEvent(p) \/ DelEpollEvent(p) \/ AddTask(p) \/ Stop(p)
InFlight(p)  == LockPush(p) \/ Push(p) \/ Wakeup(p) \/ PushDtor(p) \/ StopWakeup(p)

Next == LoopStep \/ \E p \in Posters : Requests(p) \/ InFlight(p)

Spec == Init /\ [][Next]_vars

(* A thread that has work keeps running, and gets the mutex in the end.      *)
(* epoll_wait comes back when the eventfd is signalled and after its timeout;*)
(* nothing obliges a socket or the timer to become ready.                    *)
Fairness ==
    /\ WF_vars(LoopBusy \/ EpollTimesOut \/ (signalled /\ EpollReturns))
    /\ SF_vars(LockSwap \/ LockPush(LoopThread))
    /\ \A p \in Posters : WF_vars(InFlight(p))

FairSpec == Spec /\ Fairness

-----------------------------------------------------------------------------
(* Until two sections overlap, what a thread read inside its section is      *)
(* still the queue when it writes: no push or swap can be lost.              *)
SectionSeesQueue ==
    ~raced => \A t \in Threads : pc[t] \in Critical => snap[t] = queue

(* The mutex is never left locked: whoever holds it is inside its section,   *)
(* despite the unlocks other threads' destructors make.                      *)
NoLeakedLock == mutex # Nobody => pc[mutex] \in Critical

(* An event that loop() dispatches is of an fd that is registered: because   *)
(* other threads' del_epoll_event is a closure run before the next           *)
(* epoll_wait, no fd is removed between epoll_wait and its dispatch.         *)
DispatchedIsRegistered ==
    \A i \in DOMAIN events : events[i].fd \in listenFds

(* The queue as its users see it, and the abstract specification.            *)
PendingTasks == batch \o queue
TQ == INSTANCE TaskQueue WITH pending <- PendingTasks, broken <- raced
ImplementsTaskQueue == TQ!Spec

Pending(task) == \E i \in DOMAIN PendingTasks : PendingTasks[i] = task

(* A closure another thread handed over is run, although its wakeup can be   *)
(* lost: the timeout of epoll_wait bounds the wait.                          *)
PostedIsRun ==
    \A c \in Calls :
        LET task == [op |-> "call", arg |-> c]
        IN Pending(task) ~> (running = task \/ stopFlag \/ raced)

(* stop() ends loop(), whatever the threads do.                              *)
StopEndsLoop == stopFlag ~> pc[LoopThread] = "exit"

(* "为了保证线程安全" (eventloop.cpp:158): whatever other threads do, the     *)
(* queue only ever grows by a closure at its end, or is taken over whole by  *)
(* loop(); no closure is dropped from it or comes back to it.                *)
ClosuresKept ==
    [][\/ \E t \in Task : queue' = Append(queue, t)
       \/ queue' = <<>> /\ batch' = queue]_queue
=============================================================================
