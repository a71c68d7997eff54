------------------------------- MODULE Timer -------------------------------
(* One kabi::timer (kabisrc/net/timer.cpp): the multimap of pending          *)
(* timerEvents, the timerfd that wakes the loop for the first of them, and   *)
(* the threads that add and delete events while the loop's thread is in      *)
(* on_timer.  Times are kept relative to get_now_ms(): arrive[e] is e's      *)
(* m_arrive_time minus now, so time passes without a bound on it.  A thread  *)
(* may be delayed between reading that clock and setting the timerfd; the    *)
(* wall clock behind get_now_ms() may also be set forward, which moves every *)
(* arrive but not the timerfd (CLOCK_MONOTONIC); it is never set back.  The  *)
(* multimap is the set of its events, ordered by arrive; the order of events *)
(* of one millisecond is left open.  m_mutex is held through scope_mutext,   *)
(* whose destructor unlocks a second time; when two sections overlap because *)
(* of that, `raced' is set and nothing after it is modelled.                 *)
EXTENDS Integers, FiniteSets

CONSTANTS
    LoopThread,     \* the thread that runs the loop and on_timer
    Users,          \* other threads that add and delete events
    Nobody,         \* m_mutex is free
    Events,         \* timerEvent objects
    Repeated,       \* those with m_is_repeated
    Interval,       \* m_interval of each
    Grace,          \* the 100 ms reset_arrive_time sets for a due event
    NoEvent,
    Disarmed        \* the timerfd is not running

Threads == Users \cup {LoopThread}
Overdue == -1       \* every time before now

ASSUME TimerThreads == LoopThread \notin Users /\ Nobody \notin Threads
ASSUME TimerEvents ==
    /\ Repeated \subseteq Events
    /\ NoEvent \notin Events
    /\ Interval \in [Events -> Nat \ {0}]
    /\ Grace \in Nat \ {0}
    /\ Disarmed \notin Nat

VARIABLES
    mutex,      \* the thread that holds m_mutex, or Nobody
    pc,         \* where each thread is
    arg,        \* the event a thread is adding or deleting
    snap,       \* the first event of the copy reset_arrive_time made
    wait,       \* its local interval, after it has read the clock (else 0)
    delay,      \* how far the clock has moved since (as long as it matters)
    phase,      \* on_timer: not running, before or after its own copy
    added,      \* the events that were created and handed to add_timer_event
    arrive,     \* m_arrive_time - now
    cancelled,  \* the events with m_is_canceled
    pending,    \* m_pending_events
    deadline,   \* ticks until the timerfd expires
    late,       \* how far the clock ran from its reading to the arming, and
                \* has been set forward since (as long as it matters)
    expired,    \* the timerfd is readable
    dueNow,     \* the events with m_arrive_time <= the now on_timer sampled
    again,      \* the repeated events of tmps that are not added again yet
    due,        \* tasks: events whose callback is still to run
    running,    \* the event whose callback is running
    raced,      \* two critical sections have overlapped
    stale,      \* the timerfd was last set for an event that is not the first
    runs,       \* how often each callback that is not repeated has run (2:
                \* twice or more)
    lateRuns    \* ... since the event was cancelled

eventVars == <<added, cancelled, pending>>
alarmVars == <<deadline, late, expired, stale>>
resetVars == <<snap, wait, delay>>
taskVars  == <<dueNow, again, due, running, runs, lateRuns>>
timerVars == <<mutex, pc, arg, phase, arrive, raced, eventVars, alarmVars,
               resetVars, taskVars>>

Critical == {"add", "copy", "del", "collect"}
UserPC   == {"idle", "lockAdd", "add", "lockReset", "copy", "readClock",
             "settime", "resetDtor", "addDtor", "lockDel", "del", "delDtor"}
LoopPC   == UserPC \cup {"called", "sample", "lockCollect", "collect", "readd",
                        "run"}

TypeOK ==
    /\ mutex \in Threads \cup {Nobody}
    /\ pc \in [Threads -> LoopPC]
    /\ \A t \in Users : pc[t] \in UserPC
    /\ arg \in [Threads -> Events \cup {NoEvent}]
    /\ snap \in [Threads -> Events \cup {NoEvent}]
    /\ wait \in [Threads -> Nat]
    /\ delay \in [Threads -> Nat]
    /\ phase \in {"none", "collect", "run"}
    /\ added \in SUBSET Events
    /\ arrive \in [Events -> Int]
    /\ cancelled \in SUBSET Events
    /\ pending \in SUBSET Events
    /\ deadline \in Nat \cup {Disarmed}
    /\ late \in Nat
    /\ expired \in BOOLEAN
    /\ dueNow \in SUBSET Events
    /\ again \in SUBSET Events
    /\ due \in SUBSET Events
    /\ running \in Events \cup {NoEvent}
    /\ raced \in BOOLEAN
    /\ stale \in BOOLEAN
    /\ runs \in [Events -> 0 .. 2]
    /\ lateRuns \in [Events -> 0 .. 2]

Init ==
    /\ mutex = Nobody
    /\ pc = [t \in Threads |-> "idle"]
    /\ arg = [t \in Threads |-> NoEvent]
    /\ snap = [t \in Threads |-> NoEvent]
    /\ wait = [t \in Threads |-> 0] /\ delay = [t \in Threads |-> 0]
    /\ phase = "none"
    /\ added = {} /\ cancelled = {} /\ pending = {}
    /\ arrive = [e \in Events |-> 0]
    /\ deadline = Disarmed /\ late = 0
    /\ expired = FALSE
    /\ dueNow = {} /\ again = {} /\ due = {}
    /\ running = NoEvent
    /\ raced = FALSE
    /\ stale = FALSE
    /\ runs = [e \in Events |-> 0]
    /\ lateRuns = [e \in Events |-> 0]

-----------------------------------------------------------------------------
Goto(t, next) == pc' = [pc EXCEPT ![t] = next]

(* scope_mutext<mutex> locker(m_mutex)                                       *)
Acquire(t, from, section) ==
    /\ pc[t] = from
    /\ mutex = Nobody
    /\ mutex' = t
    /\ raced' = \E u \in Threads \ {t} : pc[u] \in Critical
    /\ Goto(t, section)
    /\ UNCHANGED <<arg, phase, arrive, eventVars, alarmVars, resetVars,
                   taskVars>>

(* unlock() frees the mutex whoever holds it; so does the destructor.        *)
Unlock == mutex' = Nobody

(* Where a thread goes on after add_timer_event or del_timer_event.          *)
Caller(t) ==
    IF t # LoopThread THEN "idle"
    ELSE CASE phase = "none" -> "idle"
           [] phase = "collect" -> "readd"
           [] phase = "run" -> "run"

(* A thread calls the timer between its own tasks; the loop's thread also    *)
(* from the callback that on_timer runs.                                     *)
MayCall(t) == pc[t] = "idle" \/ (pc[t] = "run" /\ running # NoEvent)

-----------------------------------------------------------------------------
(* std::make_shared<timerEvent>(interval, ...) and add_timer_event(event).   *)
BeginWithoutEvent(t, e) ==       \* mutant: the event itself is not passed on
    /\ arrive' = [arrive EXCEPT ![e] = Interval[e]]
    /\ Goto(t, "lockAdd")
    /\ UNCHANGED arg

Begin(t, e) ==
    /\ arrive' = [arrive EXCEPT ![e] = Interval[e]]
    /\ arg' = [arg EXCEPT ![t] = e]
    /\ Goto(t, "lockAdd")

AddTimerEvent(t, e) ==
    /\ MayCall(t)
    /\ e \notin added
    /\ added' = added \cup {e}
    /\ Begin(t, e)
    /\ UNCHANGED <<mutex, phase, raced, cancelled, pending, alarmVars,
                   resetVars, taskVars>>

LockAdd(t) == Acquire(t, "lockAdd", "add")

(* is_reset_timerfd: the map is empty or its first event is later.  Two      *)
(* times in the past compare either way.                                     *)
ResetUnlessEmpty(e) == {pending # {}}          \* mutant: the test is inverted
ResetWhenEmpty(e)   == {pending = {}}          \* mutant: only the empty map
NeedsReset(e) ==
    IF \A f \in pending : arrive[f] > arrive[e] THEN {TRUE}
    ELSE IF arrive[e] = Overdue THEN BOOLEAN ELSE {FALSE}

Emplace(t) ==
    /\ pc[t] = "add"
    /\ pending' = pending \cup {arg[t]}
    /\ \E reset \in NeedsReset(arg[t]) :
          Goto(t, IF reset THEN "lockReset" ELSE "addDtor")
    /\ Unlock
    /\ UNCHANGED <<arg, phase, arrive, raced, added, cancelled, alarmVars,
                   resetVars, taskVars>>

AddDtor(t) ==
    /\ pc[t] = "addDtor"
    /\ arg' = [arg EXCEPT ![t] = NoEvent]
    /\ Unlock
    /\ Goto(t, Caller(t))
    /\ UNCHANGED <<phase, arrive, raced, eventVars, alarmVars, resetVars,
                   taskVars>>

-----------------------------------------------------------------------------
(* reset_arrive_time(): auto tmp = m_pending_events under the lock ...       *)
LockReset(t) == Acquire(t, "lockReset", "copy")

Firsts == {e \in pending : \A f \in pending : arrive[e] <= arrive[f]}

CopyPending(t) ==
    /\ pc[t] = "copy"
    /\ \/ pending = {} /\ Goto(t, "resetDtor") /\ UNCHANGED snap
       \/ /\ \E e \in Firsts : snap' = [snap EXCEPT ![t] = e]
          /\ Goto(t, "readClock")
    /\ phase' = IF t = LoopThread /\ arg[t] = NoEvent THEN "run" ELSE phase
    /\ Unlock
    /\ UNCHANGED <<arg, arrive, raced, eventVars, alarmVars, wait, delay,
                   taskVars>>

(* ... and without it, the interval from the copy and the clock, ...         *)
NoGrace(e) ==                    \* mutant: an overdue event is not set
    IF arrive[e] > 0 THEN arrive[e] ELSE 0
TicksUntil(e) == IF arrive[e] > 0 THEN arrive[e] ELSE Grace

ReadClock(t) ==
    /\ pc[t] = "readClock"
    /\ wait' = [wait EXCEPT ![t] = TicksUntil(snap[t])]
    /\ Goto(t, "settime")
    /\ UNCHANGED <<mutex, arg, phase, arrive, raced, eventVars, alarmVars,
                   snap, delay, taskVars>>

(* ... and timerfd_settime: it forgets an expiration nobody has read, and an *)
(* interval of 0 would stop the timerfd.                                     *)
SetTime(t) ==
    /\ pc[t] = "settime"
    /\ deadline' = IF wait[t] = 0 THEN Disarmed ELSE wait[t]
    /\ late' = delay[t]
    /\ expired' = FALSE
    /\ stale' = (snap[t] \notin Firsts)
    /\ snap' = [snap EXCEPT ![t] = NoEvent]
    /\ wait' = [wait EXCEPT ![t] = 0]
    /\ delay' = [delay EXCEPT ![t] = 0]
    /\ Goto(t, "resetDtor")
    /\ UNCHANGED <<mutex, arg, phase, arrive, raced, eventVars, taskVars>>

ResetDtor(t) ==
    /\ pc[t] = "resetDtor"
    /\ Unlock
    /\ Goto(t, IF arg[t] # NoEvent THEN "addDtor" ELSE "run")
    /\ UNCHANGED <<arg, phase, arrive, raced, eventVars, alarmVars, resetVars,
                   taskVars>>

-----------------------------------------------------------------------------
(* Nobody reads m_arrive_time of an event that has left the map before it is *)
(* set again: it counts as long past, which saves states.                    *)
Forgotten(out) == [e \in Events |-> IF e \in out THEN Overdue ELSE arrive[e]]

(* del_timer_event: set_cancel(true) before the lock is taken.               *)
DelTimerEvent(t, e) ==
    /\ MayCall(t)
    /\ e \in added \ cancelled
    /\ cancelled' = cancelled \cup {e}
    /\ arg' = [arg EXCEPT ![t] = e]
    /\ Goto(t, "lockDel")
    /\ UNCHANGED <<mutex, phase, arrive, raced, added, pending, alarmVars,
                   resetVars, taskVars>>

LockDel(t) == Acquire(t, "lockDel", "del")

Erase(t) ==
    /\ pc[t] = "del"
    /\ pending' = pending \ {arg[t]}
    /\ arrive' = Forgotten(pending \cap {arg[t]})
    /\ Unlock
    /\ Goto(t, "delDtor")
    /\ UNCHANGED <<arg, phase, raced, added, cancelled, alarmVars,
                   resetVars, taskVars>>

DelDtor(t) ==
    /\ pc[t] = "delDtor"
    /\ arg' = [arg EXCEPT ![t] = NoEvent]
    /\ Unlock
    /\ Goto(t, Caller(t))
    /\ UNCHANGED <<phase, arrive, raced, eventVars, alarmVars, resetVars,
                   taskVars>>

-----------------------------------------------------------------------------
(* epoll_wait reports the timerfd; on_timer is queued and called later, by   *)
(* when another thread may have set the timerfd anew.                        *)
Poll ==
    /\ pc[LoopThread] = "idle"
    /\ expired
    /\ Goto(LoopThread, "called")
    /\ UNCHANGED <<mutex, arg, phase, arrive, raced, eventVars, alarmVars,
                   resetVars, taskVars>>

(* on_timer: read the timerfd empty, then sample the time.                   *)
ReadTimerfd ==
    /\ pc[LoopThread] = "called"
    /\ expired' = FALSE
    /\ phase' = "collect"
    /\ Goto(LoopThread, "sample")
    /\ UNCHANGED <<mutex, arg, arrive, raced, eventVars, deadline, late, stale,
                   resetVars, taskVars>>

SampleNow ==
    /\ pc[LoopThread] = "sample"
    /\ dueNow' = {e \in added : arrive[e] <= 0}
    /\ Goto(LoopThread, "lockCollect")
    /\ UNCHANGED <<mutex, arg, phase, arrive, raced, eventVars, alarmVars,
                   resetVars, again, due, running, runs, lateRuns>>

LockCollect == Acquire(LoopThread, "lockCollect", "collect")

(* The due events leave the map; those not cancelled go to tmps and tasks.   *)
(* The sample is not used again.                                             *)
CollectCancelled ==              \* mutant: is_cancled() is not tested
    /\ pc[LoopThread] = "collect"
    /\ again' = pending \cap dueNow \cap Repeated
    /\ due' = pending \cap dueNow
    /\ pending' = pending \ dueNow
    /\ arrive' = Forgotten(pending \cap dueNow)
    /\ dueNow' = {}
    /\ Unlock
    /\ Goto(LoopThread, "readd")
    /\ UNCHANGED <<arg, phase, raced, added, cancelled, alarmVars,
                   resetVars, running, runs, lateRuns>>

Collect ==
    /\ pc[LoopThread] = "collect"
    /\ due' = (pending \cap dueNow) \ cancelled
    /\ again' = due' \cap Repeated
    /\ pending' = pending \ dueNow
    /\ arrive' = Forgotten(pending \cap dueNow)
    /\ dueNow' = {}
    /\ Unlock
    /\ Goto(LoopThread, "readd")
    /\ UNCHANGED <<arg, phase, raced, added, cancelled, alarmVars,
                   resetVars, running, runs, lateRuns>>

ReAdd(e) ==
    /\ pc[LoopThread] = "readd"
    /\ e \in again
    /\ again' = again \ {e}
    /\ Begin(LoopThread, e)
    /\ UNCHANGED <<mutex, phase, raced, eventVars, alarmVars, resetVars,
                   dueNow, due, running, runs, lateRuns>>

ReAddDone ==
    /\ pc[LoopThread] = "readd"
    /\ again = {}
    /\ Goto(LoopThread, "lockReset")
    /\ UNCHANGED <<mutex, arg, phase, arrive, raced, eventVars, alarmVars,
                   resetVars, taskVars>>

OneMore(n) == IF n = 2 THEN 2 ELSE n + 1

RunCallback(e) ==
    /\ pc[LoopThread] = "run"
    /\ e \in due
    /\ due' = due \ {e}
    /\ running' = e
    /\ runs' = IF e \in Repeated THEN runs ELSE [runs EXCEPT ![e] = OneMore(@)]
    /\ lateRuns' = IF e \in cancelled
                   THEN [lateRuns EXCEPT ![e] = OneMore(@)] ELSE lateRuns
    /\ UNCHANGED <<mutex, pc, arg, phase, arrive, raced, eventVars, alarmVars,
                   resetVars, dueNow, again>>

(* The end of on_timer destroys its locker.                                  *)
EndOnTimer ==
    /\ pc[LoopThread] = "run"
    /\ due = {}
    /\ Unlock
    /\ phase' = "none"
    /\ running' = NoEvent
    /\ Goto(LoopThread, "idle")
    /\ UNCHANGED <<arg, arrive, raced, eventVars, alarmVars, resetVars, dueNow,
                   again, due, runs, lateRuns>>

-----------------------------------------------------------------------------
(* A millisecond of the clock; n is a delay that matters up to limit.        *)
Sooner == [e \in Events |-> IF e \in added /\ arrive[e] > Overdue
                           THEN arrive[e] - 1 ELSE arrive[e]]
Longer(n, limit) == IF n > limit THEN n ELSE n + 1
Delayed == [t \in Threads |-> IF pc[t] = "settime"
                             THEN Longer(delay[t], wait[t]) ELSE delay[t]]

(* A millisecond passes; the timerfd expires at the end of its last one.     *)
Tick ==
    /\ \/ \E e \in added : arrive[e] > Overdue
       \/ deadline # Disarmed
    /\ arrive' = Sooner
    /\ delay' = Delayed
    /\ IF deadline = Disarmed THEN UNCHANGED alarmVars
       ELSE IF deadline > 1
            THEN deadline' = deadline - 1 /\ UNCHANGED <<late, expired, stale>>
       ELSE /\ deadline' = Disarmed /\ late' = 0 /\ stale' = FALSE
            /\ expired' = TRUE
    /\ UNCHANGED <<mutex, pc, arg, phase, raced, eventVars, snap, wait,
                   taskVars>>

(* The wall clock is set forward: the timerfd does not follow it.            *)
ClockStep ==
    /\ \E e \in added : arrive[e] > Overdue
    /\ arrive' = Sooner
    /\ delay' = Delayed
    /\ late' = IF deadline = Disarmed THEN late ELSE Longer(late, deadline)
    /\ UNCHANGED <<mutex, pc, arg, phase, raced, eventVars, deadline, expired,
                   stale, snap, wait, taskVars>>

-----------------------------------------------------------------------------
Calls(t)    == \E e \in Events : AddTimerEvent(t, e) \/ DelTimerEvent(t, e)
Locking(t)  == LockAdd(t) \/ LockReset(t) \/ LockDel(t)
Working(t)  == Emplace(t) \/ AddDtor(t) \/ CopyPending(t) \/ ReadClock(t)
                 \/ SetTime(t) \/ ResetDtor(t) \/ Erase(t) \/ DelDtor(t)
OnTimer     == Poll \/ ReadTimerfd \/ SampleNow \/ Collect \/ ReAddDone
                 \/ EndOnTimer \/ \E e \in Events : ReAdd(e) \/ RunCallback(e)

Next ==
    /\ ~raced
    /\ \/ \E t \in Threads : Calls(t) \/ Locking(t) \/ Working(t)
       \/ OnTimer \/ LockCollect \/ Tick \/ ClockStep

Spec == Init /\ [][Next]_timerVars

(* Time passes, threads inside the timer go on, the loop calls back a ready  *)
(* timerfd; everyone gets the mutex in the end (threads leave their sections *)
(* and a pthread mutex wakes its waiters).  Nobody has to call the timer or  *)
(* to set the clock.                                                         *)
Fairness ==
    /\ WF_timerVars(~raced /\ Tick)
    /\ WF_timerVars(~raced /\ OnTimer)
    /\ SF_timerVars(~raced /\ (LockCollect \/ Locking(LoopThread)))
    /\ \A t \in Threads : WF_timerVars(~raced /\ Working(t))
    /\ \A t \in Users : SF_timerVars(~raced /\ Locking(t))

FairSpec == Spec /\ Fairness

-----------------------------------------------------------------------------
(* A thread that will set the timerfd after what is in the map now.          *)
WillReset(t) == pc[t] \in {"lockReset", "copy", "readClock", "settime"}
OnTimerWillReset == phase = "collect"

(* As long as an event is pending, the timerfd is running or readable, or a  *)
(* thread is about to set it: no interleaving of add_timer_event,            *)
(* del_timer_event and on_timer leaves an event nobody will wake up for.     *)
NoEventForgotten ==
    pending # {} => \/ deadline # Disarmed \/ expired
                    \/ OnTimerWillReset
                    \/ \E t \in Threads : WillReset(t)

(* "当前插入的任务的定时事件比队列里所有的时间都要早，需要修改"               *)
(* (timer.cpp:61): unless it was set from a copy that was out of date, the   *)
(* timerfd expires no later than the first event is due, or Grace after now; *)
(* later only by as much as the thread that armed it was held up after       *)
(* reading the clock and as the wall clock has been set forward since.       *)
WakesInTime ==
    /\ ~stale /\ ~OnTimerWillReset /\ deadline # Disarmed
    /\ \A t \in Threads : ~WillReset(t)
    => \A e \in pending : deadline <= arrive[e] + late \/ deadline <= Grace

(* Where an event is: an event is never in the map twice, nor in the map and *)
(* on its way back into it.                                                  *)
Adding(e) == {t \in Threads : arg[t] = e /\ pc[t] \in {"lockAdd", "add"}}
EventHeldOnce ==
    \A e \in Events : Adding(e) # {} => e \notin pending \cup again

(* A callback of an event that is not repeated runs at most once.            *)
OneShotRunsOnce == \A e \in Events \ Repeated : runs[e] <= 1

(* Cancelling takes effect from the next batch on: after del_timer_event has *)
(* set the flag, a callback runs at most once more, repeated or not.         *)
CancelledRunsOnceMore == \A e \in Events : lateRuns[e] <= 1

(* Both of them: an event's callback runs as often as it was asked to.       *)
RunsAsAsked == OneShotRunsOnce /\ CancelledRunsOnceMore

(* A pending event is collected in the end, unless it is cancelled first.    *)
PendingIsCollected ==
    \A e \in Events :
        e \in pending ~> (e \in due \/ e \in cancelled \/ raced)
=============================================================================
