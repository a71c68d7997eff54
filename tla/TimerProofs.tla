---------------------------- MODULE TimerProofs ----------------------------
(* Proofs about Timer, for any number of threads and events.                 *)
EXTENDS Timer, TLAPS

(* A thread between the start of an add or a delete and its end has an       *)
(* event; so has a thread other than the loop's in reset_arrive_time.        *)
Placed ==
    /\ \A t \in Threads :
          pc[t] \in {"lockAdd", "add", "addDtor", "lockDel", "del", "delDtor"}
             => arg[t] \in Events
    /\ \A t \in Users :
          pc[t] \in {"lockReset", "copy", "readClock", "settime", "resetDtor"}
             => arg[t] \in Events

(* Where the loop's thread is in on_timer, and what it carries there.        *)
LoopPlace ==
    /\ pc[LoopThread] \in {"idle", "called"} => phase = "none"
    /\ pc[LoopThread] \in {"sample", "lockCollect", "collect", "readd"}
          => phase = "collect"
    /\ pc[LoopThread] = "run" => phase = "run"
    /\ pc[LoopThread] \in {"lockReset", "copy"} /\ arg[LoopThread] = NoEvent
          => phase = "collect"
    /\ pc[LoopThread] \in {"readClock", "settime", "resetDtor"}
             /\ arg[LoopThread] = NoEvent
          => phase = "run"
    /\ pc[LoopThread] \in {"idle", "called", "sample", "lockCollect",
                             "collect", "readd", "run"}
          => arg[LoopThread] = NoEvent

IsAdding(t, e) == arg[t] = e /\ pc[t] \in {"lockAdd", "add"}

(* An event is in one place: with one thread that adds it, in the map, or in *)
(* tmps; an event nobody created is nowhere.                                 *)
HeldOnce ==
    /\ \A e \in Events : \A t \in Threads :
          IsAdding(t, e) => e \in added /\ e \notin pending /\ e \notin again
    /\ \A e \in Events : \A t, u \in Threads :
          IsAdding(t, e) /\ IsAdding(u, e) => t = u
    /\ pending \cap again = {}
    /\ pending \subseteq added /\ again \subseteq added /\ due \subseteq added

(* A one-shot event has not run while it is in the map, on its way there or  *)
(* in tasks, and it is in only one of these places.                          *)
OneShot ==
    /\ again \subseteq Repeated
    /\ \A e \in Events \ Repeated :
          /\ runs[e] <= 1
          /\ e \notin added => runs[e] = 0
          /\ e \in due => runs[e] = 0 /\ e \notin pending
          /\ e \in pending => runs[e] = 0
          /\ \A t \in Threads : IsAdding(t, e) => runs[e] = 0 /\ e \notin due

(* Only an event that is not cancelled gets into tasks.                      *)
CancelledOnce ==
    \A e \in Events :
        /\ lateRuns[e] <= 1
        /\ e \in due \/ e \notin cancelled => lateRuns[e] = 0

(* An event in the map or on its way into it: its time counts.               *)
Held(e) == e \in pending \/ \E t \in Threads : IsAdding(t, e)

(* A thread in reset_arrive_time has the first event of a copy that was not  *)
(* empty; what it will set the timerfd to is no more than was left until the *)
(* event when it read the clock, which is what is left now and the delay.    *)
InTimeFor(t) ==
    /\ pc[t] \in {"readClock", "settime"} => snap[t] \in Events
    /\ pc[t] = "settime" => wait[t] >= 1
    /\ pc[t] = "settime" /\ ~(wait[t] <= Grace)
          => /\ Held(snap[t]) => wait[t] <= arrive[snap[t]] + delay[t]
             /\ wait[t] <= Interval[snap[t]]

InTime ==
    /\ \A e \in Events : Overdue <= arrive[e] /\ arrive[e] <= Interval[e]
    /\ \A t \in Threads : InTimeFor(t)

IInv == /\ TypeOK /\ Placed /\ LoopPlace /\ HeldOnce /\ OneShot
        /\ CancelledOnce /\ InTime /\ NoEventForgotten /\ WakesInTime

-----------------------------------------------------------------------------
(* Nothing is added or pending at the start.                                 *)
LEMMA InitIInv == Init => IInv
<1> SUFFICES ASSUME Init PROVE IInv
  OBVIOUS
<1> USE TimerThreads, TimerEvents
<1>1. TypeOK
  <2>1. pc \in [Threads -> LoopPC] /\ \A t \in Users : pc[t] \in UserPC
    BY DEF Init, UserPC, LoopPC, Threads
  <2>2. /\ runs \in [Events -> 0 .. 2] /\ lateRuns \in [Events -> 0 .. 2]
        /\ arrive \in [Events -> Int]
    BY DEF Init
  <2> QED
    BY <2>1, <2>2 DEF Init, TypeOK
<1>2. Placed /\ LoopPlace
  BY DEF Init, Placed, LoopPlace, Threads
<1>3. HeldOnce /\ OneShot
  BY DEF Init, HeldOnce, OneShot, IsAdding
<1>4. CancelledOnce /\ InTime /\ NoEventForgotten /\ WakesInTime
  BY DEF Init, CancelledOnce, InTime, InTimeFor, Overdue, NoEventForgotten,
         WakesInTime
<1> QED
  BY <1>1, <1>2, <1>3, <1>4 DEF IInv


(* Every action keeps the types.                                             *)
LEMMA TypeInvariant ==
  ASSUME TypeOK, Placed, InTime, [Next]_timerVars
  PROVE  TypeOK'
<1>1. ASSUME NEW t \in Threads, NEW e \in Events, AddTimerEvent(t, e)
     PROVE TypeOK'
  <2>1. pc' \in [Threads -> LoopPC] /\ \A u \in Users : pc'[u] \in UserPC
    BY <1>1, TimerThreads, TimerEvents DEF AddTimerEvent, Begin, Goto, TypeOK,
        Placed, Threads, UserPC, LoopPC
  <2>2. arrive' \in [Events -> Int]
    <3>1. Interval[e] \in Int
      BY TimerEvents
    <3> QED
      BY <1>1, <3>1 DEF AddTimerEvent, Begin, TypeOK
  <2>3. arg' \in [Threads -> Events \cup {NoEvent}]
    BY <1>1 DEF AddTimerEvent, Begin, Goto, TypeOK, Threads
  <2> QED
    BY <1>1, <2>1, <2>2, <2>3, TimerEvents DEF AddTimerEvent, Begin, Goto,
        TypeOK,
       Threads, UserPC, LoopPC, eventVars, alarmVars, resetVars, taskVars
<1>2. ASSUME NEW t \in Threads, LockAdd(t) PROVE TypeOK'
  BY <1>2, TimerThreads, TimerEvents
     DEF LockAdd, Acquire, Goto, TypeOK, Placed, Threads, UserPC, LoopPC,
         eventVars, alarmVars, resetVars, taskVars
<1>3. ASSUME NEW t \in Threads, Emplace(t) PROVE TypeOK'
  <2>1. pc' \in [Threads -> LoopPC] /\ \A u \in Users : pc'[u] \in UserPC
    BY <1>3, TimerThreads, TimerEvents DEF Emplace, NeedsReset, Goto, TypeOK,
        Placed, Threads, UserPC, LoopPC
  <2> QED
    BY <1>3, <2>1, TimerEvents DEF Emplace, Placed, Unlock, Goto, TypeOK,
       Threads, UserPC, LoopPC, eventVars, alarmVars, resetVars, taskVars
<1>4. ASSUME NEW t \in Threads, AddDtor(t) PROVE TypeOK'
  BY <1>4, TimerThreads, TimerEvents
     DEF AddDtor, Goto, Unlock, Caller, TypeOK, Placed, Threads, UserPC,
         LoopPC, eventVars, alarmVars, resetVars, taskVars
<1>5. ASSUME NEW t \in Threads, LockReset(t) PROVE TypeOK'
  BY <1>5, TimerThreads, TimerEvents
     DEF LockReset, Acquire, Goto, TypeOK, Placed, Threads, UserPC, LoopPC,
         eventVars, alarmVars, resetVars, taskVars
<1>6. ASSUME NEW t \in Threads, CopyPending(t) PROVE TypeOK'
  BY <1>6, TimerThreads, TimerEvents
     DEF CopyPending, Firsts, Goto, Unlock, TypeOK, Placed, Threads, UserPC,
         LoopPC, eventVars, alarmVars, resetVars, taskVars
<1>7. ASSUME NEW t \in Threads, ReadClock(t) PROVE TypeOK'
  <2>1. pc' \in [Threads -> LoopPC] /\ \A u \in Users : pc'[u] \in UserPC
    BY <1>7, TimerThreads, TimerEvents DEF ReadClock, Goto, TypeOK, Placed,
        Threads, UserPC, LoopPC
  <2>2. wait' \in [Threads -> Nat]
    <3>1. snap[t] \in Events
      BY <1>7 DEF ReadClock, InTime, InTimeFor
    <3>2. TicksUntil(snap[t]) \in Nat
      BY <3>1, TimerEvents DEF TicksUntil, TypeOK
    <3> QED
      BY <1>7, <3>2 DEF ReadClock, TypeOK
  <2> QED
    BY <1>7, <2>1, <2>2, TimerEvents DEF ReadClock, Goto, TypeOK,
       Threads, UserPC, LoopPC, eventVars, alarmVars, resetVars, taskVars
<1>8. ASSUME NEW t \in Threads, SetTime(t) PROVE TypeOK'
  <2>1. pc' \in [Threads -> LoopPC] /\ \A u \in Users : pc'[u] \in UserPC
    BY <1>8, TimerThreads, TimerEvents DEF SetTime, Goto, TypeOK, Placed,
        Threads, UserPC, LoopPC
  <2>2. /\ deadline' \in Nat \cup {Disarmed} /\ late' \in Nat
        /\ wait' \in [Threads -> Nat] /\ delay' \in [Threads -> Nat]
    BY <1>8 DEF SetTime, TypeOK
  <2> QED
    BY <1>8, <2>1, <2>2, TimerEvents DEF SetTime, Goto, TypeOK,
       Threads, UserPC, LoopPC, eventVars, alarmVars, resetVars, taskVars
<1>9. ASSUME NEW t \in Threads, ResetDtor(t) PROVE TypeOK'
  <2>1. pc' \in [Threads -> LoopPC] /\ \A u \in Users : pc'[u] \in UserPC
    BY <1>9, TimerThreads, TimerEvents DEF ResetDtor, Goto, TypeOK, Placed,
        Threads, UserPC, LoopPC
  <2> QED
    BY <1>9, <2>1, TimerEvents DEF ResetDtor, Unlock, Goto, TypeOK,
       Threads, UserPC, LoopPC, eventVars, alarmVars, resetVars, taskVars
<1>10. ASSUME NEW t \in Threads, NEW e \in Events, DelTimerEvent(t, e)
     PROVE TypeOK'
  BY <1>10, TimerThreads, TimerEvents
     DEF DelTimerEvent, Goto, MayCall, TypeOK, Placed, Threads, UserPC,
         LoopPC, eventVars, alarmVars, resetVars, taskVars
<1>11. ASSUME NEW t \in Threads, LockDel(t) PROVE TypeOK'
  BY <1>11, TimerThreads, TimerEvents
     DEF LockDel, Acquire, Goto, TypeOK, Placed, Threads, UserPC, LoopPC,
         eventVars, alarmVars, resetVars, taskVars
<1>12. ASSUME NEW t \in Threads, Erase(t) PROVE TypeOK'
  BY <1>12, TimerThreads, TimerEvents
     DEF Erase, Forgotten, Overdue, Goto, Unlock, TypeOK, Placed, Threads,
         UserPC, LoopPC,
         eventVars, alarmVars, resetVars, taskVars
<1>13. ASSUME NEW t \in Threads, DelDtor(t) PROVE TypeOK'
  BY <1>13, TimerThreads, TimerEvents
     DEF DelDtor, Goto, Unlock, Caller, TypeOK, Placed, Threads, UserPC,
         LoopPC, eventVars, alarmVars, resetVars, taskVars
<1>14. CASE Poll
  BY <1>14, TimerThreads, TimerEvents
     DEF Poll, Goto, TypeOK, Placed, Threads, UserPC, LoopPC, eventVars,
         alarmVars, resetVars, taskVars
<1>15. CASE ReadTimerfd
  BY <1>15, TimerThreads, TimerEvents
     DEF ReadTimerfd, Goto, TypeOK, Placed, Threads, UserPC, LoopPC,
         eventVars, alarmVars, resetVars, taskVars
<1>16. CASE SampleNow
  BY <1>16, TimerThreads, TimerEvents
     DEF SampleNow, Goto, TypeOK, Placed, Threads, UserPC, LoopPC, eventVars,
         alarmVars, resetVars, taskVars
<1>17. CASE LockCollect
  BY <1>17, TimerThreads, TimerEvents
     DEF LockCollect, Acquire, Goto, TypeOK, Placed, Threads, UserPC, LoopPC,
         eventVars, alarmVars, resetVars, taskVars
<1>18. CASE Collect
  BY <1>18, TimerThreads, TimerEvents
     DEF Collect, Forgotten, Overdue, Goto, Unlock, TypeOK, Placed, Threads,
         UserPC, LoopPC,
         eventVars, alarmVars, resetVars, taskVars
<1>19. ASSUME NEW e \in Events, ReAdd(e) PROVE TypeOK'
  <2>1. pc' \in [Threads -> LoopPC] /\ \A u \in Users : pc'[u] \in UserPC
    BY <1>19, TimerThreads, TimerEvents DEF ReAdd, Begin, Goto, TypeOK,
        Placed, Threads, UserPC, LoopPC
  <2>2. arrive' \in [Events -> Int]
    <3>1. Interval[e] \in Int
      BY TimerEvents
    <3> QED
      BY <1>19, <3>1 DEF ReAdd, Begin, TypeOK
  <2>3. arg' \in [Threads -> Events \cup {NoEvent}]
    BY <1>19 DEF ReAdd, Begin, Goto, TypeOK, Threads
  <2> QED
    BY <1>19, <2>1, <2>2, <2>3, TimerEvents DEF ReAdd, Begin, Goto, TypeOK,
       Threads, UserPC, LoopPC, eventVars, alarmVars, resetVars, taskVars
<1>20. CASE ReAddDone
  BY <1>20, TimerThreads, TimerEvents
     DEF ReAddDone, Goto, TypeOK, Placed, Threads, UserPC, LoopPC, eventVars,
         alarmVars, resetVars, taskVars
<1>21. ASSUME NEW e \in Events, RunCallback(e) PROVE TypeOK'
  BY <1>21, TimerThreads, TimerEvents
     DEF RunCallback, OneMore, TypeOK, Placed, Threads, UserPC, LoopPC,
         eventVars, alarmVars, resetVars, taskVars
<1>22. CASE EndOnTimer
  BY <1>22, TimerThreads, TimerEvents
     DEF EndOnTimer, Goto, Unlock, TypeOK, Placed, Threads, UserPC, LoopPC,
         eventVars, alarmVars, resetVars, taskVars
<1>23. CASE Tick
  <2>1. arrive' \in [Events -> Int] /\ delay' \in [Threads -> Nat]
    BY <1>23 DEF Tick, Sooner, Delayed, Longer, TypeOK
  <2>2. deadline' \in Nat \cup {Disarmed} /\ late' \in Nat
    <3>1. deadline # Disarmed /\ deadline > 1 => deadline - 1 \in Nat
      BY DEF TypeOK
    <3> QED
      BY <1>23, <3>1 DEF Tick, TypeOK, alarmVars
  <2>3. expired' \in BOOLEAN
    BY <1>23 DEF Tick, TypeOK, alarmVars
  <2>4. stale' \in BOOLEAN
    BY <1>23 DEF Tick, TypeOK, alarmVars
  <2> QED
    <3>1. UNCHANGED <<mutex, pc, arg, phase, raced, eventVars, snap, wait,
                      taskVars>>
      BY <1>23 DEF Tick
    <3> QED
      BY <2>1, <2>2, <2>3, <2>4, <3>1
         DEF TypeOK, Threads, UserPC, LoopPC, eventVars, taskVars
<1>24. CASE ClockStep
  <2>1. arrive' \in [Events -> Int] /\ delay' \in [Threads -> Nat]
    BY <1>24 DEF ClockStep, Sooner, Delayed, Longer, TypeOK
  <2>2. late' \in Nat
    BY <1>24 DEF ClockStep, Longer, TypeOK
  <2> QED
    <3>1. UNCHANGED <<mutex, pc, arg, phase, raced, eventVars, deadline,
        expired,
                      stale, snap, wait, taskVars>>
      BY <1>24 DEF ClockStep
    <3> QED
      BY <2>1, <2>2, <3>1
         DEF TypeOK, Threads, UserPC, LoopPC, eventVars, taskVars
<1>25. CASE UNCHANGED timerVars
  BY <1>25 DEF timerVars, TypeOK, Placed, Threads, UserPC, LoopPC, eventVars,
      alarmVars, resetVars, taskVars
<1> QED
  BY <1>1, <1>2, <1>3, <1>4, <1>5, <1>6, <1>7, <1>8, <1>9, <1>10, <1>11,
      <1>12, <1>13, <1>14, <1>15, <1>16, <1>17, <1>18, <1>19, <1>20, <1>21,
      <1>22, <1>23, <1>24, <1>25
     DEF Next, Calls, Locking, Working, OnTimer

(* A thread keeps its event until its call ends.                             *)
LEMMA KeepsPlaced ==
  ASSUME TypeOK, Placed, LoopPlace, [Next]_timerVars
  PROVE  (Placed /\ LoopPlace)'
<1>1. ASSUME NEW t \in Threads, NEW e \in Events, AddTimerEvent(t, e)
     PROVE (Placed /\ LoopPlace)'
  BY <1>1, TimerThreads, TimerEvents
     DEF AddTimerEvent, Begin, Goto, MayCall, TypeOK, Placed, LoopPlace,
         Threads, eventVars, alarmVars, resetVars, taskVars
<1>2. ASSUME NEW t \in Threads, LockAdd(t) PROVE (Placed /\ LoopPlace)'
  BY <1>2, TimerThreads, TimerEvents
     DEF LockAdd, Acquire, Goto, TypeOK, Placed, LoopPlace, Threads,
         eventVars, alarmVars, resetVars, taskVars
<1>3. ASSUME NEW t \in Threads, Emplace(t) PROVE (Placed /\ LoopPlace)'
  BY <1>3, TimerThreads, TimerEvents
     DEF Emplace, NeedsReset, Goto, Unlock, TypeOK, Placed, LoopPlace,
         Threads, eventVars, alarmVars, resetVars, taskVars
<1>4. ASSUME NEW t \in Threads, AddDtor(t) PROVE (Placed /\ LoopPlace)'
  BY <1>4, TimerThreads, TimerEvents
     DEF AddDtor, Goto, Unlock, Caller, TypeOK, Placed, LoopPlace, Threads,
         eventVars, alarmVars, resetVars, taskVars
<1>5. ASSUME NEW t \in Threads, LockReset(t) PROVE (Placed /\ LoopPlace)'
  BY <1>5, TimerThreads, TimerEvents
     DEF LockReset, Acquire, Goto, TypeOK, Placed, LoopPlace, Threads,
         eventVars, alarmVars, resetVars, taskVars
<1>6. ASSUME NEW t \in Threads, CopyPending(t) PROVE (Placed /\ LoopPlace)'
  BY <1>6, TimerThreads, TimerEvents
     DEF CopyPending, Firsts, Goto, Unlock, TypeOK, Placed, LoopPlace,
         Threads, eventVars, alarmVars, resetVars, taskVars
<1>7. ASSUME NEW t \in Threads, ReadClock(t) PROVE (Placed /\ LoopPlace)'
  BY <1>7, TimerThreads, TimerEvents
     DEF ReadClock, TicksUntil, Goto, TypeOK, Placed, LoopPlace, Threads,
         eventVars, alarmVars, resetVars, taskVars
<1>8. ASSUME NEW t \in Threads, SetTime(t) PROVE (Placed /\ LoopPlace)'
  BY <1>8, TimerThreads, TimerEvents
     DEF SetTime, Firsts, Goto, TypeOK, Placed, LoopPlace, Threads, eventVars,
         alarmVars, resetVars, taskVars
<1>9. ASSUME NEW t \in Threads, ResetDtor(t) PROVE (Placed /\ LoopPlace)'
  BY <1>9, TimerThreads, TimerEvents
     DEF ResetDtor, Goto, Unlock, TypeOK, Placed, LoopPlace, Threads,
         eventVars, alarmVars, resetVars, taskVars
<1>10. ASSUME NEW t \in Threads, NEW e \in Events, DelTimerEvent(t, e)
     PROVE (Placed /\ LoopPlace)'
  BY <1>10, TimerThreads, TimerEvents
     DEF DelTimerEvent, Goto, MayCall, TypeOK, Placed, LoopPlace, Threads,
         eventVars, alarmVars, resetVars, taskVars
<1>11. ASSUME NEW t \in Threads, LockDel(t) PROVE (Placed /\ LoopPlace)'
  BY <1>11, TimerThreads, TimerEvents
     DEF LockDel, Acquire, Goto, TypeOK, Placed, LoopPlace, Threads,
         eventVars, alarmVars, resetVars, taskVars
<1>12. ASSUME NEW t \in Threads, Erase(t) PROVE (Placed /\ LoopPlace)'
  BY <1>12, TimerThreads, TimerEvents
     DEF Erase, Goto, Unlock, TypeOK, Placed, LoopPlace, Threads, eventVars,
         alarmVars, resetVars, taskVars
<1>13. ASSUME NEW t \in Threads, DelDtor(t) PROVE (Placed /\ LoopPlace)'
  BY <1>13, TimerThreads, TimerEvents
     DEF DelDtor, Goto, Unlock, Caller, TypeOK, Placed, LoopPlace, Threads,
         eventVars, alarmVars, resetVars, taskVars
<1>14. CASE Poll
  BY <1>14, TimerThreads, TimerEvents
     DEF Poll, Goto, TypeOK, Placed, LoopPlace, Threads, eventVars, alarmVars,
         resetVars, taskVars
<1>15. CASE ReadTimerfd
  BY <1>15, TimerThreads, TimerEvents
     DEF ReadTimerfd, Goto, TypeOK, Placed, LoopPlace, Threads, eventVars,
         alarmVars, resetVars, taskVars
<1>16. CASE SampleNow
  BY <1>16, TimerThreads, TimerEvents
     DEF SampleNow, Goto, TypeOK, Placed, LoopPlace, Threads, eventVars,
         alarmVars, resetVars, taskVars
<1>17. CASE LockCollect
  BY <1>17, TimerThreads, TimerEvents
     DEF LockCollect, Acquire, Goto, TypeOK, Placed, LoopPlace, Threads,
         eventVars, alarmVars, resetVars, taskVars
<1>18. CASE Collect
  BY <1>18, TimerThreads, TimerEvents
     DEF Collect, Goto, Unlock, TypeOK, Placed, LoopPlace, Threads, eventVars,
         alarmVars, resetVars, taskVars
<1>19. ASSUME NEW e \in Events, ReAdd(e) PROVE (Placed /\ LoopPlace)'
  BY <1>19, TimerThreads, TimerEvents
     DEF ReAdd, Begin, Goto, TypeOK, Placed, LoopPlace, Threads, eventVars,
         alarmVars, resetVars, taskVars
<1>20. CASE ReAddDone
  BY <1>20, TimerThreads, TimerEvents
     DEF ReAddDone, Goto, TypeOK, Placed, LoopPlace, Threads, eventVars,
         alarmVars, resetVars, taskVars
<1>21. ASSUME NEW e \in Events, RunCallback(e) PROVE (Placed /\ LoopPlace)'
  BY <1>21, TimerThreads, TimerEvents
     DEF RunCallback, OneMore, TypeOK, Placed, LoopPlace, Threads, eventVars,
         alarmVars, resetVars, taskVars
<1>22. CASE EndOnTimer
  BY <1>22, TimerThreads, TimerEvents
     DEF EndOnTimer, Goto, Unlock, TypeOK, Placed, LoopPlace, Threads,
         eventVars, alarmVars, resetVars, taskVars
<1>23. CASE Tick
  BY <1>23, TimerThreads, TimerEvents
     DEF Tick, Sooner, Delayed, Longer, TypeOK, Placed, LoopPlace, Threads,
         eventVars, alarmVars, resetVars, taskVars
<1>24. CASE ClockStep
  BY <1>24, TimerThreads, TimerEvents
     DEF ClockStep, Sooner, Delayed, Longer, TypeOK, Placed, LoopPlace,
         Threads, eventVars, alarmVars, resetVars, taskVars
<1>25. CASE UNCHANGED timerVars
  BY <1>25 DEF timerVars, TypeOK, Placed, LoopPlace, Threads, eventVars,
      alarmVars, resetVars, taskVars
<1> QED
  BY <1>1, <1>2, <1>3, <1>4, <1>5, <1>6, <1>7, <1>8, <1>9, <1>10, <1>11,
      <1>12, <1>13, <1>14, <1>15, <1>16, <1>17, <1>18, <1>19, <1>20, <1>21,
      <1>22, <1>23, <1>24, <1>25
     DEF Next, Calls, Locking, Working, OnTimer

(* Only the thread that adds an event puts it into the map, and on_timer     *)
(* takes from the map what it will add again.                                *)
LEMMA KeepsHeldOnce ==
  ASSUME TypeOK, Placed, HeldOnce, [Next]_timerVars
  PROVE  HeldOnce'
<1>1. ASSUME NEW t \in Threads, NEW e \in Events, AddTimerEvent(t, e)
     PROVE HeldOnce'
  BY <1>1, TimerThreads, TimerEvents
     DEF AddTimerEvent, Begin, Goto, MayCall, TypeOK, Placed, HeldOnce,
         IsAdding, Threads, eventVars, alarmVars, resetVars, taskVars
<1>2. ASSUME NEW t \in Threads, LockAdd(t) PROVE HeldOnce'
  BY <1>2, TimerThreads, TimerEvents
     DEF LockAdd, Acquire, Goto, TypeOK, Placed, HeldOnce, IsAdding, Threads,
         eventVars, alarmVars, resetVars, taskVars
<1>3. ASSUME NEW t \in Threads, Emplace(t) PROVE HeldOnce'
  BY <1>3, TimerThreads, TimerEvents
     DEF Emplace, NeedsReset, Goto, Unlock, TypeOK, Placed, HeldOnce,
         IsAdding, Threads, eventVars, alarmVars, resetVars, taskVars
<1>4. ASSUME NEW t \in Threads, AddDtor(t) PROVE HeldOnce'
  BY <1>4, TimerThreads, TimerEvents
     DEF AddDtor, Goto, Unlock, Caller, TypeOK, Placed, HeldOnce, IsAdding,
         Threads, eventVars, alarmVars, resetVars, taskVars
<1>5. ASSUME NEW t \in Threads, LockReset(t) PROVE HeldOnce'
  BY <1>5, TimerThreads, TimerEvents
     DEF LockReset, Acquire, Goto, TypeOK, Placed, HeldOnce, IsAdding,
         Threads, eventVars, alarmVars, resetVars, taskVars
<1>6. ASSUME NEW t \in Threads, CopyPending(t) PROVE HeldOnce'
  BY <1>6, TimerThreads, TimerEvents
     DEF CopyPending, Firsts, Goto, Unlock, TypeOK, Placed, HeldOnce,
         IsAdding, Threads, eventVars, alarmVars, resetVars, taskVars
<1>7. ASSUME NEW t \in Threads, ReadClock(t) PROVE HeldOnce'
  BY <1>7, TimerThreads, TimerEvents
     DEF ReadClock, TicksUntil, Goto, TypeOK, Placed, HeldOnce, IsAdding,
         Threads, eventVars, alarmVars, resetVars, taskVars
<1>8. ASSUME NEW t \in Threads, SetTime(t) PROVE HeldOnce'
  BY <1>8, TimerThreads, TimerEvents
     DEF SetTime, Firsts, Goto, TypeOK, Placed, HeldOnce, IsAdding, Threads,
         eventVars, alarmVars, resetVars, taskVars
<1>9. ASSUME NEW t \in Threads, ResetDtor(t) PROVE HeldOnce'
  BY <1>9, TimerThreads, TimerEvents
     DEF ResetDtor, Goto, Unlock, TypeOK, Placed, HeldOnce, IsAdding, Threads,
         eventVars, alarmVars, resetVars, taskVars
<1>10. ASSUME NEW t \in Threads, NEW e \in Events, DelTimerEvent(t, e)
     PROVE HeldOnce'
  BY <1>10, TimerThreads, TimerEvents
     DEF DelTimerEvent, Goto, MayCall, TypeOK, Placed, HeldOnce, IsAdding,
         Threads, eventVars, alarmVars, resetVars, taskVars
<1>11. ASSUME NEW t \in Threads, LockDel(t) PROVE HeldOnce'
  BY <1>11, TimerThreads, TimerEvents
     DEF LockDel, Acquire, Goto, TypeOK, Placed, HeldOnce, IsAdding, Threads,
         eventVars, alarmVars, resetVars, taskVars
<1>12. ASSUME NEW t \in Threads, Erase(t) PROVE HeldOnce'
  BY <1>12, TimerThreads, TimerEvents
     DEF Erase, Goto, Unlock, TypeOK, Placed, HeldOnce, IsAdding, Threads,
         eventVars, alarmVars, resetVars, taskVars
<1>13. ASSUME NEW t \in Threads, DelDtor(t) PROVE HeldOnce'
  BY <1>13, TimerThreads, TimerEvents
     DEF DelDtor, Goto, Unlock, Caller, TypeOK, Placed, HeldOnce, IsAdding,
         Threads, eventVars, alarmVars, resetVars, taskVars
<1>14. CASE Poll
  BY <1>14, TimerThreads, TimerEvents
     DEF Poll, Goto, TypeOK, Placed, HeldOnce, IsAdding, Threads, eventVars,
         alarmVars, resetVars, taskVars
<1>15. CASE ReadTimerfd
  BY <1>15, TimerThreads, TimerEvents
     DEF ReadTimerfd, Goto, TypeOK, Placed, HeldOnce, IsAdding, Threads,
         eventVars, alarmVars, resetVars, taskVars
<1>16. CASE SampleNow
  BY <1>16, TimerThreads, TimerEvents
     DEF SampleNow, Goto, TypeOK, Placed, HeldOnce, IsAdding, Threads,
         eventVars, alarmVars, resetVars, taskVars
<1>17. CASE LockCollect
  BY <1>17, TimerThreads, TimerEvents
     DEF LockCollect, Acquire, Goto, TypeOK, Placed, HeldOnce, IsAdding,
         Threads, eventVars, alarmVars, resetVars, taskVars
<1>18. CASE Collect
  BY <1>18, TimerThreads, TimerEvents
     DEF Collect, Goto, Unlock, TypeOK, Placed, HeldOnce, IsAdding, Threads,
         eventVars, alarmVars, resetVars, taskVars
<1>19. ASSUME NEW e \in Events, ReAdd(e) PROVE HeldOnce'
  BY <1>19, TimerThreads, TimerEvents
     DEF ReAdd, Begin, Goto, TypeOK, Placed, HeldOnce, IsAdding, Threads,
         eventVars, alarmVars, resetVars, taskVars
<1>20. CASE ReAddDone
  BY <1>20, TimerThreads, TimerEvents
     DEF ReAddDone, Goto, TypeOK, Placed, HeldOnce, IsAdding, Threads,
         eventVars, alarmVars, resetVars, taskVars
<1>21. ASSUME NEW e \in Events, RunCallback(e) PROVE HeldOnce'
  BY <1>21, TimerThreads, TimerEvents
     DEF RunCallback, OneMore, TypeOK, Placed, HeldOnce, IsAdding, Threads,
         eventVars, alarmVars, resetVars, taskVars
<1>22. CASE EndOnTimer
  BY <1>22, TimerThreads, TimerEvents
     DEF EndOnTimer, Goto, Unlock, TypeOK, Placed, HeldOnce, IsAdding,
         Threads, eventVars, alarmVars, resetVars, taskVars
<1>23. CASE Tick
  BY <1>23, TimerThreads, TimerEvents
     DEF Tick, Sooner, Delayed, Longer, TypeOK, Placed, HeldOnce, IsAdding,
         Threads, eventVars, alarmVars, resetVars, taskVars
<1>24. CASE ClockStep
  BY <1>24, TimerThreads, TimerEvents
     DEF ClockStep, Sooner, Delayed, Longer, TypeOK, Placed, HeldOnce,
         IsAdding, Threads, eventVars, alarmVars, resetVars, taskVars
<1>25. CASE UNCHANGED timerVars
  BY <1>25 DEF timerVars, TypeOK, Placed, HeldOnce, IsAdding, Threads,
      eventVars, alarmVars, resetVars, taskVars
<1> QED
  BY <1>1, <1>2, <1>3, <1>4, <1>5, <1>6, <1>7, <1>8, <1>9, <1>10, <1>11,
      <1>12, <1>13, <1>14, <1>15, <1>16, <1>17, <1>18, <1>19, <1>20, <1>21,
      <1>22, <1>23, <1>24, <1>25
     DEF Next, Calls, Locking, Working, OnTimer

(* A one-shot event leaves the map for tasks and does not come back.         *)
LEMMA KeepsOneShot ==
  ASSUME TypeOK, Placed, HeldOnce, OneShot, [Next]_timerVars
  PROVE  OneShot'
<1>1. ASSUME NEW t \in Threads, NEW e \in Events, AddTimerEvent(t, e)
     PROVE OneShot'
  BY <1>1, TimerThreads, TimerEvents
     DEF AddTimerEvent, Begin, Goto, MayCall, TypeOK, Placed, HeldOnce,
         OneShot, IsAdding, Threads, eventVars, alarmVars, resetVars, taskVars
<1>2. ASSUME NEW t \in Threads, LockAdd(t) PROVE OneShot'
  BY <1>2, TimerThreads, TimerEvents
     DEF LockAdd, Acquire, Goto, TypeOK, Placed, HeldOnce, OneShot, IsAdding,
         Threads, eventVars, alarmVars, resetVars, taskVars
<1>3. ASSUME NEW t \in Threads, Emplace(t) PROVE OneShot'
  BY <1>3, TimerThreads, TimerEvents
     DEF Emplace, NeedsReset, Goto, Unlock, TypeOK, Placed, HeldOnce, OneShot,
         IsAdding, Threads, eventVars, alarmVars, resetVars, taskVars
<1>4. ASSUME NEW t \in Threads, AddDtor(t) PROVE OneShot'
  BY <1>4, TimerThreads, TimerEvents
     DEF AddDtor, Goto, Unlock, Caller, TypeOK, Placed, HeldOnce, OneShot,
         IsAdding, Threads, eventVars, alarmVars, resetVars, taskVars
<1>5. ASSUME NEW t \in Threads, LockReset(t) PROVE OneShot'
  BY <1>5, TimerThreads, TimerEvents
     DEF LockReset, Acquire, Goto, TypeOK, Placed, HeldOnce, OneShot,
         IsAdding, Threads, eventVars, alarmVars, resetVars, taskVars
<1>6. ASSUME NEW t \in Threads, CopyPending(t) PROVE OneShot'
  BY <1>6, TimerThreads, TimerEvents
     DEF CopyPending, Firsts, Goto, Unlock, TypeOK, Placed, HeldOnce, OneShot,
         IsAdding, Threads, eventVars, alarmVars, resetVars, taskVars
<1>7. ASSUME NEW t \in Threads, ReadClock(t) PROVE OneShot'
  BY <1>7, TimerThreads, TimerEvents
     DEF ReadClock, TicksUntil, Goto, TypeOK, Placed, HeldOnce, OneShot,
         IsAdding, Threads, eventVars, alarmVars, resetVars, taskVars
<1>8. ASSUME NEW t \in Threads, SetTime(t) PROVE OneShot'
  BY <1>8, TimerThreads, TimerEvents
     DEF SetTime, Firsts, Goto, TypeOK, Placed, HeldOnce, OneShot, IsAdding,
         Threads, eventVars, alarmVars, resetVars, taskVars
<1>9. ASSUME NEW t \in Threads, ResetDtor(t) PROVE OneShot'
  BY <1>9, TimerThreads, TimerEvents
     DEF ResetDtor, Goto, Unlock, TypeOK, Placed, HeldOnce, OneShot, IsAdding,
         Threads, eventVars, alarmVars, resetVars, taskVars
<1>10. ASSUME NEW t \in Threads, NEW e \in Events, DelTimerEvent(t, e)
     PROVE OneShot'
  BY <1>10, TimerThreads, TimerEvents
     DEF DelTimerEvent, Goto, MayCall, TypeOK, Placed, HeldOnce, OneShot,
         IsAdding, Threads, eventVars, alarmVars, resetVars, taskVars
<1>11. ASSUME NEW t \in Threads, LockDel(t) PROVE OneShot'
  BY <1>11, TimerThreads, TimerEvents
     DEF LockDel, Acquire, Goto, TypeOK, Placed, HeldOnce, OneShot, IsAdding,
         Threads, eventVars, alarmVars, resetVars, taskVars
<1>12. ASSUME NEW t \in Threads, Erase(t) PROVE OneShot'
  BY <1>12, TimerThreads, TimerEvents
     DEF Erase, Goto, Unlock, TypeOK, Placed, HeldOnce, OneShot, IsAdding,
         Threads, eventVars, alarmVars, resetVars, taskVars
<1>13. ASSUME NEW t \in Threads, DelDtor(t) PROVE OneShot'
  BY <1>13, TimerThreads, TimerEvents
     DEF DelDtor, Goto, Unlock, Caller, TypeOK, Placed, HeldOnce, OneShot,
         IsAdding, Threads, eventVars, alarmVars, resetVars, taskVars
<1>14. CASE Poll
  BY <1>14, TimerThreads, TimerEvents
     DEF Poll, Goto, TypeOK, Placed, HeldOnce, OneShot, IsAdding, Threads,
         eventVars, alarmVars, resetVars, taskVars
<1>15. CASE ReadTimerfd
  BY <1>15, TimerThreads, TimerEvents
     DEF ReadTimerfd, Goto, TypeOK, Placed, HeldOnce, OneShot, IsAdding,
         Threads, eventVars, alarmVars, resetVars, taskVars
<1>16. CASE SampleNow
  BY <1>16, TimerThreads, TimerEvents
     DEF SampleNow, Goto, TypeOK, Placed, HeldOnce, OneShot, IsAdding,
         Threads, eventVars, alarmVars, resetVars, taskVars
<1>17. CASE LockCollect
  BY <1>17, TimerThreads, TimerEvents
     DEF LockCollect, Acquire, Goto, TypeOK, Placed, HeldOnce, OneShot,
         IsAdding, Threads, eventVars, alarmVars, resetVars, taskVars
<1>18. CASE Collect
  BY <1>18, TimerThreads, TimerEvents
     DEF Collect, Goto, Unlock, TypeOK, Placed, HeldOnce, OneShot, IsAdding,
         Threads, eventVars, alarmVars, resetVars, taskVars
<1>19. ASSUME NEW e \in Events, ReAdd(e) PROVE OneShot'
  BY <1>19, TimerThreads, TimerEvents
     DEF ReAdd, Begin, Goto, TypeOK, Placed, HeldOnce, OneShot, IsAdding,
         Threads, eventVars, alarmVars, resetVars, taskVars
<1>20. CASE ReAddDone
  BY <1>20, TimerThreads, TimerEvents
     DEF ReAddDone, Goto, TypeOK, Placed, HeldOnce, OneShot, IsAdding,
         Threads, eventVars, alarmVars, resetVars, taskVars
<1>21. ASSUME NEW e \in Events, RunCallback(e) PROVE OneShot'
  BY <1>21, TimerThreads, TimerEvents
     DEF RunCallback, OneMore, TypeOK, Placed, HeldOnce, OneShot, IsAdding,
         Threads, eventVars, alarmVars, resetVars, taskVars
<1>22. CASE EndOnTimer
  BY <1>22, TimerThreads, TimerEvents
     DEF EndOnTimer, Goto, Unlock, TypeOK, Placed, HeldOnce, OneShot,
         IsAdding, Threads, eventVars, alarmVars, resetVars, taskVars
<1>23. CASE Tick
  BY <1>23, TimerThreads, TimerEvents
     DEF Tick, Sooner, Delayed, Longer, TypeOK, Placed, HeldOnce, OneShot,
         IsAdding, Threads, eventVars, alarmVars, resetVars, taskVars
<1>24. CASE ClockStep
  BY <1>24, TimerThreads, TimerEvents
     DEF ClockStep, Sooner, Delayed, Longer, TypeOK, Placed, HeldOnce,
         OneShot, IsAdding, Threads, eventVars, alarmVars, resetVars, taskVars
<1>25. CASE UNCHANGED timerVars
  BY <1>25 DEF timerVars, TypeOK, Placed, HeldOnce, OneShot, IsAdding,
      Threads, eventVars, alarmVars, resetVars, taskVars
<1> QED
  BY <1>1, <1>2, <1>3, <1>4, <1>5, <1>6, <1>7, <1>8, <1>9, <1>10, <1>11,
      <1>12, <1>13, <1>14, <1>15, <1>16, <1>17, <1>18, <1>19, <1>20, <1>21,
      <1>22, <1>23, <1>24, <1>25
     DEF Next, Calls, Locking, Working, OnTimer

(* A cancelled event is not collected again.                                 *)
LEMMA KeepsCancelledOnce ==
  ASSUME TypeOK, CancelledOnce, [Next]_timerVars
  PROVE  CancelledOnce'
<1>1. ASSUME NEW t \in Threads, NEW e \in Events, AddTimerEvent(t, e)
     PROVE CancelledOnce'
  BY <1>1, TimerThreads, TimerEvents
     DEF AddTimerEvent, Begin, Goto, MayCall, TypeOK, CancelledOnce, Threads,
         eventVars, alarmVars, resetVars, taskVars
<1>2. ASSUME NEW t \in Threads, LockAdd(t) PROVE CancelledOnce'
  BY <1>2, TimerThreads, TimerEvents
     DEF LockAdd, Acquire, Goto, TypeOK, CancelledOnce, Threads, eventVars,
         alarmVars, resetVars, taskVars
<1>3. ASSUME NEW t \in Threads, Emplace(t) PROVE CancelledOnce'
  BY <1>3, TimerThreads, TimerEvents
     DEF Emplace, NeedsReset, Goto, Unlock, TypeOK, CancelledOnce, Threads,
         eventVars, alarmVars, resetVars, taskVars
<1>4. ASSUME NEW t \in Threads, AddDtor(t) PROVE CancelledOnce'
  BY <1>4, TimerThreads, TimerEvents
     DEF AddDtor, Goto, Unlock, Caller, TypeOK, CancelledOnce, Threads,
         eventVars, alarmVars, resetVars, taskVars
<1>5. ASSUME NEW t \in Threads, LockReset(t) PROVE CancelledOnce'
  BY <1>5, TimerThreads, TimerEvents
     DEF LockReset, Acquire, Goto, TypeOK, CancelledOnce, Threads, eventVars,
         alarmVars, resetVars, taskVars
<1>6. ASSUME NEW t \in Threads, CopyPending(t) PROVE CancelledOnce'
  BY <1>6, TimerThreads, TimerEvents
     DEF CopyPending, Firsts, Goto, Unlock, TypeOK, CancelledOnce, Threads,
         eventVars, alarmVars, resetVars, taskVars
<1>7. ASSUME NEW t \in Threads, ReadClock(t) PROVE CancelledOnce'
  BY <1>7, TimerThreads, TimerEvents
     DEF ReadClock, TicksUntil, Goto, TypeOK, CancelledOnce, Threads,
         eventVars, alarmVars, resetVars, taskVars
<1>8. ASSUME NEW t \in Threads, SetTime(t) PROVE CancelledOnce'
  BY <1>8, TimerThreads, TimerEvents
     DEF SetTime, Firsts, Goto, TypeOK, CancelledOnce, Threads, eventVars,
         alarmVars, resetVars, taskVars
<1>9. ASSUME NEW t \in Threads, ResetDtor(t) PROVE CancelledOnce'
  BY <1>9, TimerThreads, TimerEvents
     DEF ResetDtor, Goto, Unlock, TypeOK, CancelledOnce, Threads, eventVars,
         alarmVars, resetVars, taskVars
<1>10. ASSUME NEW t \in Threads, NEW e \in Events, DelTimerEvent(t, e)
     PROVE CancelledOnce'
  BY <1>10, TimerThreads, TimerEvents
     DEF DelTimerEvent, Goto, MayCall, TypeOK, CancelledOnce, Threads,
         eventVars, alarmVars, resetVars, taskVars
<1>11. ASSUME NEW t \in Threads, LockDel(t) PROVE CancelledOnce'
  BY <1>11, TimerThreads, TimerEvents
     DEF LockDel, Acquire, Goto, TypeOK, CancelledOnce, Threads, eventVars,
         alarmVars, resetVars, taskVars
<1>12. ASSUME NEW t \in Threads, Erase(t) PROVE CancelledOnce'
  BY <1>12, TimerThreads, TimerEvents
     DEF Erase, Goto, Unlock, TypeOK, CancelledOnce, Threads, eventVars,
         alarmVars, resetVars, taskVars
<1>13. ASSUME NEW t \in Threads, DelDtor(t) PROVE CancelledOnce'
  BY <1>13, TimerThreads, TimerEvents
     DEF DelDtor, Goto, Unlock, Caller, TypeOK, CancelledOnce, Threads,
         eventVars, alarmVars, resetVars, taskVars
<1>14. CASE Poll
  BY <1>14, TimerThreads, TimerEvents
     DEF Poll, Goto, TypeOK, CancelledOnce, Threads, eventVars, alarmVars,
         resetVars, taskVars
<1>15. CASE ReadTimerfd
  BY <1>15, TimerThreads, TimerEvents
     DEF ReadTimerfd, Goto, TypeOK, CancelledOnce, Threads, eventVars,
         alarmVars, resetVars, taskVars
<1>16. CASE SampleNow
  BY <1>16, TimerThreads, TimerEvents
     DEF SampleNow, Goto, TypeOK, CancelledOnce, Threads, eventVars,
         alarmVars, resetVars, taskVars
<1>17. CASE LockCollect
  BY <1>17, TimerThreads, TimerEvents
     DEF LockCollect, Acquire, Goto, TypeOK, CancelledOnce, Threads,
         eventVars, alarmVars, resetVars, taskVars
<1>18. CASE Collect
  BY <1>18, TimerThreads, TimerEvents
     DEF Collect, Goto, Unlock, TypeOK, CancelledOnce, Threads, eventVars,
         alarmVars, resetVars, taskVars
<1>19. ASSUME NEW e \in Events, ReAdd(e) PROVE CancelledOnce'
  BY <1>19, TimerThreads, TimerEvents
     DEF ReAdd, Begin, Goto, TypeOK, CancelledOnce, Threads, eventVars,
         alarmVars, resetVars, taskVars
<1>20. CASE ReAddDone
  BY <1>20, TimerThreads, TimerEvents
     DEF ReAddDone, Goto, TypeOK, CancelledOnce, Threads, eventVars,
         alarmVars, resetVars, taskVars
<1>21. ASSUME NEW e \in Events, RunCallback(e) PROVE CancelledOnce'
  BY <1>21, TimerThreads, TimerEvents
     DEF RunCallback, OneMore, TypeOK, CancelledOnce, Threads, eventVars,
         alarmVars, resetVars, taskVars
<1>22. CASE EndOnTimer
  BY <1>22, TimerThreads, TimerEvents
     DEF EndOnTimer, Goto, Unlock, TypeOK, CancelledOnce, Threads, eventVars,
         alarmVars, resetVars, taskVars
<1>23. CASE Tick
  BY <1>23, TimerThreads, TimerEvents
     DEF Tick, Sooner, Delayed, Longer, TypeOK, CancelledOnce, Threads,
         eventVars, alarmVars, resetVars, taskVars
<1>24. CASE ClockStep
  BY <1>24, TimerThreads, TimerEvents
     DEF ClockStep, Sooner, Delayed, Longer, TypeOK, CancelledOnce, Threads,
         eventVars, alarmVars, resetVars, taskVars
<1>25. CASE UNCHANGED timerVars
  BY <1>25 DEF timerVars, TypeOK, CancelledOnce, Threads, eventVars,
      alarmVars, resetVars, taskVars
<1> QED
  BY <1>1, <1>2, <1>3, <1>4, <1>5, <1>6, <1>7, <1>8, <1>9, <1>10, <1>11,
      <1>12, <1>13, <1>14, <1>15, <1>16, <1>17, <1>18, <1>19, <1>20, <1>21,
      <1>22, <1>23, <1>24, <1>25
     DEF Next, Calls, Locking, Working, OnTimer

(* A clock that moves on before the timerfd is set is a delay.               *)
LEMMA KeepsInTime ==
  ASSUME TypeOK, Placed, HeldOnce, InTime, [Next]_timerVars
  PROVE  InTime'
<1>1. ASSUME NEW t \in Threads, NEW e \in Events, AddTimerEvent(t, e)
     PROVE InTime'
  <2>1. arrive' = [arrive EXCEPT ![e] = Interval[e]]
    BY <1>1 DEF AddTimerEvent, Begin
  <2>2. \A f \in Events : /\ Overdue <= arrive'[f]
                           /\ arrive'[f] <= Interval[f]
                           /\ arrive'[f] \in Int
    <3> SUFFICES ASSUME NEW f \in Events
                 PROVE  /\ Overdue <= arrive'[f]
                        /\ arrive'[f] <= Interval[f]
                        /\ arrive'[f] \in Int
      OBVIOUS
    <3>1. /\ Overdue <= arrive[f] /\ arrive[f] <= Interval[f]
          /\ arrive[f] \in Int /\ Interval[f] \in Nat
      BY TimerEvents DEF InTime, TypeOK
    <3>2. arrive'[f] = IF f = e THEN Interval[f] ELSE arrive[f]
      BY <2>1 DEF TypeOK
    <3> QED
      BY <3>1, <3>2 DEF Overdue
  <2> SUFFICES ASSUME NEW u \in Threads
               PROVE  InTimeFor(u)'
    BY <2>2 DEF InTime
  <2>3. UNCHANGED <<snap, wait, delay>> /\ InTimeFor(u)
    BY <1>1 DEF AddTimerEvent, InTime, resetVars
  <2>4. pc'[u] = pc[u] \/ pc'[u] = "lockAdd"
    BY <1>1 DEF AddTimerEvent, Begin, Goto, TypeOK
  <2>5. CASE pc'[u] = "settime" /\ ~(wait[u] <= Grace)
    <3>1. /\ snap[u] \in Events /\ wait[u] <= Interval[snap[u]]
          /\ Held(snap[u]) => wait[u] <= arrive[snap[u]] + delay[u]
      BY <2>3, <2>4, <2>5 DEF InTimeFor
    <3>2. snap[u] # e => (Held(snap[u])' => Held(snap[u]))
      BY <1>1, <2>3
         DEF AddTimerEvent, Begin, Goto, Held, IsAdding, TypeOK, eventVars
    <3>3. /\ Interval[snap[u]] \in Int /\ wait[u] \in Nat
          /\ delay[u] \in Nat
      BY <3>1, TimerEvents DEF TypeOK
    <3>4. /\ snap[u] = e => arrive'[snap[u]] = Interval[snap[u]]
          /\ snap[u] # e => arrive'[snap[u]] = arrive[snap[u]]
      BY <2>1, <3>1 DEF TypeOK
    <3>5. Held(snap[u])' => wait[u] <= arrive'[snap[u]] + delay[u]
      BY <3>1, <3>2, <3>3, <3>4
    <3> QED
      BY <2>3, <2>4, <2>5, <3>1, <3>5 DEF InTimeFor
  <2>6. CASE ~(pc'[u] = "settime" /\ ~(wait[u] <= Grace))
    BY <2>3, <2>4, <2>6 DEF InTimeFor
  <2> QED
    BY <2>5, <2>6
<1>2. ASSUME NEW t \in Threads, LockAdd(t) PROVE InTime'
  BY <1>2, TimerThreads, TimerEvents
     DEF LockAdd, Acquire, Goto, TypeOK, Placed, InTime, InTimeFor, Held,
         IsAdding, Overdue,
         Threads, eventVars, alarmVars, resetVars, taskVars
<1>3. ASSUME NEW t \in Threads, Emplace(t) PROVE InTime'
  BY <1>3, TimerThreads, TimerEvents
     DEF Emplace, NeedsReset, Goto, Unlock, TypeOK, Placed, InTime, InTimeFor,
         Held, IsAdding,
         Overdue, Threads, eventVars, alarmVars, resetVars, taskVars
<1>4. ASSUME NEW t \in Threads, AddDtor(t) PROVE InTime'
  BY <1>4, TimerThreads, TimerEvents
     DEF AddDtor, Goto, Unlock, Caller, TypeOK, Placed, InTime, InTimeFor,
         Held, IsAdding,
         Overdue, Threads, eventVars, alarmVars, resetVars, taskVars
<1>5. ASSUME NEW t \in Threads, LockReset(t) PROVE InTime'
  BY <1>5, TimerThreads, TimerEvents
     DEF LockReset, Acquire, Goto, TypeOK, Placed, InTime, InTimeFor, Held,
         IsAdding, Overdue,
         Threads, eventVars, alarmVars, resetVars, taskVars
<1>6. ASSUME NEW t \in Threads, CopyPending(t) PROVE InTime'
  BY <1>6, TimerThreads, TimerEvents
     DEF CopyPending, Firsts, Goto, Unlock, TypeOK, Placed, InTime, InTimeFor,
         Held, IsAdding,
         Overdue, Threads, eventVars, alarmVars, resetVars, taskVars
<1>7. ASSUME NEW t \in Threads, ReadClock(t) PROVE InTime'
  <2> SUFFICES ASSUME NEW u \in Threads
               PROVE  InTimeFor(u)'
    BY <1>7 DEF ReadClock, InTime
  <2>1. UNCHANGED <<arrive, snap, delay>> /\ InTimeFor(u)
    BY <1>7 DEF ReadClock, InTime
  <2>2. CASE u = t
    <3>1. snap[t] \in Events
      BY <1>7, <2>1, <2>2 DEF ReadClock, InTimeFor
    <3>2. wait'[t] = TicksUntil(snap[t]) /\ pc'[t] = "settime"
      BY <1>7 DEF ReadClock, Goto, TypeOK
    <3>3. /\ arrive[snap[t]] \in Int /\ arrive[snap[t]] <= Interval[snap[t]]
          /\ delay[t] \in Nat
      BY <3>1 DEF TypeOK, InTime
    <3> QED
      BY <2>1, <2>2, <3>1, <3>2, <3>3, TimerEvents DEF TicksUntil, InTimeFor
  <2>3. CASE u # t
    <3>1. Held(snap[u])' => Held(snap[u])
      BY <1>7, <2>1 DEF ReadClock, Goto, Held, IsAdding, TypeOK, eventVars
    <3> QED
      BY <1>7, <2>1, <2>3, <3>1 DEF ReadClock, Goto, InTimeFor, TypeOK
  <2> QED
    BY <2>2, <2>3
<1>8. ASSUME NEW t \in Threads, SetTime(t) PROVE InTime'
  <2> SUFFICES ASSUME NEW u \in Threads
               PROVE  InTimeFor(u)'
    BY <1>8 DEF SetTime, InTime
  <2>1. UNCHANGED arrive /\ InTimeFor(u)
    BY <1>8 DEF SetTime, InTime
  <2>2. CASE u = t
    BY <1>8, <2>2 DEF SetTime, Goto, InTimeFor, TypeOK
  <2>3. CASE u # t
    <3>1. snap'[u] = snap[u] /\ wait'[u] = wait[u] /\ delay'[u] = delay[u]
      BY <1>8, <2>3 DEF SetTime, TypeOK
    <3>2. Held(snap[u])' => Held(snap[u])
      BY <1>8, <3>1 DEF SetTime, Goto, Held, IsAdding, TypeOK, eventVars
    <3> QED
      BY <1>8, <2>1, <2>3, <3>1, <3>2 DEF SetTime, Goto, InTimeFor, TypeOK
  <2> QED
    BY <2>2, <2>3
<1>9. ASSUME NEW t \in Threads, ResetDtor(t) PROVE InTime'
  BY <1>9, TimerThreads, TimerEvents
     DEF ResetDtor, Goto, Unlock, TypeOK, Placed, InTime, InTimeFor, Held,
         IsAdding, Overdue,
         Threads, eventVars, alarmVars, resetVars, taskVars
<1>10. ASSUME NEW t \in Threads, NEW e \in Events, DelTimerEvent(t, e)
     PROVE InTime'
  BY <1>10, TimerThreads, TimerEvents
     DEF DelTimerEvent, Goto, MayCall, TypeOK, Placed, InTime, InTimeFor,
         Held, IsAdding,
         Overdue, Threads, eventVars, alarmVars, resetVars, taskVars
<1>11. ASSUME NEW t \in Threads, LockDel(t) PROVE InTime'
  BY <1>11, TimerThreads, TimerEvents
     DEF LockDel, Acquire, Goto, TypeOK, Placed, InTime, InTimeFor, Held,
         IsAdding, Overdue,
         Threads, eventVars, alarmVars, resetVars, taskVars
<1>12. ASSUME NEW t \in Threads, Erase(t) PROVE InTime'
  <2>1. arrive' = Forgotten(pending \cap {arg[t]}) /\ UNCHANGED <<snap, wait,
      delay>>
    BY <1>12 DEF Erase, resetVars
  <2>2. \A f \in Events : /\ arrive'[f] \in {arrive[f], Overdue}
                           /\ Overdue <= arrive'[f]
                           /\ arrive'[f] <= Interval[f]
    BY <2>1, TimerEvents DEF Forgotten, InTime, TypeOK, Overdue
  <2>3. \A f \in Events : Held(f)' => Held(f) /\ arrive'[f] = arrive[f]
    <3> SUFFICES ASSUME NEW f \in Events, Held(f)'
                 PROVE  Held(f) /\ arrive'[f] = arrive[f]
      OBVIOUS
    <3>1. CASE f \in pending'
      BY <1>12, <2>1, <3>1 DEF Erase, Forgotten, Held
    <3>2. CASE \E u \in Threads : IsAdding(u, f)'
      <4>1. PICK u \in Threads : IsAdding(u, f)'
        BY <3>2
      <4>2. IsAdding(u, f)
        BY <1>12, <4>1 DEF Erase, Goto, IsAdding, TypeOK
      <4>3. f \notin pending
        BY <4>2 DEF HeldOnce
      <4> QED
        BY <2>1, <4>2, <4>3 DEF Forgotten, Held
    <3> QED
      BY <3>1, <3>2 DEF Held
  <2> SUFFICES ASSUME NEW u \in Threads
               PROVE  InTimeFor(u)'
    BY <2>2 DEF InTime
  <2>4. InTimeFor(u)
    BY DEF InTime
  <2>5. pc'[u] \in {"readClock", "settime"} => pc[u] = pc'[u]
    BY <1>12 DEF Erase, Goto, TypeOK
  <2> QED
    BY <2>1, <2>3, <2>4, <2>5 DEF InTimeFor
<1>13. ASSUME NEW t \in Threads, DelDtor(t) PROVE InTime'
  BY <1>13, TimerThreads, TimerEvents
     DEF DelDtor, Goto, Unlock, Caller, TypeOK, Placed, InTime, InTimeFor,
         Held, IsAdding,
         Overdue, Threads, eventVars, alarmVars, resetVars, taskVars
<1>14. CASE Poll
  BY <1>14, TimerThreads, TimerEvents
     DEF Poll, Goto, TypeOK, Placed, InTime, InTimeFor, Held, IsAdding,
         Overdue, Threads,
         eventVars, alarmVars, resetVars, taskVars
<1>15. CASE ReadTimerfd
  BY <1>15, TimerThreads, TimerEvents
     DEF ReadTimerfd, Goto, TypeOK, Placed, InTime, InTimeFor, Held, IsAdding,
         Overdue,
         Threads, eventVars, alarmVars, resetVars, taskVars
<1>16. CASE SampleNow
  BY <1>16, TimerThreads, TimerEvents
     DEF SampleNow, Goto, TypeOK, Placed, InTime, InTimeFor, Held, IsAdding,
         Overdue, Threads,
         eventVars, alarmVars, resetVars, taskVars
<1>17. CASE LockCollect
  BY <1>17, TimerThreads, TimerEvents
     DEF LockCollect, Acquire, Goto, TypeOK, Placed, InTime, InTimeFor, Held,
         IsAdding,
         Overdue, Threads, eventVars, alarmVars, resetVars, taskVars
<1>18. CASE Collect
  <2>1. arrive' = Forgotten(pending \cap dueNow) /\ UNCHANGED <<snap, wait,
      delay>>
    BY <1>18 DEF Collect, resetVars
  <2>2. \A f \in Events : /\ arrive'[f] \in {arrive[f], Overdue}
                           /\ Overdue <= arrive'[f]
                           /\ arrive'[f] <= Interval[f]
    BY <2>1, TimerEvents DEF Forgotten, InTime, TypeOK, Overdue
  <2>3. \A f \in Events : Held(f)' => Held(f) /\ arrive'[f] = arrive[f]
    <3> SUFFICES ASSUME NEW f \in Events, Held(f)'
                 PROVE  Held(f) /\ arrive'[f] = arrive[f]
      OBVIOUS
    <3>1. CASE f \in pending'
      BY <1>18, <2>1, <3>1 DEF Collect, Forgotten, Held
    <3>2. CASE \E u \in Threads : IsAdding(u, f)'
      <4>1. PICK u \in Threads : IsAdding(u, f)'
        BY <3>2
      <4>2. IsAdding(u, f)
        BY <1>18, <4>1 DEF Collect, Goto, IsAdding, TypeOK
      <4>3. f \notin pending
        BY <4>2 DEF HeldOnce
      <4> QED
        BY <2>1, <4>2, <4>3 DEF Forgotten, Held
    <3> QED
      BY <3>1, <3>2 DEF Held
  <2> SUFFICES ASSUME NEW u \in Threads
               PROVE  InTimeFor(u)'
    BY <2>2 DEF InTime
  <2>4. InTimeFor(u)
    BY DEF InTime
  <2>5. pc'[u] \in {"readClock", "settime"} => pc[u] = pc'[u]
    BY <1>18 DEF Collect, Goto, TypeOK
  <2> QED
    BY <2>1, <2>3, <2>4, <2>5 DEF InTimeFor
<1>19. ASSUME NEW e \in Events, ReAdd(e) PROVE InTime'
  <2>1. arrive' = [arrive EXCEPT ![e] = Interval[e]]
    BY <1>19 DEF ReAdd, Begin
  <2>2. \A f \in Events : /\ Overdue <= arrive'[f]
                           /\ arrive'[f] <= Interval[f]
                           /\ arrive'[f] \in Int
    <3> SUFFICES ASSUME NEW f \in Events
                 PROVE  /\ Overdue <= arrive'[f]
                        /\ arrive'[f] <= Interval[f]
                        /\ arrive'[f] \in Int
      OBVIOUS
    <3>1. /\ Overdue <= arrive[f] /\ arrive[f] <= Interval[f]
          /\ arrive[f] \in Int /\ Interval[f] \in Nat
      BY TimerEvents DEF InTime, TypeOK
    <3>2. arrive'[f] = IF f = e THEN Interval[f] ELSE arrive[f]
      BY <2>1 DEF TypeOK
    <3> QED
      BY <3>1, <3>2 DEF Overdue
  <2> SUFFICES ASSUME NEW u \in Threads
               PROVE  InTimeFor(u)'
    BY <2>2 DEF InTime
  <2>3. UNCHANGED <<snap, wait, delay>> /\ InTimeFor(u)
    BY <1>19 DEF ReAdd, InTime, resetVars
  <2>4. pc'[u] = pc[u] \/ pc'[u] = "lockAdd"
    BY <1>19 DEF ReAdd, Begin, Goto, TypeOK
  <2>5. CASE pc'[u] = "settime" /\ ~(wait[u] <= Grace)
    <3>1. /\ snap[u] \in Events /\ wait[u] <= Interval[snap[u]]
          /\ Held(snap[u]) => wait[u] <= arrive[snap[u]] + delay[u]
      BY <2>3, <2>4, <2>5 DEF InTimeFor
    <3>2. snap[u] # e => (Held(snap[u])' => Held(snap[u]))
      BY <1>19, <2>3
         DEF ReAdd, Begin, Goto, Held, IsAdding, TypeOK, eventVars
    <3>3. /\ Interval[snap[u]] \in Int /\ wait[u] \in Nat
          /\ delay[u] \in Nat
      BY <3>1, TimerEvents DEF TypeOK
    <3>4. /\ snap[u] = e => arrive'[snap[u]] = Interval[snap[u]]
          /\ snap[u] # e => arrive'[snap[u]] = arrive[snap[u]]
      BY <2>1, <3>1 DEF TypeOK
    <3>5. Held(snap[u])' => wait[u] <= arrive'[snap[u]] + delay[u]
      BY <3>1, <3>2, <3>3, <3>4
    <3> QED
      BY <2>3, <2>4, <2>5, <3>1, <3>5 DEF InTimeFor
  <2>6. CASE ~(pc'[u] = "settime" /\ ~(wait[u] <= Grace))
    BY <2>3, <2>4, <2>6 DEF InTimeFor
  <2> QED
    BY <2>5, <2>6
<1>20. CASE ReAddDone
  BY <1>20, TimerThreads, TimerEvents
     DEF ReAddDone, Goto, TypeOK, Placed, InTime, InTimeFor, Held, IsAdding,
         Overdue, Threads,
         eventVars, alarmVars, resetVars, taskVars
<1>21. ASSUME NEW e \in Events, RunCallback(e) PROVE InTime'
  BY <1>21, TimerThreads, TimerEvents
     DEF RunCallback, OneMore, TypeOK, Placed, InTime, InTimeFor, Held,
         IsAdding, Overdue,
         Threads, eventVars, alarmVars, resetVars, taskVars
<1>22. CASE EndOnTimer
  BY <1>22, TimerThreads, TimerEvents
     DEF EndOnTimer, Goto, Unlock, TypeOK, Placed, InTime, InTimeFor, Held,
         IsAdding, Overdue,
         Threads, eventVars, alarmVars, resetVars, taskVars
<1>23. CASE Tick
  <2> SUFFICES ASSUME NEW t \in Threads
               PROVE  InTimeFor(t)'
    <3>1. \A e \in Events :
             /\ Overdue <= arrive'[e] /\ arrive'[e] <= Interval[e]
      BY <1>23, TimerEvents DEF Tick, Sooner, InTime, Overdue, TypeOK
    <3> QED
      BY <3>1 DEF InTime
  <2>1. UNCHANGED <<pc, snap, wait>> /\ InTimeFor(t)
    BY <1>23 DEF Tick, InTime
  <2>2. CASE pc[t] # "settime" \/ wait[t] <= Grace
    BY <2>1, <2>2 DEF InTimeFor
  <2>3. CASE pc[t] = "settime" /\ ~(wait[t] <= Grace)
    <3>1. /\ snap[t] \in Events /\ wait[t] <= Interval[snap[t]]
          /\ Held(snap[t]) => wait[t] <= arrive[snap[t]] + delay[t]
      BY <2>1, <2>3 DEF InTimeFor
    <3>2. /\ arrive'[snap[t]] >= arrive[snap[t]] - 1
          /\ arrive'[snap[t]] >= Overdue
      BY <1>23, <3>1 DEF Tick, Sooner, InTime, TypeOK, Overdue
    <3>3. /\ arrive[snap[t]] \in Int /\ arrive'[snap[t]] \in Int
          /\ wait[t] \in Nat /\ delay[t] \in Nat
      BY <1>23, <3>1 DEF Tick, Sooner, TypeOK
    <3>4. delay'[t] = Longer(delay[t], wait[t])
      BY <1>23, <2>3 DEF Tick, Delayed
    <3>5. Held(snap[t])' => Held(snap[t])
      BY <1>23, <2>1 DEF Tick, Held, IsAdding, eventVars
    <3>6. Held(snap[t])' => wait[t] <= arrive'[snap[t]] + delay'[t]
      BY <3>1, <3>2, <3>3, <3>4, <3>5 DEF Longer, Overdue
    <3> QED
      BY <2>1, <3>1, <3>6 DEF InTimeFor
  <2> QED
    BY <2>2, <2>3
<1>24. CASE ClockStep
  <2> SUFFICES ASSUME NEW t \in Threads
               PROVE  InTimeFor(t)'
    <3>1. \A e \in Events :
             /\ Overdue <= arrive'[e] /\ arrive'[e] <= Interval[e]
      BY <1>24, TimerEvents DEF ClockStep, Sooner, InTime, Overdue, TypeOK
    <3> QED
      BY <3>1 DEF InTime
  <2>1. UNCHANGED <<pc, snap, wait>> /\ InTimeFor(t)
    BY <1>24 DEF ClockStep, InTime
  <2>2. CASE pc[t] # "settime" \/ wait[t] <= Grace
    BY <2>1, <2>2 DEF InTimeFor
  <2>3. CASE pc[t] = "settime" /\ ~(wait[t] <= Grace)
    <3>1. /\ snap[t] \in Events /\ wait[t] <= Interval[snap[t]]
          /\ Held(snap[t]) => wait[t] <= arrive[snap[t]] + delay[t]
      BY <2>1, <2>3 DEF InTimeFor
    <3>2. /\ arrive'[snap[t]] >= arrive[snap[t]] - 1
          /\ arrive'[snap[t]] >= Overdue
      BY <1>24, <3>1 DEF ClockStep, Sooner, InTime, TypeOK, Overdue
    <3>3. /\ arrive[snap[t]] \in Int /\ arrive'[snap[t]] \in Int
          /\ wait[t] \in Nat /\ delay[t] \in Nat
      BY <1>24, <3>1 DEF ClockStep, Sooner, TypeOK
    <3>4. delay'[t] = Longer(delay[t], wait[t])
      BY <1>24, <2>3 DEF ClockStep, Delayed
    <3>5. Held(snap[t])' => Held(snap[t])
      BY <1>24, <2>1 DEF ClockStep, Held, IsAdding, eventVars
    <3>6. Held(snap[t])' => wait[t] <= arrive'[snap[t]] + delay'[t]
      BY <3>1, <3>2, <3>3, <3>4, <3>5 DEF Longer, Overdue
    <3> QED
      BY <2>1, <3>1, <3>6 DEF InTimeFor
  <2> QED
    BY <2>2, <2>3
<1>25. CASE UNCHANGED timerVars
  BY <1>25 DEF timerVars, TypeOK, Placed, InTime, InTimeFor, Held, IsAdding,
      Overdue, Threads,
      eventVars, alarmVars, resetVars, taskVars
<1> QED
  BY <1>1, <1>2, <1>3, <1>4, <1>5, <1>6, <1>7, <1>8, <1>9, <1>10, <1>11,
      <1>12, <1>13, <1>14, <1>15, <1>16, <1>17, <1>18, <1>19, <1>20, <1>21,
      <1>22, <1>23, <1>24, <1>25
     DEF Next, Calls, Locking, Working, OnTimer

(* Whoever takes away a wake-up announces another.                           *)
LEMMA KeepsNoEventForgotten ==
  ASSUME TypeOK, Placed, LoopPlace, InTime, NoEventForgotten, [Next]_timerVars
  PROVE  NoEventForgotten'
<1>1. ASSUME NEW t \in Threads, NEW e \in Events, AddTimerEvent(t, e)
     PROVE NoEventForgotten'
  BY <1>1, TimerThreads, TimerEvents
     DEF AddTimerEvent, Begin, Goto, MayCall, TypeOK, Placed, LoopPlace,
         NoEventForgotten, WillReset, OnTimerWillReset, Threads, eventVars,
         alarmVars, resetVars, taskVars
<1>2. ASSUME NEW t \in Threads, LockAdd(t) PROVE NoEventForgotten'
  BY <1>2, TimerThreads, TimerEvents
     DEF LockAdd, Acquire, Goto, TypeOK, Placed, LoopPlace, NoEventForgotten,
         WillReset, OnTimerWillReset, Threads, eventVars, alarmVars,
         resetVars, taskVars
<1>3. ASSUME NEW t \in Threads, Emplace(t) PROVE NoEventForgotten'
  BY <1>3, TimerThreads, TimerEvents
     DEF Emplace, NeedsReset, Goto, Unlock, TypeOK, Placed, LoopPlace,
         NoEventForgotten, WillReset, OnTimerWillReset, Threads, eventVars,
         alarmVars, resetVars, taskVars
<1>4. ASSUME NEW t \in Threads, AddDtor(t) PROVE NoEventForgotten'
  BY <1>4, TimerThreads, TimerEvents
     DEF AddDtor, Goto, Unlock, Caller, TypeOK, Placed, LoopPlace,
         NoEventForgotten, WillReset, OnTimerWillReset, Threads, eventVars,
         alarmVars, resetVars, taskVars
<1>5. ASSUME NEW t \in Threads, LockReset(t) PROVE NoEventForgotten'
  BY <1>5, TimerThreads, TimerEvents
     DEF LockReset, Acquire, Goto, TypeOK, Placed, LoopPlace,
         NoEventForgotten, WillReset, OnTimerWillReset, Threads, eventVars,
         alarmVars, resetVars, taskVars
<1>6. ASSUME NEW t \in Threads, CopyPending(t) PROVE NoEventForgotten'
  BY <1>6, TimerThreads, TimerEvents
     DEF CopyPending, Firsts, Goto, Unlock, TypeOK, Placed, LoopPlace,
         NoEventForgotten, WillReset, OnTimerWillReset, Threads, eventVars,
         alarmVars, resetVars, taskVars
<1>7. ASSUME NEW t \in Threads, ReadClock(t) PROVE NoEventForgotten'
  BY <1>7, TimerThreads, TimerEvents
     DEF ReadClock, TicksUntil, Goto, TypeOK, Placed, LoopPlace,
         NoEventForgotten, WillReset, OnTimerWillReset, Threads, eventVars,
         alarmVars, resetVars, taskVars
<1>8. ASSUME NEW t \in Threads, SetTime(t) PROVE NoEventForgotten'
  <2>1. wait[t] >= 1
    BY <1>8 DEF SetTime, InTime, InTimeFor
  <2>2. wait[t] # 0 /\ deadline' # Disarmed
    BY <1>8, <2>1, TimerEvents DEF SetTime, TypeOK
  <2> QED
    BY <2>2 DEF NoEventForgotten
<1>9. ASSUME NEW t \in Threads, ResetDtor(t) PROVE NoEventForgotten'
  BY <1>9, TimerThreads, TimerEvents
     DEF ResetDtor, Goto, Unlock, TypeOK, Placed, LoopPlace, NoEventForgotten,
         WillReset, OnTimerWillReset, Threads, eventVars, alarmVars,
         resetVars, taskVars
<1>10. ASSUME NEW t \in Threads, NEW e \in Events, DelTimerEvent(t, e)
     PROVE NoEventForgotten'
  BY <1>10, TimerThreads, TimerEvents
     DEF DelTimerEvent, Goto, MayCall, TypeOK, Placed, LoopPlace,
         NoEventForgotten, WillReset, OnTimerWillReset, Threads, eventVars,
         alarmVars, resetVars, taskVars
<1>11. ASSUME NEW t \in Threads, LockDel(t) PROVE NoEventForgotten'
  BY <1>11, TimerThreads, TimerEvents
     DEF LockDel, Acquire, Goto, TypeOK, Placed, LoopPlace, NoEventForgotten,
         WillReset, OnTimerWillReset, Threads, eventVars, alarmVars,
         resetVars, taskVars
<1>12. ASSUME NEW t \in Threads, Erase(t) PROVE NoEventForgotten'
  BY <1>12, TimerThreads, TimerEvents
     DEF Erase, Goto, Unlock, TypeOK, Placed, LoopPlace, NoEventForgotten,
         WillReset, OnTimerWillReset, Threads, eventVars, alarmVars,
         resetVars, taskVars
<1>13. ASSUME NEW t \in Threads, DelDtor(t) PROVE NoEventForgotten'
  BY <1>13, TimerThreads, TimerEvents
     DEF DelDtor, Goto, Unlock, Caller, TypeOK, Placed, LoopPlace,
         NoEventForgotten, WillReset, OnTimerWillReset, Threads, eventVars,
         alarmVars, resetVars, taskVars
<1>14. CASE Poll
  BY <1>14, TimerThreads, TimerEvents
     DEF Poll, Goto, TypeOK, Placed, LoopPlace, NoEventForgotten, WillReset,
         OnTimerWillReset, Threads, eventVars, alarmVars, resetVars, taskVars
<1>15. CASE ReadTimerfd
  BY <1>15, TimerThreads, TimerEvents
     DEF ReadTimerfd, Goto, TypeOK, Placed, LoopPlace, NoEventForgotten,
         WillReset, OnTimerWillReset, Threads, eventVars, alarmVars,
         resetVars, taskVars
<1>16. CASE SampleNow
  BY <1>16, TimerThreads, TimerEvents
     DEF SampleNow, Goto, TypeOK, Placed, LoopPlace, NoEventForgotten,
         WillReset, OnTimerWillReset, Threads, eventVars, alarmVars,
         resetVars, taskVars
<1>17. CASE LockCollect
  BY <1>17, TimerThreads, TimerEvents
     DEF LockCollect, Acquire, Goto, TypeOK, Placed, LoopPlace,
         NoEventForgotten, WillReset, OnTimerWillReset, Threads, eventVars,
         alarmVars, resetVars, taskVars
<1>18. CASE Collect
  BY <1>18, TimerThreads, TimerEvents
     DEF Collect, Goto, Unlock, TypeOK, Placed, LoopPlace, NoEventForgotten,
         WillReset, OnTimerWillReset, Threads, eventVars, alarmVars,
         resetVars, taskVars
<1>19. ASSUME NEW e \in Events, ReAdd(e) PROVE NoEventForgotten'
  BY <1>19, TimerThreads, TimerEvents
     DEF ReAdd, Begin, Goto, TypeOK, Placed, LoopPlace, NoEventForgotten,
         WillReset, OnTimerWillReset, Threads, eventVars, alarmVars,
         resetVars, taskVars
<1>20. CASE ReAddDone
  BY <1>20, TimerThreads, TimerEvents
     DEF ReAddDone, Goto, TypeOK, Placed, LoopPlace, NoEventForgotten,
         WillReset, OnTimerWillReset, Threads, eventVars, alarmVars,
         resetVars, taskVars
<1>21. ASSUME NEW e \in Events, RunCallback(e) PROVE NoEventForgotten'
  BY <1>21, TimerThreads, TimerEvents
     DEF RunCallback, OneMore, TypeOK, Placed, LoopPlace, NoEventForgotten,
         WillReset, OnTimerWillReset, Threads, eventVars, alarmVars,
         resetVars, taskVars
<1>22. CASE EndOnTimer
  BY <1>22, TimerThreads, TimerEvents
     DEF EndOnTimer, Goto, Unlock, TypeOK, Placed, LoopPlace,
         NoEventForgotten, WillReset, OnTimerWillReset, Threads, eventVars,
         alarmVars, resetVars, taskVars
<1>23. CASE Tick
  BY <1>23, TimerThreads, TimerEvents
     DEF Tick, Sooner, Delayed, Longer, TypeOK, Placed, LoopPlace,
         NoEventForgotten, WillReset, OnTimerWillReset, Threads, eventVars,
         alarmVars, resetVars, taskVars
<1>24. CASE ClockStep
  BY <1>24, TimerThreads, TimerEvents
     DEF ClockStep, Sooner, Delayed, Longer, TypeOK, Placed, LoopPlace,
         NoEventForgotten, WillReset, OnTimerWillReset, Threads, eventVars,
         alarmVars, resetVars, taskVars
<1>25. CASE UNCHANGED timerVars
  BY <1>25 DEF timerVars, TypeOK, Placed, LoopPlace, NoEventForgotten,
      WillReset, OnTimerWillReset, Threads, eventVars, alarmVars, resetVars,
      taskVars
<1> QED
  BY <1>1, <1>2, <1>3, <1>4, <1>5, <1>6, <1>7, <1>8, <1>9, <1>10, <1>11,
      <1>12, <1>13, <1>14, <1>15, <1>16, <1>17, <1>18, <1>19, <1>20, <1>21,
      <1>22, <1>23, <1>24, <1>25
     DEF Next, Calls, Locking, Working, OnTimer

(* The timerfd is set anew whenever the first pending event changes.         *)
LEMMA KeepsWakesInTime ==
  ASSUME TypeOK, Placed, LoopPlace, HeldOnce, InTime, WakesInTime,
      [Next]_timerVars
  PROVE  WakesInTime'
<1>1. ASSUME NEW t \in Threads, NEW e \in Events, AddTimerEvent(t, e)
     PROVE WakesInTime'
  BY <1>1, TimerThreads, TimerEvents
     DEF AddTimerEvent, Begin, Goto, MayCall, TypeOK, LoopPlace, HeldOnce,
         IsAdding, InTime, InTimeFor, WakesInTime, WillReset,
         OnTimerWillReset, Threads, eventVars, alarmVars, resetVars, taskVars
<1>2. ASSUME NEW t \in Threads, LockAdd(t) PROVE WakesInTime'
  BY <1>2, TimerThreads, TimerEvents
     DEF LockAdd, Acquire, Goto, TypeOK, LoopPlace, HeldOnce, IsAdding,
         InTime, InTimeFor, WakesInTime, WillReset, OnTimerWillReset, Threads,
         eventVars, alarmVars, resetVars, taskVars
<1>3. ASSUME NEW t \in Threads, Emplace(t) PROVE WakesInTime'
  <2> SUFFICES ASSUME ~stale, ~OnTimerWillReset', deadline # Disarmed,
                      \A u \in Threads : ~WillReset(u)',
                      NEW e \in pending'
               PROVE  deadline <= arrive[e] + late \/ deadline <= Grace
    BY <1>3 DEF Emplace, WakesInTime, alarmVars
  <2>1. \A u \in Threads : ~WillReset(u)
    BY <1>3 DEF Emplace, Goto, WillReset, TypeOK
  <2>2. \A f \in pending : deadline <= arrive[f] + late \/ deadline <= Grace
    BY <1>3, <2>1 DEF Emplace, WakesInTime, OnTimerWillReset, alarmVars
  <2>3. PICK reset \in NeedsReset(arg[t]) :
              Goto(t, IF reset THEN "lockReset" ELSE "addDtor")
    BY <1>3 DEF Emplace
  <2>4. ~reset
    BY <1>3, <2>3 DEF Goto, WillReset, TypeOK
  <2>5. PICK f \in pending : arrive[f] <= arrive[arg[t]]
    <3>1. arg[t] \in Events
      BY <1>3 DEF Emplace, Placed
    <3>2. ~ \A f \in pending : arrive[f] > arrive[arg[t]]
      BY <2>3, <2>4 DEF NeedsReset
    <3> QED
      BY <3>1, <3>2 DEF TypeOK
  <2>6. CASE e \in pending
    BY <2>2, <2>6
  <2>7. CASE e = arg[t]
    <3>1. arg[t] \in Events /\ f \in Events
      BY <1>3 DEF Emplace, Placed, TypeOK
    <3> QED
      BY <2>2, <2>5, <2>7, <3>1, TimerEvents DEF TypeOK
  <2> QED
    BY <1>3, <2>6, <2>7 DEF Emplace
<1>4. ASSUME NEW t \in Threads, AddDtor(t) PROVE WakesInTime'
  BY <1>4, TimerThreads, TimerEvents
     DEF AddDtor, Goto, Unlock, Caller, TypeOK, LoopPlace, HeldOnce, IsAdding,
         InTime, InTimeFor, WakesInTime, WillReset, OnTimerWillReset, Threads,
         eventVars, alarmVars, resetVars, taskVars
<1>5. ASSUME NEW t \in Threads, LockReset(t) PROVE WakesInTime'
  BY <1>5, TimerThreads, TimerEvents
     DEF LockReset, Acquire, Goto, TypeOK, LoopPlace, HeldOnce, IsAdding,
         InTime, InTimeFor, WakesInTime, WillReset, OnTimerWillReset, Threads,
         eventVars, alarmVars, resetVars, taskVars
<1>6. ASSUME NEW t \in Threads, CopyPending(t) PROVE WakesInTime'
  BY <1>6, TimerThreads, TimerEvents
     DEF CopyPending, Firsts, Goto, Unlock, TypeOK, LoopPlace, HeldOnce,
         IsAdding, InTime, InTimeFor, WakesInTime, WillReset,
         OnTimerWillReset, Threads, eventVars, alarmVars, resetVars, taskVars
<1>7. ASSUME NEW t \in Threads, ReadClock(t) PROVE WakesInTime'
  BY <1>7, TimerThreads, TimerEvents
     DEF ReadClock, TicksUntil, Goto, TypeOK, LoopPlace, HeldOnce, IsAdding,
         InTime, InTimeFor, WakesInTime, WillReset, OnTimerWillReset, Threads,
         eventVars, alarmVars, resetVars, taskVars
<1>8. ASSUME NEW t \in Threads, SetTime(t) PROVE WakesInTime'
  <2> SUFFICES ASSUME ~stale', deadline' # Disarmed, NEW e \in pending'
               PROVE  deadline' <= arrive'[e] + late' \/ deadline' <= Grace
    BY <1>8 DEF SetTime, WakesInTime
  <2>1. snap[t] \in Firsts /\ pending' = pending /\ arrive' = arrive
    BY <1>8 DEF SetTime, eventVars
  <2>2. arrive[snap[t]] <= arrive[e] /\ snap[t] \in Events /\ e \in Events
    BY <2>1 DEF Firsts, TypeOK
  <2>3. deadline' = wait[t] /\ late' = delay[t]
    BY <1>8 DEF SetTime
  <2>4. wait[t] <= arrive[snap[t]] + delay[t] \/ wait[t] <= Grace
    BY <1>8, <2>1 DEF SetTime, InTime, InTimeFor, Held, Firsts
  <2> QED
    BY <2>1, <2>2, <2>3, <2>4, TimerEvents DEF TypeOK
<1>9. ASSUME NEW t \in Threads, ResetDtor(t) PROVE WakesInTime'
  BY <1>9, TimerThreads, TimerEvents
     DEF ResetDtor, Goto, Unlock, TypeOK, LoopPlace, HeldOnce, IsAdding,
         InTime, InTimeFor, WakesInTime, WillReset, OnTimerWillReset, Threads,
         eventVars, alarmVars, resetVars, taskVars
<1>10. ASSUME NEW t \in Threads, NEW e \in Events, DelTimerEvent(t, e)
     PROVE WakesInTime'
  BY <1>10, TimerThreads, TimerEvents
     DEF DelTimerEvent, Goto, MayCall, TypeOK, LoopPlace, HeldOnce, IsAdding,
         InTime, InTimeFor, WakesInTime, WillReset, OnTimerWillReset, Threads,
         eventVars, alarmVars, resetVars, taskVars
<1>11. ASSUME NEW t \in Threads, LockDel(t) PROVE WakesInTime'
  BY <1>11, TimerThreads, TimerEvents
     DEF LockDel, Acquire, Goto, TypeOK, LoopPlace, HeldOnce, IsAdding,
         InTime, InTimeFor, WakesInTime, WillReset, OnTimerWillReset, Threads,
         eventVars, alarmVars, resetVars, taskVars
<1>12. ASSUME NEW t \in Threads, Erase(t) PROVE WakesInTime'
  BY <1>12, TimerThreads, TimerEvents
     DEF Erase, Forgotten, Overdue, Goto, Unlock, TypeOK, LoopPlace, HeldOnce,
         IsAdding, InTime,
         InTimeFor, WakesInTime, WillReset, OnTimerWillReset, Threads,
         eventVars, alarmVars, resetVars, taskVars
<1>13. ASSUME NEW t \in Threads, DelDtor(t) PROVE WakesInTime'
  BY <1>13, TimerThreads, TimerEvents
     DEF DelDtor, Goto, Unlock, Caller, TypeOK, LoopPlace, HeldOnce, IsAdding,
         InTime, InTimeFor, WakesInTime, WillReset, OnTimerWillReset, Threads,
         eventVars, alarmVars, resetVars, taskVars
<1>14. CASE Poll
  BY <1>14, TimerThreads, TimerEvents
     DEF Poll, Goto, TypeOK, LoopPlace, HeldOnce, IsAdding, InTime, InTimeFor,
         WakesInTime, WillReset, OnTimerWillReset, Threads, eventVars,
         alarmVars, resetVars, taskVars
<1>15. CASE ReadTimerfd
  BY <1>15, TimerThreads, TimerEvents
     DEF ReadTimerfd, Goto, TypeOK, LoopPlace, HeldOnce, IsAdding, InTime,
         InTimeFor, WakesInTime, WillReset, OnTimerWillReset, Threads,
         eventVars, alarmVars, resetVars, taskVars
<1>16. CASE SampleNow
  BY <1>16, TimerThreads, TimerEvents
     DEF SampleNow, Goto, TypeOK, LoopPlace, HeldOnce, IsAdding, InTime,
         InTimeFor, WakesInTime, WillReset, OnTimerWillReset, Threads,
         eventVars, alarmVars, resetVars, taskVars
<1>17. CASE LockCollect
  BY <1>17, TimerThreads, TimerEvents
     DEF LockCollect, Acquire, Goto, TypeOK, LoopPlace, HeldOnce, IsAdding,
         InTime, InTimeFor, WakesInTime, WillReset, OnTimerWillReset, Threads,
         eventVars, alarmVars, resetVars, taskVars
<1>18. CASE Collect
  BY <1>18, TimerThreads, TimerEvents
     DEF Collect, Forgotten, Overdue, Goto, Unlock, TypeOK, LoopPlace,
         HeldOnce, IsAdding, InTime,
         InTimeFor, WakesInTime, WillReset, OnTimerWillReset, Threads,
         eventVars, alarmVars, resetVars, taskVars
<1>19. ASSUME NEW e \in Events, ReAdd(e) PROVE WakesInTime'
  BY <1>19, TimerThreads, TimerEvents
     DEF ReAdd, Begin, Goto, TypeOK, LoopPlace, HeldOnce, IsAdding, InTime,
         InTimeFor, WakesInTime, WillReset, OnTimerWillReset, Threads,
         eventVars, alarmVars, resetVars, taskVars
<1>20. CASE ReAddDone
  BY <1>20, TimerThreads, TimerEvents
     DEF ReAddDone, Goto, TypeOK, LoopPlace, HeldOnce, IsAdding, InTime,
         InTimeFor, WakesInTime, WillReset, OnTimerWillReset, Threads,
         eventVars, alarmVars, resetVars, taskVars
<1>21. ASSUME NEW e \in Events, RunCallback(e) PROVE WakesInTime'
  BY <1>21, TimerThreads, TimerEvents
     DEF RunCallback, OneMore, TypeOK, LoopPlace, HeldOnce, IsAdding, InTime,
         InTimeFor, WakesInTime, WillReset, OnTimerWillReset, Threads,
         eventVars, alarmVars, resetVars, taskVars
<1>22. CASE EndOnTimer
  BY <1>22, TimerThreads, TimerEvents
     DEF EndOnTimer, Goto, Unlock, TypeOK, LoopPlace, HeldOnce, IsAdding,
         InTime, InTimeFor, WakesInTime, WillReset, OnTimerWillReset, Threads,
         eventVars, alarmVars, resetVars, taskVars
<1>23. CASE Tick
  <2> SUFFICES ASSUME ~stale, ~OnTimerWillReset, deadline' # Disarmed,
                      \A u \in Threads : ~WillReset(u),
                      NEW e \in pending
               PROVE  deadline' <= arrive'[e] + late' \/ deadline' <= Grace
    BY <1>23
       DEF Tick, WakesInTime, OnTimerWillReset, WillReset, eventVars, alarmVars
  <2>1. deadline # Disarmed /\ deadline' = deadline - 1 /\ late' = late
    BY <1>23 DEF Tick, alarmVars
  <2>2. deadline <= arrive[e] + late \/ deadline <= Grace
    BY <2>1 DEF WakesInTime
  <2>3. e \in Events /\ arrive'[e] >= arrive[e] - 1
    BY <1>23 DEF Tick, Sooner, TypeOK
  <2>4. arrive'[e] \in Int /\ deadline \in Nat /\ late \in Nat
    BY <1>23, <2>1, <2>3 DEF Tick, Sooner, TypeOK
  <2>5. arrive[e] \in Int
    BY <2>3 DEF TypeOK
  <2> QED
    BY <2>1, <2>2, <2>3, <2>4, <2>5, TimerEvents
<1>24. CASE ClockStep
  <2> SUFFICES ASSUME ~stale, ~OnTimerWillReset, deadline # Disarmed,
                      \A u \in Threads : ~WillReset(u),
                      NEW e \in pending
               PROVE  deadline <= arrive'[e] + late' \/ deadline <= Grace
    BY <1>24 DEF ClockStep, WakesInTime, OnTimerWillReset, WillReset, eventVars
  <2>1. late' = Longer(late, deadline)
    BY <1>24 DEF ClockStep
  <2>2. deadline <= arrive[e] + late \/ deadline <= Grace
    BY DEF WakesInTime
  <2>3. e \in Events /\ arrive'[e] >= arrive[e] - 1 /\ arrive'[e] >= Overdue
    BY <1>24 DEF ClockStep, Sooner, InTime, TypeOK, Overdue
  <2>4. /\ arrive[e] \in Int /\ arrive'[e] \in Int
        /\ deadline \in Nat /\ late \in Nat
    BY <1>24, <2>3 DEF ClockStep, Sooner, TypeOK
  <2>5. CASE late > deadline
    BY <2>1, <2>3, <2>4, <2>5 DEF Longer, Overdue
  <2>6. CASE ~(late > deadline)
    BY <2>1, <2>2, <2>3, <2>4, <2>6, TimerEvents DEF Longer
  <2> QED
    BY <2>5, <2>6
<1>25. CASE UNCHANGED timerVars
  BY <1>25 DEF timerVars, TypeOK, LoopPlace, HeldOnce, IsAdding, InTime,
      InTimeFor, WakesInTime, WillReset, OnTimerWillReset, Threads, eventVars,
      alarmVars, resetVars, taskVars
<1> QED
  BY <1>1, <1>2, <1>3, <1>4, <1>5, <1>6, <1>7, <1>8, <1>9, <1>10, <1>11,
      <1>12, <1>13, <1>14, <1>15, <1>16, <1>17, <1>18, <1>19, <1>20, <1>21,
      <1>22, <1>23, <1>24, <1>25
     DEF Next, Calls, Locking, Working, OnTimer

-----------------------------------------------------------------------------
(* The parts above together are inductive.                                   *)
LEMMA NextIInv == IInv /\ [Next]_timerVars => IInv'
  BY TypeInvariant, KeepsPlaced, KeepsHeldOnce, KeepsOneShot,
     KeepsCancelledOnce, KeepsInTime, KeepsNoEventForgotten,
     KeepsWakesInTime DEF IInv

(* What the runs check follows.                                              *)
LEMMA IInvImplies ==
  IInv => EventHeldOnce /\ OneShotRunsOnce /\ CancelledRunsOnceMore
<1> SUFFICES ASSUME IInv
             PROVE  EventHeldOnce /\ OneShotRunsOnce /\ CancelledRunsOnceMore
  OBVIOUS
<1>1. EventHeldOnce
  BY DEF IInv, HeldOnce, IsAdding, EventHeldOnce, Adding
<1>2. OneShotRunsOnce /\ CancelledRunsOnceMore
  BY DEF IInv, OneShot, CancelledOnce, OneShotRunsOnce,
         CancelledRunsOnceMore
<1> QED
  BY <1>1, <1>2

(* The timer's state stays in its types, whatever the threads do.            *)
THEOREM TimerTypeCorrect == Spec => []TypeOK
<1>1. IInv => TypeOK
  BY IInvImplies DEF IInv
<1> QED
  BY <1>1, InitIInv, NextIInv, PTL DEF Spec

(* While an event is pending, the timerfd runs, is readable, or a thread is  *)
(* on its way to set it.                                                     *)
THEOREM TimerForgetsNoEvent == Spec => []NoEventForgotten
<1>1. IInv => NoEventForgotten
  BY IInvImplies DEF IInv
<1> QED
  BY <1>1, InitIInv, NextIInv, PTL DEF Spec

(* Unless it was set from an out-of-date copy of the map, the timerfd        *)
(* expires by the time the first pending event is due, or after the grace    *)
(* period; later only by the delay of the thread that set it after reading   *)
(* the clock, and by what the wall clock has been set forward since.         *)
THEOREM TimerWakesInTime == Spec => []WakesInTime
<1>1. IInv => WakesInTime
  BY IInvImplies DEF IInv
<1> QED
  BY <1>1, InitIInv, NextIInv, PTL DEF Spec

(* No event is inserted into the map while it is there.                      *)
THEOREM TimerHoldsEventsOnce == Spec => []EventHeldOnce
<1>1. IInv => EventHeldOnce
  BY IInvImplies DEF IInv
<1> QED
  BY <1>1, InitIInv, NextIInv, PTL DEF Spec

(* The callback of an event that is not repeated runs at most once.          *)
THEOREM TimerRunsOneShotsOnce == Spec => []OneShotRunsOnce
<1>1. IInv => OneShotRunsOnce
  BY IInvImplies DEF IInv
<1> QED
  BY <1>1, InitIInv, NextIInv, PTL DEF Spec

(* An event's callback runs as often as it was asked to.                     *)
THEOREM TimerRunsAsAsked == Spec => []RunsAsAsked
<1>1. IInv => RunsAsAsked
  BY IInvImplies DEF IInv, RunsAsAsked
<1> QED
  BY <1>1, InitIInv, NextIInv, PTL DEF Spec

(* After del_timer_event has set its flag, an event's callback runs at most  *)
(* once more.                                                                *)
THEOREM TimerRunsCancelledOnceMore == Spec => []CancelledRunsOnceMore
<1>1. IInv => CancelledRunsOnceMore
  BY IInvImplies DEF IInv
<1> QED
  BY <1>1, InitIInv, NextIInv, PTL DEF Spec

=============================================================================
