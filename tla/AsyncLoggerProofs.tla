------------------------- MODULE AsyncLoggerProofs -------------------------
(* Proofs about AsyncLogger, for any number of threads, lines, days and any  *)
(* limit on the size of a file.                                              *)
EXTENDS AsyncLogger, SequenceTheorems, WellFoundedInduction, TLAPS

(* Where the threads are; a producer that holds a line has one left.         *)
ThreadsTyped ==
    /\ bufferMutex \in Threads \cup {Nobody}
    /\ queueMutex \in Threads \cup {Nobody}
    /\ pc \in [Threads -> PCs]
    /\ pushed \in [Producers -> Nat]
    /\ \A p \in Producers :
          /\ pushed[p] <= MaxLines[p]
          /\ pc[p] = "push" => pushed[p] < MaxLines[p]
    /\ raced \in BOOLEAN

LinesTyped ==
    /\ buffer \in Seq(Lines) /\ moving \in Seq(Lines) /\ batch \in Seq(Lines)
    /\ queue \in Seq(Seq(Lines))
    /\ written \in Seq(Lines)

FilesTyped ==
    /\ today \in 0 .. MaxDay
    /\ date \in 0 .. MaxDay + 1
    /\ no \in Nat
    /\ file \in Files \cup {NoFile}
    /\ DOMAIN size \subseteq Files /\ DOMAIN overfull = DOMAIN size
    /\ size = [f \in DOMAIN size |-> size[f]]
    /\ overfull = [f \in DOMAIN size |-> overfull[f]]
    /\ \A f \in DOMAIN size : size[f] \in Nat /\ overfull[f] \in Nat

(* The open file is of m_date; m_no is its number, or one more once a file   *)
(* of the day was full; no later file exists.                                *)
FilesInOrder ==
    /\ file = NoFile => date = MaxDay + 1 /\ DOMAIN size = {}
    /\ file # NoFile =>
          /\ date <= today /\ file[1] = date
          /\ (no = 0 /\ file[2] = 0) \/ no = file[2] + 1
          /\ \A f \in DOMAIN size :
                f[1] <= date /\ (f[1] = date => f[2] <= file[2])

(* File 0 is written over its limit at most while m_no is 1.                 *)
LimitKept ==
    /\ OverfullOnlyFirst
    /\ \A f \in DOMAIN overfull :
          no = 0 /\ f = file => overfull[f] = 0
    /\ pc[Writer] = "write" =>
          /\ file # NoFile
          /\ SizeOf(file) > MaxFileSize =>
                /\ file[2] = 0 /\ no = 1
                /\ file \in DOMAIN size /\ overfull[file] = 0

IInv == /\ ThreadsTyped /\ LinesTyped /\ FilesTyped
        /\ NoLostWakeup /\ FilesInOrder /\ LimitKept

-----------------------------------------------------------------------------
(* No line is logged and no file open at the start.                          *)
LEMMA InitIInv == Init => IInv
<1> SUFFICES ASSUME Init PROVE IInv
  OBVIOUS
<1> USE LoggerThreads, LoggerBounds
<1>1. ThreadsTyped
  <2>1. \A t \in Threads : pc[t] \in {"create", "none", "idle"}
    BY DEF Init
  <2>2. pc \in [Threads -> PCs] /\ \A p \in Producers : pc[p] # "push"
    BY <2>1 DEF Init, Threads, PCs
  <2>3. pushed \in [Producers -> Nat] /\ \A p \in Producers : 0 <= MaxLines[p]
    BY DEF Init
  <2> QED
    BY <2>2, <2>3 DEF Init, ThreadsTyped
<1>6. NoLostWakeup
  BY DEF Init, NoLostWakeup
<1>2. LinesTyped
  BY DEF Init, LinesTyped
<1>3. DOMAIN size = {} /\ DOMAIN overfull = {} /\ size = [f \in {} |-> 0]
  BY DEF Init
<1>4. FilesTyped
  BY <1>3 DEF Init, FilesTyped
<1>5. FilesInOrder /\ LimitKept
  BY <1>3 DEF Init, FilesInOrder, LimitKept, OverfullOnlyFirst, Threads
<1> QED
  BY <1>1, <1>6, <1>2, <1>4, <1>5 DEF IInv

(* Every action keeps the threads in their places.                           *)
LEMMA KeepsThreadsTyped ==
  ASSUME ThreadsTyped, [Next]_vars
  PROVE  ThreadsTyped'
<1>1. ASSUME NEW p \in Producers, LockPush(p) PROVE ThreadsTyped'
  BY <1>1, LoggerThreads, LoggerBounds
     DEF LockPush, AcquireBuffer, AcquireQueue, Moves, Goto, lockVars,
         lineVars, fileVars, ThreadsTyped, Threads, PCs
<1>2. ASSUME NEW p \in Producers, Push(p) PROVE ThreadsTyped'
  <2>1. /\ pc' = [pc EXCEPT ![p] = "pushDtor"] /\ pc[p] = "push"
        /\ pushed' = [pushed EXCEPT ![p] = @ + 1]
        /\ bufferMutex' = Nobody /\ UNCHANGED <<queueMutex, raced>>
    BY <1>2 DEF Push, Moves, Goto, UnlockBuffer
  <2>2. pc' \in [Threads -> PCs] /\ p \in Threads
    BY <2>1 DEF ThreadsTyped, Threads, PCs
  <2>3. pushed[p] \in Nat /\ MaxLines[p] \in Nat /\ pushed[p] < MaxLines[p]
    BY <2>1, LoggerBounds DEF ThreadsTyped
  <2>4. pushed' \in [Producers -> Nat]
    BY <2>1, <2>3 DEF ThreadsTyped
  <2>5. ASSUME NEW q \in Producers
        PROVE  /\ pushed'[q] <= MaxLines[q]
               /\ pc'[q] = "push" => pushed'[q] < MaxLines[q]
    <3>1. CASE q = p
      BY <2>1, <2>2, <2>3, <3>1 DEF ThreadsTyped
    <3>2. CASE q # p
      BY <2>1, <2>2, <3>2 DEF ThreadsTyped, Threads
    <3> QED
      BY <3>1, <3>2
  <2> QED
    BY <2>1, <2>2, <2>4, <2>5 DEF ThreadsTyped, Threads
<1>3. ASSUME NEW p \in Producers, PushDtor(p) PROVE ThreadsTyped'
  BY <1>3, LoggerThreads, LoggerBounds
     DEF PushDtor, UnlockBuffer, UnlockQueue, Moves, Goto, lockVars, lineVars,
         fileVars, ThreadsTyped, Threads, PCs
<1>4. CASE CreateWriter
  BY <1>4, LoggerThreads, LoggerBounds
     DEF CreateWriter, lockVars, lineVars, fileVars, ThreadsTyped, Threads, PCs
<1>5. CASE InitCondition
  BY <1>5, LoggerThreads, LoggerBounds
     DEF InitCondition, lockVars, lineVars, fileVars, ThreadsTyped, Threads,
         PCs
<1>6. CASE Swap
  BY <1>6, LoggerThreads, LoggerBounds
     DEF Swap, ClearBuffer, UnlockBuffer, UnlockQueue, Moves, Goto, lockVars,
         lineVars, fileVars, ThreadsTyped, Threads, PCs
<1>7. CASE Enqueue
  BY <1>7, LoggerThreads, LoggerBounds
     DEF Enqueue, Moves, Goto, lockVars, lineVars, fileVars, ThreadsTyped,
         Threads, PCs
<1>8. CASE Signal
  BY <1>8, LoggerThreads, LoggerBounds
     DEF Signal, Signalled, UnlockBuffer, UnlockQueue, lockVars, lineVars,
         fileVars, ThreadsTyped, Threads, PCs
<1>9. CASE SignalAgain
  BY <1>9, LoggerThreads, LoggerBounds
     DEF SignalAgain, Signalled, lockVars, lineVars, fileVars, ThreadsTyped,
         Threads, PCs
<1>10. CASE QueueDtor
  BY <1>10, LoggerThreads, LoggerBounds
     DEF QueueDtor, UnlockBuffer, UnlockQueue, Moves, Goto, lockVars,
         lineVars, fileVars, ThreadsTyped, Threads, PCs
<1>11. CASE SyncDtor
  BY <1>11, LoggerThreads, LoggerBounds
     DEF SyncDtor, UnlockBuffer, UnlockQueue, Moves, Goto, lockVars, lineVars,
         fileVars, ThreadsTyped, Threads, PCs
<1>12. CASE LockSwap
  BY <1>12, LoggerThreads, LoggerBounds
     DEF LockSwap, AcquireBuffer, AcquireQueue, Moves, Goto, lockVars,
         lineVars, fileVars, ThreadsTyped, Threads, PCs
<1>13. CASE LockQueue
  BY <1>13, LoggerThreads, LoggerBounds
     DEF LockQueue, AcquireBuffer, AcquireQueue, Moves, Goto, lockVars,
         lineVars, fileVars, ThreadsTyped, Threads, PCs
<1>14. CASE Wait
  BY <1>14, LoggerThreads, LoggerBounds
     DEF Wait, UnlockBuffer, UnlockQueue, Moves, Goto, lockVars, lineVars,
         fileVars, ThreadsTyped, Threads, PCs
<1>15. CASE Take
  BY <1>15, LoggerThreads, LoggerBounds
     DEF Take, TakeFirst, UnlockBuffer, UnlockQueue, Moves, Goto, lockVars,
         lineVars, fileVars, ThreadsTyped, Threads, PCs
<1>16. CASE ChooseFile
  BY <1>16, LoggerThreads, LoggerBounds
     DEF ChooseFile, SizeOf, NumberAfter, Moves, Goto, lockVars, lineVars,
         fileVars, ThreadsTyped, Threads, PCs
<1>17. CASE Write
  BY <1>17, LoggerThreads, LoggerBounds
     DEF Write, Counted, CountedOver, SizeOf, Moves, Goto, lockVars, lineVars,
         fileVars, ThreadsTyped, Threads, PCs
<1>18. CASE LoopDtor
  BY <1>18, LoggerThreads, LoggerBounds
     DEF LoopDtor, UnlockBuffer, UnlockQueue, Moves, Goto, lockVars, lineVars,
         fileVars, ThreadsTyped, Threads, PCs
<1>19. CASE LockLoop
  BY <1>19, LoggerThreads, LoggerBounds
     DEF LockLoop, AcquireBuffer, AcquireQueue, Moves, Goto, lockVars,
         lineVars, fileVars, ThreadsTyped, Threads, PCs
<1>20. CASE Relock
  BY <1>20, LoggerThreads, LoggerBounds
     DEF Relock, AcquireBuffer, AcquireQueue, Moves, Goto, lockVars, lineVars,
         fileVars, ThreadsTyped, Threads, PCs
<1>21. CASE WakeUnasked
  BY <1>21, LoggerThreads, LoggerBounds
     DEF WakeUnasked, Moves, Goto, lockVars, lineVars, fileVars, ThreadsTyped,
         Threads, PCs
<1>22. CASE Midnight
  BY <1>22, LoggerThreads, LoggerBounds
     DEF Midnight, lockVars, lineVars, fileVars, ThreadsTyped, Threads, PCs
<1>23. CASE UNCHANGED vars
  BY <1>23 DEF vars, lockVars, lineVars, fileVars, ThreadsTyped, Threads, PCs
<1> QED
  BY <1>1, <1>2, <1>3, <1>4, <1>5, <1>6, <1>7, <1>8, <1>9, <1>10, <1>11,
      <1>12, <1>13, <1>14, <1>15, <1>16, <1>17, <1>18, <1>19, <1>20, <1>21,
      <1>22, <1>23
     DEF Next, Producer, Syncing, SyncLocks, Writing, WriterLocks

(* Only lines are passed on.                                                 *)
LEMMA KeepsLinesTyped ==
  ASSUME ThreadsTyped, LinesTyped, [Next]_vars
  PROVE  LinesTyped'
<1>1. ASSUME NEW p \in Producers, LockPush(p) PROVE LinesTyped'
  BY <1>1
     DEF LockPush, AcquireBuffer, AcquireQueue, Moves, Goto, lockVars,
         lineVars, fileVars, LinesTyped
<1>2. ASSUME NEW p \in Producers, Push(p) PROVE LinesTyped'
  <2>1. <<p, pushed[p] + 1>> \in Lines
    <3>1. pushed[p] \in Nat /\ MaxLines[p] \in Nat /\ pushed[p] < MaxLines[p]
      BY <1>2, LoggerBounds DEF Push, Moves, ThreadsTyped
    <3>2. pushed[p] + 1 \in 1 .. MaxLines[p]
      BY <3>1
    <3> QED
      BY <3>2 DEF Lines
  <2> HIDE DEF Lines
  <2>2. buffer' \in Seq(Lines)
    BY <1>2, <2>1 DEF Push, LinesTyped
  <2> QED
    BY <1>2, <2>2 DEF Push, LinesTyped
<1>3. ASSUME NEW p \in Producers, PushDtor(p) PROVE LinesTyped'
  BY <1>3
     DEF PushDtor, UnlockBuffer, UnlockQueue, Moves, Goto, lockVars, lineVars,
         fileVars, LinesTyped
<1>4. CASE CreateWriter
  BY <1>4
     DEF CreateWriter, lockVars, lineVars, fileVars, LinesTyped
<1>5. CASE InitCondition
  BY <1>5
     DEF InitCondition, lockVars, lineVars, fileVars, LinesTyped
<1>6. CASE Swap
  BY <1>6
     DEF Swap, ClearBuffer, UnlockBuffer, UnlockQueue, Moves, Goto, lockVars,
         lineVars, fileVars, LinesTyped
<1>7. CASE Enqueue
  BY <1>7
     DEF Enqueue, Moves, Goto, lockVars, lineVars, fileVars, LinesTyped
<1>8. CASE Signal
  BY <1>8
     DEF Signal, Signalled, UnlockBuffer, UnlockQueue, lockVars, lineVars,
         fileVars, LinesTyped
<1>9. CASE SignalAgain
  BY <1>9
     DEF SignalAgain, Signalled, lockVars, lineVars, fileVars, LinesTyped
<1>10. CASE QueueDtor
  BY <1>10
     DEF QueueDtor, UnlockBuffer, UnlockQueue, Moves, Goto, lockVars,
         lineVars, fileVars, LinesTyped
<1>11. CASE SyncDtor
  BY <1>11
     DEF SyncDtor, UnlockBuffer, UnlockQueue, Moves, Goto, lockVars, lineVars,
         fileVars, LinesTyped
<1>12. CASE LockSwap
  BY <1>12
     DEF LockSwap, AcquireBuffer, AcquireQueue, Moves, Goto, lockVars,
         lineVars, fileVars, LinesTyped
<1>13. CASE LockQueue
  BY <1>13
     DEF LockQueue, AcquireBuffer, AcquireQueue, Moves, Goto, lockVars,
         lineVars, fileVars, LinesTyped
<1>14. CASE Wait
  BY <1>14
     DEF Wait, UnlockBuffer, UnlockQueue, Moves, Goto, lockVars, lineVars,
         fileVars, LinesTyped
<1>15. CASE Take
  <2>1. Head(queue) \in Seq(Lines) /\ Tail(queue) \in Seq(Seq(Lines))
    BY <1>15 DEF Take, LinesTyped
  <2> QED
    BY <1>15, <2>1 DEF Take, TakeFirst, LinesTyped
<1>16. CASE ChooseFile
  BY <1>16
     DEF ChooseFile, SizeOf, NumberAfter, Moves, Goto, lockVars, lineVars,
         fileVars, LinesTyped
<1>17. CASE Write
  BY <1>17
     DEF Write, Counted, CountedOver, SizeOf, Moves, Goto, lockVars, lineVars,
         fileVars, LinesTyped
<1>18. CASE LoopDtor
  BY <1>18
     DEF LoopDtor, UnlockBuffer, UnlockQueue, Moves, Goto, lockVars, lineVars,
         fileVars, LinesTyped
<1>19. CASE LockLoop
  BY <1>19
     DEF LockLoop, AcquireBuffer, AcquireQueue, Moves, Goto, lockVars,
         lineVars, fileVars, LinesTyped
<1>20. CASE Relock
  BY <1>20
     DEF Relock, AcquireBuffer, AcquireQueue, Moves, Goto, lockVars, lineVars,
         fileVars, LinesTyped
<1>21. CASE WakeUnasked
  BY <1>21
     DEF WakeUnasked, Moves, Goto, lockVars, lineVars, fileVars, LinesTyped
<1>22. CASE Midnight
  BY <1>22
     DEF Midnight, lockVars, lineVars, fileVars, LinesTyped
<1>23. CASE UNCHANGED vars
  BY <1>23 DEF vars, lockVars, lineVars, fileVars, LinesTyped
<1> QED
  BY <1>1, <1>2, <1>3, <1>4, <1>5, <1>6, <1>7, <1>8, <1>9, <1>10, <1>11,
      <1>12, <1>13, <1>14, <1>15, <1>16, <1>17, <1>18, <1>19, <1>20, <1>21,
      <1>22, <1>23
     DEF Next, Producer, Syncing, SyncLocks, Writing, WriterLocks

(* Every file has a day, a number and a size.                                *)
LEMMA KeepsFilesTyped ==
  ASSUME ThreadsTyped, LinesTyped, FilesTyped, LimitKept, [Next]_vars
  PROVE  FilesTyped'
<1>1. ASSUME NEW p \in Producers, LockPush(p) PROVE FilesTyped'
  BY <1>1, LoggerBounds
     DEF LockPush, AcquireBuffer, AcquireQueue, Moves, Goto, lockVars,
         lineVars, fileVars, FilesTyped, Files
<1>2. ASSUME NEW p \in Producers, Push(p) PROVE FilesTyped'
  BY <1>2, LoggerBounds
     DEF Push, UnlockBuffer, UnlockQueue, Moves, Goto, lockVars, lineVars,
         fileVars, FilesTyped, Files
<1>3. ASSUME NEW p \in Producers, PushDtor(p) PROVE FilesTyped'
  BY <1>3, LoggerBounds
     DEF PushDtor, UnlockBuffer, UnlockQueue, Moves, Goto, lockVars, lineVars,
         fileVars, FilesTyped, Files
<1>4. CASE CreateWriter
  BY <1>4, LoggerBounds
     DEF CreateWriter, lockVars, lineVars, fileVars, FilesTyped, Files
<1>5. CASE InitCondition
  BY <1>5, LoggerBounds
     DEF InitCondition, lockVars, lineVars, fileVars, FilesTyped, Files
<1>6. CASE Swap
  BY <1>6, LoggerBounds
     DEF Swap, ClearBuffer, UnlockBuffer, UnlockQueue, Moves, Goto, lockVars,
         lineVars, fileVars, FilesTyped, Files
<1>7. CASE Enqueue
  BY <1>7, LoggerBounds
     DEF Enqueue, Moves, Goto, lockVars, lineVars, fileVars, FilesTyped, Files
<1>8. CASE Signal
  BY <1>8, LoggerBounds
     DEF Signal, Signalled, UnlockBuffer, UnlockQueue, lockVars, lineVars,
         fileVars, FilesTyped, Files
<1>9. CASE SignalAgain
  BY <1>9, LoggerBounds
     DEF SignalAgain, Signalled, lockVars, lineVars, fileVars, FilesTyped,
         Files
<1>10. CASE QueueDtor
  BY <1>10, LoggerBounds
     DEF QueueDtor, UnlockBuffer, UnlockQueue, Moves, Goto, lockVars,
         lineVars, fileVars, FilesTyped, Files
<1>11. CASE SyncDtor
  BY <1>11, LoggerBounds
     DEF SyncDtor, UnlockBuffer, UnlockQueue, Moves, Goto, lockVars, lineVars,
         fileVars, FilesTyped, Files
<1>12. CASE LockSwap
  BY <1>12, LoggerBounds
     DEF LockSwap, AcquireBuffer, AcquireQueue, Moves, Goto, lockVars,
         lineVars, fileVars, FilesTyped, Files
<1>13. CASE LockQueue
  BY <1>13, LoggerBounds
     DEF LockQueue, AcquireBuffer, AcquireQueue, Moves, Goto, lockVars,
         lineVars, fileVars, FilesTyped, Files
<1>14. CASE Wait
  BY <1>14, LoggerBounds
     DEF Wait, UnlockBuffer, UnlockQueue, Moves, Goto, lockVars, lineVars,
         fileVars, FilesTyped, Files
<1>15. CASE Take
  BY <1>15, LoggerBounds
     DEF Take, TakeFirst, UnlockBuffer, UnlockQueue, Moves, Goto, lockVars,
         lineVars, fileVars, FilesTyped, Files
<1>16. CASE ChooseFile
  <2>1. no' \in Nat /\ file' \in {file, <<today, no>>, <<today, 0>>}
    BY <1>16 DEF ChooseFile, NumberAfter, FilesTyped
  <2>2. file' \in Files \cup {NoFile}
    BY <2>1 DEF FilesTyped, Files
  <2> QED
    BY <1>16, <2>1, <2>2, LoggerBounds DEF ChooseFile, FilesTyped
<1>17. CASE Write
  <2>1. file \in Files
    BY <1>17 DEF Write, Moves, LimitKept, FilesTyped
  <2>2. SizeOf(file) \in Nat /\ Len(batch) \in Nat
    BY DEF SizeOf, FilesTyped, LinesTyped
  <2>3. DOMAIN size' = DOMAIN size \cup {file}
        /\ DOMAIN overfull' = DOMAIN size'
        /\ size' = [f \in DOMAIN size' |-> size'[f]]
        /\ overfull' = [f \in DOMAIN size' |-> overfull'[f]]
    BY <1>17 DEF Write, Counted, CountedOver
  <2>4. \A f \in DOMAIN size' : size'[f] \in Nat
    BY <1>17, <2>2 DEF Write, Counted, FilesTyped
  <2>5. \A f \in DOMAIN size' : overfull'[f] \in Nat
    <3>1. \E k \in {0, 1} : overfull' = CountedOver(k)
      BY <1>17 DEF Write
    <3>2. \A f \in DOMAIN size, k \in {0, 1} : overfull[f] + k \in Nat
      BY DEF FilesTyped
    <3> QED
      BY <2>3, <3>1, <3>2 DEF CountedOver, FilesTyped
  <2>6. UNCHANGED <<today, date, no, file>>
    BY <1>17 DEF Write
  <2> HIDE DEF Files
  <2> QED
    BY <2>1, <2>3, <2>4, <2>5, <2>6 DEF FilesTyped
<1>18. CASE LoopDtor
  BY <1>18, LoggerBounds
     DEF LoopDtor, UnlockBuffer, UnlockQueue, Moves, Goto, lockVars, lineVars,
         fileVars, FilesTyped, Files
<1>19. CASE LockLoop
  BY <1>19, LoggerBounds
     DEF LockLoop, AcquireBuffer, AcquireQueue, Moves, Goto, lockVars,
         lineVars, fileVars, FilesTyped, Files
<1>20. CASE Relock
  BY <1>20, LoggerBounds
     DEF Relock, AcquireBuffer, AcquireQueue, Moves, Goto, lockVars, lineVars,
         fileVars, FilesTyped, Files
<1>21. CASE WakeUnasked
  BY <1>21, LoggerBounds
     DEF WakeUnasked, Moves, Goto, lockVars, lineVars, fileVars, FilesTyped,
         Files
<1>22. CASE Midnight
  BY <1>22, LoggerBounds
     DEF Midnight, lockVars, lineVars, fileVars, FilesTyped, Files
<1>23. CASE UNCHANGED vars
  BY <1>23 DEF vars, lockVars, lineVars, fileVars, FilesTyped, Files
<1> QED
  BY <1>1, <1>2, <1>3, <1>4, <1>5, <1>6, <1>7, <1>8, <1>9, <1>10, <1>11,
      <1>12, <1>13, <1>14, <1>15, <1>16, <1>17, <1>18, <1>19, <1>20, <1>21,
      <1>22, <1>23
     DEF Next, Producer, Syncing, SyncLocks, Writing, WriterLocks

(* The queue is filled under the mutex, and signalled before it is freed.    *)
LEMMA KeepsNoLostWakeup ==
  ASSUME ThreadsTyped, NoLostWakeup, [Next]_vars
  PROVE  NoLostWakeup'
<1>1. ASSUME NEW p \in Producers, LockPush(p) PROVE NoLostWakeup'
  BY <1>1, LoggerThreads, LoggerBounds
     DEF LockPush, AcquireBuffer, AcquireQueue, Moves, Goto, lockVars,
         lineVars, fileVars, ThreadsTyped, NoLostWakeup, Threads
<1>2. ASSUME NEW p \in Producers, Push(p) PROVE NoLostWakeup'
  BY <1>2, LoggerThreads, LoggerBounds
     DEF Push, UnlockBuffer, UnlockQueue, Moves, Goto, lockVars, lineVars,
         fileVars, ThreadsTyped, NoLostWakeup, Threads
<1>3. ASSUME NEW p \in Producers, PushDtor(p) PROVE NoLostWakeup'
  BY <1>3, LoggerThreads, LoggerBounds
     DEF PushDtor, UnlockBuffer, UnlockQueue, Moves, Goto, lockVars, lineVars,
         fileVars, ThreadsTyped, NoLostWakeup, Threads
<1>4. CASE CreateWriter
  BY <1>4, LoggerThreads, LoggerBounds
     DEF CreateWriter, lockVars, lineVars, fileVars, ThreadsTyped,
         NoLostWakeup, Threads
<1>5. CASE InitCondition
  BY <1>5, LoggerThreads, LoggerBounds
     DEF InitCondition, lockVars, lineVars, fileVars, ThreadsTyped,
         NoLostWakeup, Threads
<1>6. CASE Swap
  BY <1>6, LoggerThreads, LoggerBounds
     DEF Swap, ClearBuffer, UnlockBuffer, UnlockQueue, Moves, Goto, lockVars,
         lineVars, fileVars, ThreadsTyped, NoLostWakeup, Threads
<1>7. CASE Enqueue
  BY <1>7, LoggerThreads, LoggerBounds
     DEF Enqueue, Moves, Goto, lockVars, lineVars, fileVars, ThreadsTyped,
         NoLostWakeup, Threads
<1>8. CASE Signal
  BY <1>8, LoggerThreads, LoggerBounds
     DEF Signal, Signalled, UnlockBuffer, UnlockQueue, lockVars, lineVars,
         fileVars, ThreadsTyped, NoLostWakeup, Threads
<1>9. CASE SignalAgain
  BY <1>9, LoggerThreads, LoggerBounds
     DEF SignalAgain, Signalled, lockVars, lineVars, fileVars, ThreadsTyped,
         NoLostWakeup, Threads
<1>10. CASE QueueDtor
  BY <1>10, LoggerThreads, LoggerBounds
     DEF QueueDtor, UnlockBuffer, UnlockQueue, Moves, Goto, lockVars,
         lineVars, fileVars, ThreadsTyped, NoLostWakeup, Threads
<1>11. CASE SyncDtor
  BY <1>11, LoggerThreads, LoggerBounds
     DEF SyncDtor, UnlockBuffer, UnlockQueue, Moves, Goto, lockVars, lineVars,
         fileVars, ThreadsTyped, NoLostWakeup, Threads
<1>12. CASE LockSwap
  BY <1>12, LoggerThreads, LoggerBounds
     DEF LockSwap, AcquireBuffer, AcquireQueue, Moves, Goto, lockVars,
         lineVars, fileVars, ThreadsTyped, NoLostWakeup, Threads
<1>13. CASE LockQueue
  BY <1>13, LoggerThreads, LoggerBounds
     DEF LockQueue, AcquireBuffer, AcquireQueue, Moves, Goto, lockVars,
         lineVars, fileVars, ThreadsTyped, NoLostWakeup, Threads
<1>14. CASE Wait
  BY <1>14, LoggerThreads, LoggerBounds
     DEF Wait, UnlockBuffer, UnlockQueue, Moves, Goto, lockVars, lineVars,
         fileVars, ThreadsTyped, NoLostWakeup, Threads
<1>15. CASE Take
  BY <1>15, LoggerThreads, LoggerBounds
     DEF Take, TakeFirst, UnlockBuffer, UnlockQueue, Moves, Goto, lockVars,
         lineVars, fileVars, ThreadsTyped, NoLostWakeup, Threads
<1>16. CASE ChooseFile
  BY <1>16, LoggerThreads, LoggerBounds
     DEF ChooseFile, SizeOf, NumberAfter, Moves, Goto, lockVars, lineVars,
         fileVars, ThreadsTyped, NoLostWakeup, Threads
<1>17. CASE Write
  BY <1>17, LoggerThreads, LoggerBounds
     DEF Write, Counted, CountedOver, SizeOf, Moves, Goto, lockVars, lineVars,
         fileVars, ThreadsTyped, NoLostWakeup, Threads
<1>18. CASE LoopDtor
  BY <1>18, LoggerThreads, LoggerBounds
     DEF LoopDtor, UnlockBuffer, UnlockQueue, Moves, Goto, lockVars, lineVars,
         fileVars, ThreadsTyped, NoLostWakeup, Threads
<1>19. CASE LockLoop
  BY <1>19, LoggerThreads, LoggerBounds
     DEF LockLoop, AcquireBuffer, AcquireQueue, Moves, Goto, lockVars,
         lineVars, fileVars, ThreadsTyped, NoLostWakeup, Threads
<1>20. CASE Relock
  BY <1>20, LoggerThreads, LoggerBounds
     DEF Relock, AcquireBuffer, AcquireQueue, Moves, Goto, lockVars, lineVars,
         fileVars, ThreadsTyped, NoLostWakeup, Threads
<1>21. CASE WakeUnasked
  BY <1>21, LoggerThreads, LoggerBounds
     DEF WakeUnasked, Moves, Goto, lockVars, lineVars, fileVars, ThreadsTyped,
         NoLostWakeup, Threads
<1>22. CASE Midnight
  BY <1>22, LoggerThreads, LoggerBounds
     DEF Midnight, lockVars, lineVars, fileVars, ThreadsTyped, NoLostWakeup,
         Threads
<1>23. CASE UNCHANGED vars
  BY <1>23 DEF vars, lockVars, lineVars, fileVars, ThreadsTyped, NoLostWakeup,
      Threads
<1> QED
  BY <1>1, <1>2, <1>3, <1>4, <1>5, <1>6, <1>7, <1>8, <1>9, <1>10, <1>11,
      <1>12, <1>13, <1>14, <1>15, <1>16, <1>17, <1>18, <1>19, <1>20, <1>21,
      <1>22, <1>23
     DEF Next, Producer, Syncing, SyncLocks, Writing, WriterLocks

(* m_no only grows within a day and starts again with the next.              *)
LEMMA KeepsFilesInOrder ==
  ASSUME FilesTyped, FilesInOrder, LimitKept, [Next]_vars
  PROVE  FilesInOrder'
<1>1. ASSUME NEW p \in Producers, LockPush(p) PROVE FilesInOrder'
  BY <1>1, LoggerBounds
     DEF LockPush, AcquireBuffer, AcquireQueue, Moves, Goto, lockVars,
         lineVars, fileVars, FilesTyped, FilesInOrder, Files
<1>2. ASSUME NEW p \in Producers, Push(p) PROVE FilesInOrder'
  BY <1>2, LoggerBounds
     DEF Push, UnlockBuffer, UnlockQueue, Moves, Goto, lockVars, lineVars,
         fileVars, FilesTyped, FilesInOrder, Files
<1>3. ASSUME NEW p \in Producers, PushDtor(p) PROVE FilesInOrder'
  BY <1>3, LoggerBounds
     DEF PushDtor, UnlockBuffer, UnlockQueue, Moves, Goto, lockVars, lineVars,
         fileVars, FilesTyped, FilesInOrder, Files
<1>4. CASE CreateWriter
  BY <1>4, LoggerBounds
     DEF CreateWriter, lockVars, lineVars, fileVars, FilesTyped, FilesInOrder,
         Files
<1>5. CASE InitCondition
  BY <1>5, LoggerBounds
     DEF InitCondition, lockVars, lineVars, fileVars, FilesTyped,
         FilesInOrder, Files
<1>6. CASE Swap
  BY <1>6, LoggerBounds
     DEF Swap, ClearBuffer, UnlockBuffer, UnlockQueue, Moves, Goto, lockVars,
         lineVars, fileVars, FilesTyped, FilesInOrder, Files
<1>7. CASE Enqueue
  BY <1>7, LoggerBounds
     DEF Enqueue, Moves, Goto, lockVars, lineVars, fileVars, FilesTyped,
         FilesInOrder, Files
<1>8. CASE Signal
  BY <1>8, LoggerBounds
     DEF Signal, Signalled, UnlockBuffer, UnlockQueue, lockVars, lineVars,
         fileVars, FilesTyped, FilesInOrder, Files
<1>9. CASE SignalAgain
  BY <1>9, LoggerBounds
     DEF SignalAgain, Signalled, lockVars, lineVars, fileVars, FilesTyped,
         FilesInOrder, Files
<1>10. CASE QueueDtor
  BY <1>10, LoggerBounds
     DEF QueueDtor, UnlockBuffer, UnlockQueue, Moves, Goto, lockVars,
         lineVars, fileVars, FilesTyped, FilesInOrder, Files
<1>11. CASE SyncDtor
  BY <1>11, LoggerBounds
     DEF SyncDtor, UnlockBuffer, UnlockQueue, Moves, Goto, lockVars, lineVars,
         fileVars, FilesTyped, FilesInOrder, Files
<1>12. CASE LockSwap
  BY <1>12, LoggerBounds
     DEF LockSwap, AcquireBuffer, AcquireQueue, Moves, Goto, lockVars,
         lineVars, fileVars, FilesTyped, FilesInOrder, Files
<1>13. CASE LockQueue
  BY <1>13, LoggerBounds
     DEF LockQueue, AcquireBuffer, AcquireQueue, Moves, Goto, lockVars,
         lineVars, fileVars, FilesTyped, FilesInOrder, Files
<1>14. CASE Wait
  BY <1>14, LoggerBounds
     DEF Wait, UnlockBuffer, UnlockQueue, Moves, Goto, lockVars, lineVars,
         fileVars, FilesTyped, FilesInOrder, Files
<1>15. CASE Take
  BY <1>15, LoggerBounds
     DEF Take, TakeFirst, UnlockBuffer, UnlockQueue, Moves, Goto, lockVars,
         lineVars, fileVars, FilesTyped, FilesInOrder, Files
<1>16. CASE ChooseFile
  <2>1. date' = today /\ DOMAIN size' = DOMAIN size /\ UNCHANGED today
    BY <1>16 DEF ChooseFile
  <2>2. CASE date # today \/ file = NoFile
    <3>1. \A f \in DOMAIN size : f[1] < today
      BY <2>2 DEF FilesInOrder, FilesTyped, Files
    <3>2. SizeOf(<<today, 0>>) = 0
      <4>1. <<today, 0>>[1] = today /\ ~(today < today)
        BY DEF FilesTyped
      <4> QED
        BY <3>1, <4>1 DEF SizeOf
    <3>3. date # today
      BY <2>2, LoggerBounds DEF FilesInOrder, FilesTyped
    <3>4. file' = <<today, 0>> /\ no' = 0
      BY <1>16, <3>2, <3>3, LoggerBounds DEF ChooseFile
    <3>5. file' # NoFile
      BY <3>4, LoggerBounds DEF FilesTyped
    <3> QED
      BY <2>1, <3>1, <3>4, <3>5 DEF FilesInOrder, FilesTyped, Files
  <2>3. CASE date = today /\ file # NoFile
    <3>1. \/ file' = file /\ no' = no
          \/ file' = <<today, no>> /\ no' = no + 1
      BY <1>16, <2>3 DEF ChooseFile, NumberAfter
    <3>2. <<today, no>> # NoFile /\ file[2] \in Nat
      BY <2>3, LoggerBounds DEF FilesTyped, Files
    <3> QED
      BY <2>1, <2>3, <3>1, <3>2 DEF FilesInOrder, FilesTyped, Files
  <2> QED
    BY <2>2, <2>3
<1>17. CASE Write
  <2>1. DOMAIN size' = DOMAIN size \cup {file} /\ file \in Files
        /\ file # NoFile
    BY <1>17 DEF Write, Counted, Moves, LimitKept, FilesTyped
  <2>2. UNCHANGED <<today, date, no, file>>
    BY <1>17 DEF Write
  <2> QED
    BY <2>1, <2>2 DEF FilesInOrder, FilesTyped, Files
<1>18. CASE LoopDtor
  BY <1>18, LoggerBounds
     DEF LoopDtor, UnlockBuffer, UnlockQueue, Moves, Goto, lockVars, lineVars,
         fileVars, FilesTyped, FilesInOrder, Files
<1>19. CASE LockLoop
  BY <1>19, LoggerBounds
     DEF LockLoop, AcquireBuffer, AcquireQueue, Moves, Goto, lockVars,
         lineVars, fileVars, FilesTyped, FilesInOrder, Files
<1>20. CASE Relock
  BY <1>20, LoggerBounds
     DEF Relock, AcquireBuffer, AcquireQueue, Moves, Goto, lockVars, lineVars,
         fileVars, FilesTyped, FilesInOrder, Files
<1>21. CASE WakeUnasked
  BY <1>21, LoggerBounds
     DEF WakeUnasked, Moves, Goto, lockVars, lineVars, fileVars, FilesTyped,
         FilesInOrder, Files
<1>22. CASE Midnight
  BY <1>22, LoggerBounds
     DEF Midnight, lockVars, lineVars, fileVars, FilesTyped, FilesInOrder,
         Files
<1>23. CASE UNCHANGED vars
  BY <1>23 DEF vars, lockVars, lineVars, fileVars, FilesTyped, FilesInOrder,
      Files
<1> QED
  BY <1>1, <1>2, <1>3, <1>4, <1>5, <1>6, <1>7, <1>8, <1>9, <1>10, <1>11,
      <1>12, <1>13, <1>14, <1>15, <1>16, <1>17, <1>18, <1>19, <1>20, <1>21,
      <1>22, <1>23
     DEF Next, Producer, Syncing, SyncLocks, Writing, WriterLocks

(* A full file is left for one that does not exist, or once for file 0.      *)
LEMMA KeepsLimit ==
  ASSUME ThreadsTyped, FilesTyped, FilesInOrder, LimitKept, [Next]_vars
  PROVE  LimitKept'
<1>1. ASSUME NEW p \in Producers, LockPush(p) PROVE LimitKept'
  BY <1>1, LoggerThreads
     DEF LockPush, AcquireBuffer, AcquireQueue, Moves, Goto, lockVars,
         lineVars, fileVars, ThreadsTyped, LimitKept, OverfullOnlyFirst,
         SizeOf, Threads
<1>2. ASSUME NEW p \in Producers, Push(p) PROVE LimitKept'
  BY <1>2, LoggerThreads
     DEF Push, UnlockBuffer, UnlockQueue, Moves, Goto, lockVars, lineVars,
         fileVars, ThreadsTyped, LimitKept, OverfullOnlyFirst, SizeOf, Threads
<1>3. ASSUME NEW p \in Producers, PushDtor(p) PROVE LimitKept'
  BY <1>3, LoggerThreads
     DEF PushDtor, UnlockBuffer, UnlockQueue, Moves, Goto, lockVars, lineVars,
         fileVars, ThreadsTyped, LimitKept, OverfullOnlyFirst, SizeOf, Threads
<1>4. CASE CreateWriter
  BY <1>4, LoggerThreads
     DEF CreateWriter, lockVars, lineVars, fileVars, ThreadsTyped, LimitKept,
         OverfullOnlyFirst, SizeOf, Threads
<1>5. CASE InitCondition
  BY <1>5, LoggerThreads
     DEF InitCondition, lockVars, lineVars, fileVars, ThreadsTyped, LimitKept,
         OverfullOnlyFirst, SizeOf, Threads
<1>6. CASE Swap
  BY <1>6, LoggerThreads
     DEF Swap, ClearBuffer, UnlockBuffer, UnlockQueue, Moves, Goto, lockVars,
         lineVars, fileVars, ThreadsTyped, LimitKept, OverfullOnlyFirst,
         SizeOf, Threads
<1>7. CASE Enqueue
  BY <1>7, LoggerThreads
     DEF Enqueue, Moves, Goto, lockVars, lineVars, fileVars, ThreadsTyped,
         LimitKept, OverfullOnlyFirst, SizeOf, Threads
<1>8. CASE Signal
  BY <1>8, LoggerThreads
     DEF Signal, Signalled, UnlockBuffer, UnlockQueue, lockVars, lineVars,
         fileVars, ThreadsTyped, LimitKept, OverfullOnlyFirst, SizeOf, Threads
<1>9. CASE SignalAgain
  BY <1>9, LoggerThreads
     DEF SignalAgain, Signalled, lockVars, lineVars, fileVars, ThreadsTyped,
         LimitKept, OverfullOnlyFirst, SizeOf, Threads
<1>10. CASE QueueDtor
  BY <1>10, LoggerThreads
     DEF QueueDtor, UnlockBuffer, UnlockQueue, Moves, Goto, lockVars,
         lineVars, fileVars, ThreadsTyped, LimitKept, OverfullOnlyFirst,
         SizeOf, Threads
<1>11. CASE SyncDtor
  BY <1>11, LoggerThreads
     DEF SyncDtor, UnlockBuffer, UnlockQueue, Moves, Goto, lockVars, lineVars,
         fileVars, ThreadsTyped, LimitKept, OverfullOnlyFirst, SizeOf, Threads
<1>12. CASE LockSwap
  BY <1>12, LoggerThreads
     DEF LockSwap, AcquireBuffer, AcquireQueue, Moves, Goto, lockVars,
         lineVars, fileVars, ThreadsTyped, LimitKept, OverfullOnlyFirst,
         SizeOf, Threads
<1>13. CASE LockQueue
  BY <1>13, LoggerThreads
     DEF LockQueue, AcquireBuffer, AcquireQueue, Moves, Goto, lockVars,
         lineVars, fileVars, ThreadsTyped, LimitKept, OverfullOnlyFirst,
         SizeOf, Threads
<1>14. CASE Wait
  BY <1>14, LoggerThreads
     DEF Wait, UnlockBuffer, UnlockQueue, Moves, Goto, lockVars, lineVars,
         fileVars, ThreadsTyped, LimitKept, OverfullOnlyFirst, SizeOf, Threads
<1>15. CASE Take
  BY <1>15, LoggerThreads
     DEF Take, TakeFirst, UnlockBuffer, UnlockQueue, Moves, Goto, lockVars,
         lineVars, fileVars, ThreadsTyped, LimitKept, OverfullOnlyFirst,
         SizeOf, Threads
<1>16. CASE ChooseFile
  <2>1. UNCHANGED <<size, overfull>> /\ pc'[Writer] = "write"
    BY <1>16 DEF ChooseFile, Moves, Goto, ThreadsTyped, Threads
  <2>2. CASE date # today \/ file = NoFile
    <3>1. \A f \in DOMAIN size : f[1] < today
      BY <2>2 DEF FilesInOrder, FilesTyped, Files
    <3>2. SizeOf(<<today, 0>>) = 0 /\ <<today, 0>> \notin DOMAIN size
      <4>1. <<today, 0>>[1] = today /\ ~(today < today)
        BY DEF FilesTyped
      <4> QED
        BY <3>1, <4>1 DEF SizeOf
    <3>3. date # today
      BY <2>2, LoggerBounds DEF FilesInOrder, FilesTyped
    <3>4. file' = <<today, 0>> /\ no' = 0
      BY <1>16, <3>2, <3>3, LoggerBounds DEF ChooseFile
    <3>5. file' # NoFile
      BY <3>4, LoggerBounds DEF FilesTyped
    <3>6. SizeOf(file)' = 0
      BY <2>1, <3>2, <3>4 DEF SizeOf
    <3> QED
      BY <2>1, <3>2, <3>4, <3>5, <3>6, LoggerBounds
         DEF LimitKept, OverfullOnlyFirst, FilesTyped
  <2>3. CASE date = today /\ file # NoFile /\ SizeOf(file) <= MaxFileSize
    <3>1. file' = file /\ no' = no
      BY <1>16, <2>3, LoggerBounds DEF ChooseFile, SizeOf, FilesTyped
    <3>2. SizeOf(file)' <= MaxFileSize /\ SizeOf(file)' \in Nat
      BY <2>1, <2>3, <3>1 DEF SizeOf, FilesTyped
    <3> QED
      BY <2>1, <2>3, <3>1, <3>2, LoggerBounds
         DEF LimitKept, OverfullOnlyFirst, FilesTyped
  <2>4. CASE date = today /\ file # NoFile /\ SizeOf(file) > MaxFileSize
    <3>1. file' = <<today, no>> /\ no' = no + 1
      BY <1>16, <2>4 DEF ChooseFile, NumberAfter
    <3>2. file \in DOMAIN size /\ file \in Files
      BY <2>4, LoggerBounds DEF SizeOf, FilesTyped
    <3>3. CASE no = 0
      <4>1. file' = file
        BY <2>4, <3>1, <3>2, <3>3 DEF FilesInOrder, FilesTyped, Files
      <4>2. overfull[file] = 0
        BY <3>2, <3>3 DEF LimitKept, FilesTyped
      <4> QED
        BY <2>1, <2>4, <3>1, <3>2, <3>3, <4>1, <4>2
           DEF LimitKept, OverfullOnlyFirst, FilesTyped, SizeOf
    <3>4. CASE no # 0
      <4>1. no = file[2] + 1 /\ file[2] \in Nat
        BY <2>4, <3>2, <3>4 DEF FilesInOrder, Files
      <4>2. <<today, no>> \notin DOMAIN size
        BY <2>4, <4>1 DEF FilesInOrder
      <4>3. SizeOf(file)' = 0 /\ <<today, no>> # NoFile
        BY <2>1, <3>1, <4>2, LoggerBounds DEF SizeOf, FilesTyped
      <4> QED
        BY <2>1, <3>1, <4>1, <4>2, <4>3, LoggerBounds
           DEF LimitKept, OverfullOnlyFirst, FilesTyped
    <3> QED
      BY <3>3, <3>4
  <2> QED
    <3>1. SizeOf(file) \in Nat
      BY DEF SizeOf, FilesTyped
    <3> QED
      BY <2>2, <2>3, <2>4, <3>1, LoggerBounds
<1>17. CASE Write
  <2>1. pc'[Writer] # "write"
    BY <1>17 DEF Write, Moves, Goto, ThreadsTyped, Threads
  <2>2. file \in Files /\ file # NoFile /\ UNCHANGED <<no, file>>
    BY <1>17 DEF Write, Moves, LimitKept, FilesTyped
  <2>3. DOMAIN overfull' = DOMAIN size \cup {file}
    BY <1>17 DEF Write, CountedOver
  <2>4. \A f \in DOMAIN size : f # file => overfull'[f] = overfull[f]
    BY <1>17 DEF Write, CountedOver
  <2>5. CASE SizeOf(file) > MaxFileSize
    <3>1. overfull'[file] = 1 /\ file[2] = 0 /\ no = 1
      BY <1>17, <2>5 DEF Write, Moves, CountedOver, LimitKept
    <3> QED
      BY <2>1, <2>2, <2>3, <2>4, <3>1
         DEF LimitKept, OverfullOnlyFirst, FilesTyped
  <2>6. CASE ~(SizeOf(file) > MaxFileSize)
    <3>1. overfull'[file] = IF file \in DOMAIN size THEN overfull[file] ELSE 0
      BY <1>17, <2>6 DEF Write, CountedOver, FilesTyped
    <3> QED
      BY <2>1, <2>2, <2>3, <2>4, <3>1
         DEF LimitKept, OverfullOnlyFirst, FilesTyped, Files
  <2> QED
    BY <2>5, <2>6
<1>18. CASE LoopDtor
  BY <1>18, LoggerThreads
     DEF LoopDtor, UnlockBuffer, UnlockQueue, Moves, Goto, lockVars, lineVars,
         fileVars, ThreadsTyped, LimitKept, OverfullOnlyFirst, SizeOf, Threads
<1>19. CASE LockLoop
  BY <1>19, LoggerThreads
     DEF LockLoop, AcquireBuffer, AcquireQueue, Moves, Goto, lockVars,
         lineVars, fileVars, ThreadsTyped, LimitKept, OverfullOnlyFirst,
         SizeOf, Threads
<1>20. CASE Relock
  BY <1>20, LoggerThreads
     DEF Relock, AcquireBuffer, AcquireQueue, Moves, Goto, lockVars, lineVars,
         fileVars, ThreadsTyped, LimitKept, OverfullOnlyFirst, SizeOf, Threads
<1>21. CASE WakeUnasked
  BY <1>21, LoggerThreads
     DEF WakeUnasked, Moves, Goto, lockVars, lineVars, fileVars, ThreadsTyped,
         LimitKept, OverfullOnlyFirst, SizeOf, Threads
<1>22. CASE Midnight
  BY <1>22, LoggerThreads
     DEF Midnight, lockVars, lineVars, fileVars, ThreadsTyped, LimitKept,
         OverfullOnlyFirst, SizeOf, Threads
<1>23. CASE UNCHANGED vars
  BY <1>23 DEF vars, lockVars, lineVars, fileVars, ThreadsTyped, LimitKept,
      OverfullOnlyFirst, SizeOf, Threads
<1> QED
  BY <1>1, <1>2, <1>3, <1>4, <1>5, <1>6, <1>7, <1>8, <1>9, <1>10, <1>11,
      <1>12, <1>13, <1>14, <1>15, <1>16, <1>17, <1>18, <1>19, <1>20, <1>21,
      <1>22, <1>23
     DEF Next, Producer, Syncing, SyncLocks, Writing, WriterLocks

-----------------------------------------------------------------------------
(* The parts above together are inductive.                                   *)
LEMMA NextIInv == IInv /\ [Next]_vars => IInv'
  BY KeepsThreadsTyped, KeepsLinesTyped, KeepsFilesTyped, KeepsNoLostWakeup,
     KeepsFilesInOrder, KeepsLimit DEF IInv

(* The logger's state stays in its types.                                    *)
THEOREM LoggerTypeCorrect == Spec => []TypeOK
<1>1. IInv => TypeOK
  BY DEF IInv, TypeOK, ThreadsTyped, LinesTyped, FilesTyped
<1> QED
  BY <1>1, InitIInv, NextIInv, PTL DEF Spec

(* The writer never sleeps on a batch that nobody will signal.               *)
THEOREM LoggerWakesItsWriter == Spec => []NoLostWakeup
<1>1. IInv => NoLostWakeup
  BY DEF IInv, NoLostWakeup
<1> QED
  BY <1>1, InitIInv, NextIInv, PTL DEF Spec

(* Only file 0 of a day is written to when it is full, and that once.        *)
THEOREM LoggerKeepsTheLimit == Spec => []OverfullOnlyFirst
<1>1. IInv => OverfullOnlyFirst
  BY DEF IInv, LimitKept
<1> QED
  BY <1>1, InitIInv, NextIInv, PTL DEF Spec


-----------------------------------------------------------------------------
(* FlattenSeq, which the library defines by a recursive function.            *)
(* Every set of numbers that is not empty has a least element.               *)
LEMMA LeastNumber ==
  ASSUME NEW T \in SUBSET Nat, T # {}
  PROVE  \E n \in T : \A k \in T : n <= k
<1>1. PICK n \in T : \A k \in T : ~(<<k, n>> \in OpToRel(<, Nat))
  BY WFMin, NatLessThanWellFounded, Zenon
<1>2. ASSUME NEW k \in T PROVE ~(k < n)
  <2>1. k \in Nat /\ n \in Nat
    OBVIOUS
  <2>2. ASSUME k < n PROVE <<k, n>> \in OpToRel(<, Nat)
    BY <2>1, <2>2 DEF OpToRel
  <2> QED
    BY <1>1, <2>2, Zenon
<1>3. \A k \in T : n <= k
  <2>1. \A k \in T : k \in Nat /\ n \in Nat /\ ~(k < n)
    BY <1>2, Zenon
  <2> QED
    BY <2>1, SMT
<1> QED
  BY <1>3, Zenon

(* The function by which FlattenSeq is computed: f[i] is the concatenation   *)
(* of the first i sequences.                                                 *)
Concats(q, n, f) ==
    f = [i \in 1 .. n |-> IF i = 1 THEN q[i] ELSE f[i - 1] \o q[i]]

LEMMA ConcatsExist ==
  ASSUME NEW S, NEW q \in Seq(Seq(S)), NEW n \in 1 .. Len(q)
  PROVE  \E f \in [1 .. n -> Seq(S)] : Concats(q, n, f)
<1> DEFINE Has(k) == \E f \in [1 .. k -> Seq(S)] : Concats(q, k, f)
           T == {k \in 1 .. Len(q) : ~Has(k)}
<1>1. \A i \in 1 .. Len(q) : q[i] \in Seq(S)
  OBVIOUS
<1>2. SUFFICES ASSUME T # {} PROVE FALSE
  BY Zenon
<1>3. PICK k \in T : \A j \in T : k <= j
  <2> HIDE DEF Has
  <2>1. T \in SUBSET Nat
    OBVIOUS
  <2> HIDE DEF T
  <2> QED
    BY <1>2, <2>1, LeastNumber, Zenon
<1>4. k \in 1 .. Len(q) /\ Len(q) \in Nat
  OBVIOUS
<1>5. CASE k = 1
  <2> DEFINE g == [i \in 1 .. 1 |-> q[i]]
  <2>1. g \in [1 .. k -> Seq(S)] /\ Concats(q, k, g)
    BY <1>1, <1>4, <1>5 DEF Concats
  <2> QED
    BY <2>1, Zenon
<1>6. CASE k # 1
  <2>1. k - 1 \in 1 .. Len(q) /\ ~(k <= k - 1)
    BY <1>4, <1>6
  <2>2. Has(k - 1)
    BY <1>3, <2>1
  <2>3. PICK f \in [1 .. k - 1 -> Seq(S)] : Concats(q, k - 1, f)
    BY <2>2
  <2> DEFINE g == [i \in 1 .. k |-> IF i = k THEN f[k - 1] \o q[k] ELSE f[i]]
  <2>4. f[k - 1] \o q[k] \in Seq(S)
    BY <1>1, <1>4, <2>1
  <2>5. \A i \in 1 .. k : i # k => i \in 1 .. k - 1
    BY <1>4
  <2>6. g \in [1 .. k -> Seq(S)]
    BY <2>4, <2>5
  <2>7. \A i \in 1 .. k - 1 : f[i] = IF i = 1 THEN q[i] ELSE f[i - 1] \o q[i]
    BY <2>3 DEF Concats
  <2>8. ASSUME NEW i \in 1 .. k
        PROVE  g[i] = IF i = 1 THEN q[i] ELSE g[i - 1] \o q[i]
    <3>1. CASE i = k
      <4>1. k - 1 \in 1 .. k /\ k - 1 # k
        BY <1>4, <2>1
      <4> QED
        BY <1>6, <3>1, <4>1
    <3>2. CASE i # k
      <4>1. i \in 1 .. k - 1 /\ (i # 1 => i - 1 \in 1 .. k /\ i - 1 # k)
        BY <1>4, <3>2
      <4> QED
        BY <2>7, <3>2, <4>1
    <3> QED
      BY <3>1, <3>2
  <2> HIDE DEF g
  <2>9. Concats(q, k, g)
    BY <2>6, <2>8 DEF Concats
  <2> QED
    BY <2>6, <2>9, Zenon
<1> QED
  BY <1>5, <1>6

LEMMA ConcatsAt ==
  ASSUME NEW q, NEW n \in Nat, NEW f, Concats(q, n, f)
  PROVE  /\ n # 0 => f[1] = q[1]
         /\ \A j \in 1 .. n - 1 : f[j + 1] = f[j] \o q[j + 1]
<1>1. \A i \in 1 .. n : f[i] = IF i = 1 THEN q[i] ELSE f[i - 1] \o q[i]
  BY DEF Concats
<1>2. n # 0 => f[1] = q[1]
  BY <1>1
<1>3. ASSUME NEW j \in 1 .. n - 1
      PROVE  f[j + 1] = f[j] \o q[j + 1]
  <2> DEFINE i == j + 1
  <2>1. i \in 1 .. n /\ i # 1 /\ i - 1 = j
    OBVIOUS
  <2> HIDE DEF i
  <2>2. f[i] = f[j] \o q[i]
    BY <1>1, <2>1
  <2> QED
    BY <2>2 DEF i
<1> QED
  BY <1>2, <1>3

LEMMA ConcatsUnique ==
  ASSUME NEW q, NEW n \in Nat, NEW m \in Nat, n <= m, NEW f, NEW g,
         Concats(q, n, f), Concats(q, m, g)
  PROVE  \A i \in 1 .. n : f[i] = g[i]
<1> DEFINE T == {i \in 1 .. n : f[i] # g[i]}
<1>1. /\ n # 0 => f[1] = q[1] /\ g[1] = q[1]
      /\ \A j \in 1 .. n - 1 : /\ f[j + 1] = f[j] \o q[j + 1]
                              /\ g[j + 1] = g[j] \o q[j + 1]
  <2>1. \A j \in 1 .. n - 1 : j \in 1 .. m - 1
    OBVIOUS
  <2>2. n # 0 => m # 0
    OBVIOUS
  <2>3. /\ n # 0 => f[1] = q[1]
        /\ \A j \in 1 .. n - 1 : f[j + 1] = f[j] \o q[j + 1]
    BY ConcatsAt, Zenon
  <2>4. /\ m # 0 => g[1] = q[1]
        /\ \A j \in 1 .. m - 1 : g[j + 1] = g[j] \o q[j + 1]
    BY ConcatsAt, Zenon
  <2> QED
    BY <2>1, <2>2, <2>3, <2>4, Zenon
<1>2. SUFFICES ASSUME T # {} PROVE FALSE
  OBVIOUS
<1>3. PICK k \in T : \A j \in T : k <= j
  <2>1. T \in SUBSET Nat
    OBVIOUS
  <2> HIDE DEF T
  <2> QED
    BY <1>2, <2>1, LeastNumber, Zenon
<1>4. k \in 1 .. n /\ f[k] # g[k]
  OBVIOUS
<1>5. CASE k = 1
  BY <1>1, <1>4, <1>5
<1>6. CASE k # 1
  <2> DEFINE j == k - 1
  <2>1. j \in 1 .. n /\ j \in 1 .. n - 1 /\ ~(k <= j) /\ j + 1 = k
    BY <1>4, <1>6
  <2> HIDE DEF j
  <2>2. f[j] = g[j]
    BY <1>3, <2>1
  <2>3. f[j + 1] = g[j + 1]
    BY <1>1, <2>1, <2>2
  <2> QED
    BY <1>4, <2>1, <2>3
<1> QED
  BY <1>5, <1>6

LEMMA FlattenIs ==
  ASSUME NEW S, NEW q \in Seq(Seq(S)), Len(q) # 0
  PROVE  \E f \in [1 .. Len(q) -> Seq(S)] :
            Concats(q, Len(q), f) /\ FlattenSeq(q) = f[Len(q)]
<1> DEFINE n == Len(q)
           c == CHOOSE f : Concats(q, n, f)
<1>1. n \in 1 .. Len(q) /\ n \in Nat /\ n <= n
  OBVIOUS
<1>2. PICK g \in [1 .. n -> Seq(S)] : Concats(q, n, g)
  BY <1>1, ConcatsExist, Zenon
<1>3. Concats(q, n, c)
  BY <1>2, Zenon
<1>4. FlattenSeq(q) = c[n]
  BY DEF FlattenSeq, Concats
<1> HIDE DEF c
<1>5. \A i \in 1 .. n : c[i] = g[i]
  BY <1>1, <1>2, <1>3, ConcatsUnique
<1> QED
  BY <1>1, <1>2, <1>4, <1>5

(* Flattening one more sequence, at the end and at the front.                *)
LEMMA FlattenAppend ==
  ASSUME NEW S, NEW q \in Seq(Seq(S)), NEW s \in Seq(S)
  PROVE  /\ FlattenSeq(q) \in Seq(S)
         /\ FlattenSeq(Append(q, s)) = FlattenSeq(q) \o s
<1> DEFINE r == Append(q, s)
           n == Len(q)
           m == n + 1
<1>1. /\ r \in Seq(Seq(S)) /\ Len(r) = m /\ n \in Nat /\ r[m] = s
      /\ \A i \in 1 .. n : r[i] = q[i]
      /\ m \in Nat /\ m # 0 /\ n <= m /\ m - 1 = n
  OBVIOUS
<1> HIDE DEF r, m
<1>2. PICK g \in [1 .. m -> Seq(S)] : Concats(r, m, g) /\ FlattenSeq(r) = g[m]
  BY <1>1, FlattenIs
<1>3. /\ m # 0 => g[1] = r[1]
      /\ \A j \in 1 .. m - 1 : g[j + 1] = g[j] \o r[j + 1]
  <2>1. m \in Nat /\ Concats(r, m, g)
    BY <1>1, <1>2, Zenon
  <2> QED
    BY <2>1, ConcatsAt, Zenon
<1>4. CASE n = 0
  <2>1. FlattenSeq(q) = <<>>
    BY <1>4 DEF FlattenSeq
  <2>2. FlattenSeq(r) = s /\ q = <<>>
    BY <1>1, <1>2, <1>3, <1>4 DEF m
  <2> QED
    BY <2>1, <2>2 DEF r
<1>5. CASE n # 0
  <2>1. PICK f \in [1 .. n -> Seq(S)] :
           Concats(q, n, f) /\ FlattenSeq(q) = f[n]
    BY <1>5, FlattenIs
  <2>2. n \in 1 .. n /\ n \in Nat
    BY <1>1, <1>5
  <2>3. Concats(r, n, f)
    <3>1. \A i \in 1 .. n : f[i] = IF i = 1 THEN r[i] ELSE f[i - 1] \o r[i]
      BY <1>1, <2>1 DEF Concats
    <3> QED
      BY <2>1, <3>1 DEF Concats
  <2>4. \A i \in 1 .. n : f[i] = g[i]
    <3>1. n \in Nat /\ m \in Nat /\ n <= m /\ Concats(r, m, g)
      BY <1>1, <1>2, Zenon
    <3> HIDE DEF n
    <3>2. ASSUME NEW F, NEW G, Concats(r, n, F), Concats(r, m, G)
          PROVE  \A i \in 1 .. n : F[i] = G[i]
      BY <3>1, <3>2, ConcatsUnique
    <3> QED
      BY <2>3, <3>1, <3>2, Zenon
  <2>5. g[m] = g[n] \o s
    BY <1>1, <1>3, <2>2 DEF m
  <2> QED
    BY <1>2, <2>1, <2>2, <2>4, <2>5 DEF r
<1> QED
  BY <1>4, <1>5

LEMMA FlattenHead ==
  ASSUME NEW S, NEW q \in Seq(Seq(S)), q # <<>>
  PROVE  FlattenSeq(q) = Head(q) \o FlattenSeq(Tail(q))
<1> DEFINE t == Tail(q)
           n == Len(q)
<1>0. \A x, y, z \in Seq(S) : (x \o y) \o z = x \o (y \o z)
  OBVIOUS
<1>1. /\ n \in Nat \ {0} /\ t \in Seq(Seq(S)) /\ Len(t) = n - 1
      /\ Head(q) = q[1] /\ q[1] \in Seq(S)
      /\ \A i \in 1 .. n - 1 : t[i] = q[i + 1] /\ t[i] \in Seq(S)
  OBVIOUS
<1> HIDE DEF t
<1>2. PICK f \in [1 .. n -> Seq(S)] :
         Concats(q, n, f) /\ FlattenSeq(q) = f[n]
  BY <1>1, FlattenIs
<1>3. f[1] = q[1] /\ \A j \in 1 .. n - 1 : f[j + 1] = f[j] \o q[j + 1]
  BY <1>1, <1>2, ConcatsAt
<1>4. CASE n = 1
  <2>1. t = <<>>
    BY <1>1, <1>4
  <2>2. FlattenSeq(t) = <<>>
    BY <2>1 DEF FlattenSeq
  <2>3. FlattenSeq(q) = q[1]
    BY <1>2, <1>3, <1>4
  <2>4. q[1] \o <<>> = q[1]
    BY <1>1, ConcatEmptySeq
  <2> QED
    BY <1>1, <2>2, <2>3, <2>4 DEF t
<1>5. CASE n # 1
  <2> DEFINE m == n - 1
  <2>1. m \in Nat \ {0} /\ Len(t) = m /\ m \in 1 .. m /\ m + 1 = n
    BY <1>1, <1>5
  <2>2. /\ \A j \in 1 .. m : f[j + 1] = f[j] \o q[j + 1]
        /\ \A i \in 1 .. m : t[i] = q[i + 1] /\ t[i] \in Seq(S)
    BY <1>1, <1>3
  <2> HIDE DEF m
  <2>3. PICK h \in [1 .. m -> Seq(S)] :
           Concats(t, m, h) /\ FlattenSeq(t) = h[m]
    BY <1>1, <2>1, FlattenIs
  <2>4. h[1] = t[1] /\ \A j \in 1 .. m - 1 : h[j + 1] = h[j] \o t[j + 1]
    <3>1. m \in Nat /\ m # 0
      BY <2>1
    <3> QED
      BY <2>3, <3>1, ConcatsAt, Zenon
  <2> DEFINE T == {i \in 1 .. m : f[i + 1] # q[1] \o h[i]}
  <2>5. T = {}
    <3>1. SUFFICES ASSUME T # {} PROVE FALSE
      OBVIOUS
    <3>2. PICK k \in T : \A j \in T : k <= j
      <4>1. T \in SUBSET Nat
        OBVIOUS
      <4> HIDE DEF T
      <4> QED
        BY <3>1, <4>1, LeastNumber, Zenon
    <3>3. k \in 1 .. m /\ f[k + 1] # q[1] \o h[k]
      OBVIOUS
    <3>4. f[k + 1] = f[k] \o t[k]
      BY <2>2, <3>3
    <3>5. CASE k = 1
      <4>1. f[1] = q[1] /\ h[1] = t[1]
        BY <1>3, <2>4
      <4> QED
        BY <3>3, <3>4, <3>5, <4>1
    <3>6. CASE k # 1
      <4> DEFINE j == k - 1
      <4>1. j \in 1 .. m /\ j \in 1 .. m - 1 /\ ~(k <= j) /\ j + 1 = k
        BY <2>1, <3>3, <3>6
      <4> HIDE DEF j
      <4>2. f[k] = q[1] \o h[j]
        BY <3>2, <4>1
      <4>3. h[k] = h[j] \o t[k]
        BY <2>4, <4>1
      <4>4. h[j] \in Seq(S) /\ t[k] \in Seq(S)
        BY <2>2, <2>3, <3>3, <4>1
      <4>5. (q[1] \o h[j]) \o t[k] = q[1] \o (h[j] \o t[k])
        <5>1. q[1] \in Seq(S)
          BY <1>1
        <5> QED
          BY <1>0, <4>4, <5>1, Zenon
      <4> QED
        BY <3>3, <3>4, <4>2, <4>3, <4>5
    <3> QED
      BY <3>5, <3>6
  <2>6. f[m + 1] = q[1] \o h[m]
    BY <2>1, <2>5
  <2> QED
    BY <1>1, <1>2, <2>1, <2>3, <2>6 DEF t
<1> QED
  BY <1>4, <1>5

-----------------------------------------------------------------------------
(* The refinement.  Outside push_log_buffer no line is on its way into the   *)
(* queue, and outside fwrite none on its way out of it.                      *)
InTransit ==
    /\ pc[Sync] \notin {"lockQueue", "enqueue"} => moving = <<>>
    /\ pc[Writer] \notin {"choose", "write"} => batch = <<>>
    /\ pc[Sync] = "create" => pc[Writer] = "none"

RIInv == ThreadsTyped /\ LinesTyped /\ InTransit

LEMMA KeepsInTransit ==
  ASSUME RIInv, [Next]_vars
  PROVE  InTransit'
<1> USE LoggerThreads DEF RIInv, InTransit, ThreadsTyped
<1>1. ASSUME NEW p \in Producers, Producer(p) PROVE InTransit'
  BY <1>1 DEF Producer, LockPush, AcquireBuffer, Push, PushDtor, Moves, Goto,
     lineVars, Threads
<1>2. CASE CreateWriter
  <2>1. /\ pc[Sync] = "create" /\ UNCHANGED <<moving, batch>>
        /\ pc'[Sync] = "initCondition" /\ pc'[Writer] = "lock"
    BY <1>2 DEF CreateWriter, lineVars, Threads
  <2> QED
    BY <2>1
<1>3. CASE InitCondition
  <2>1. PICK w \in IF pc[Writer] = "waiting" THEN {"waiting", "forgotten"}
                   ELSE {pc[Writer]} :
           pc' = [pc EXCEPT ![Sync] = "idle", ![Writer] = w]
    BY <1>3 DEF InitCondition
  <2>2. pc[Sync] = "initCondition" /\ UNCHANGED <<moving, batch>>
    BY <1>3 DEF InitCondition, lineVars
  <2>3. pc'[Sync] = "idle" /\ pc'[Writer] = w
    BY <2>1 DEF Threads
  <2>4. pc[Writer] = "waiting" \/ w = pc[Writer]
    BY <2>1
  <2>5. pc[Writer] = "waiting" => w \in {"waiting", "forgotten"}
    BY <2>1
  <2> QED
    BY <2>2, <2>3, <2>4, <2>5
<1>4. CASE LockSwap \/ LockQueue
  BY <1>4 DEF LockSwap, LockQueue, AcquireBuffer, AcquireQueue, Moves, Goto,
     lineVars, Threads
<1>5. CASE Swap
  BY <1>5 DEF Swap, Moves, Goto, Threads
<1>6. CASE Enqueue
  BY <1>6 DEF Enqueue, Moves, Goto, Threads
<1>7. CASE Signal \/ SignalAgain
  BY <1>7 DEF Signal, SignalAgain, Signalled, lineVars, Threads
<1>8. CASE QueueDtor \/ SyncDtor
  BY <1>8 DEF QueueDtor, SyncDtor, Moves, Goto, lineVars, Threads
<1>9. CASE LockLoop \/ Relock \/ Wait \/ WakeUnasked
  BY <1>9 DEF LockLoop, Relock, Wait, WakeUnasked, AcquireQueue, Moves, Goto,
     lineVars, Threads
<1>10. CASE Take
  BY <1>10 DEF Take, Moves, Goto, Threads
<1>11. CASE ChooseFile
  BY <1>11 DEF ChooseFile, Moves, Goto, lineVars, Threads
<1>12. CASE Write
  BY <1>12 DEF Write, Moves, Goto, Threads
<1>13. CASE LoopDtor \/ Midnight \/ UNCHANGED vars
  BY <1>13 DEF LoopDtor, Midnight, vars, Moves, Goto, lineVars, Threads
<1> QED
  BY <1>1, <1>2, <1>3, <1>4, <1>5, <1>6, <1>7, <1>8, <1>9, <1>10, <1>11, <1>12,
     <1>13
     DEF Next, Syncing, SyncLocks, Writing, WriterLocks

(* Concatenation, as the mapping needs it.                                   *)
LEMMA PrefixOf ==
  ASSUME NEW S, NEW s \in Seq(S), NEW t \in Seq(S)
  PROVE  SubSeq(s \o t, 1, Len(s)) = s
  OBVIOUS

LEMMA Concatenations ==
  ASSUME NEW S
  PROVE  /\ \A s, t \in Seq(S) : s \o t \in Seq(S)
         /\ \A s \in Seq(S) : s \o <<>> = s
         /\ \A s, t, u \in Seq(S) : (s \o t) \o u = s \o (t \o u)
         /\ \A s, t \in Seq(S), e \in S :
               s \o Append(t, e) = Append(s \o t, e)
<1>1. \A s, t \in Seq(S) : s \o t \in Seq(S)
  OBVIOUS
<1>2. \A s \in Seq(S) : s \o <<>> = s
  OBVIOUS
<1>3. \A s, t, u \in Seq(S) : (s \o t) \o u = s \o (t \o u)
  OBVIOUS
<1>4. ASSUME NEW s \in Seq(S), NEW t \in Seq(S), NEW e \in S
      PROVE  s \o Append(t, e) = Append(s \o t, e)
  OBVIOUS
<1> QED
  BY <1>1, <1>2, <1>3, <1>4

Flat == FlattenSeq(queue)

LEMMA PipelineTyped ==
  ASSUME LinesTyped
  PROVE  /\ written \in Seq(Lines) /\ batch \in Seq(Lines)
         /\ Flat \in Seq(Lines) /\ moving \in Seq(Lines)
         /\ buffer \in Seq(Lines)
         /\ Pipeline = written \o batch \o Flat \o moving \o buffer
<1>1. FlattenSeq(queue) \in Seq(Lines)
  <2>1. queue \in Seq(Seq(Lines)) /\ moving \in Seq(Lines)
    BY DEF LinesTyped
  <2> QED
    BY <2>1, FlattenAppend
<1> QED
  BY <1>1 DEF LinesTyped, Flat, Pipeline

(* A step that moves no line is a stutter.                                   *)
LEMMA LinesStay ==
  ASSUME UNCHANGED lineVars
  PROVE  UNCHANGED <<Pipeline, written>>
  BY DEF lineVars, Pipeline

LEMMA PushPushes ==
  ASSUME ThreadsTyped, LinesTyped, NEW p \in Producers, Push(p)
  PROVE  \E line \in Lines : Log!Push(line)
<1> DEFINE line == <<p, pushed[p] + 1>>
           before == written \o batch \o Flat \o moving
<1>1. line \in Lines
  <2>1. pushed[p] \in Nat /\ MaxLines[p] \in Nat /\ pushed[p] < MaxLines[p]
    BY LoggerBounds DEF Push, Moves, ThreadsTyped
  <2>2. pushed[p] + 1 \in 1 .. MaxLines[p]
    BY <2>1
  <2> QED
    BY <2>2 DEF Lines
<1>2. /\ buffer' = Append(buffer, line)
      /\ UNCHANGED <<written, batch, queue, moving>>
  BY DEF Push
<1> HIDE DEF line
<1>3. before \in Seq(Lines) /\ buffer \in Seq(Lines)
  BY PipelineTyped, Concatenations, Zenon
<1>4. Pipeline = before \o buffer /\ Pipeline' = before \o Append(buffer, line)
  BY <1>2 DEF Pipeline, Flat
<1> HIDE DEF before
<1>5. before \o Append(buffer, line) = Append(before \o buffer, line)
  BY <1>1, <1>3, Concatenations
<1>6. Log!Push(line)
  BY <1>2, <1>4, <1>5 DEF Log!Push
<1> QED
  BY <1>1, <1>6

LEMMA SwapStutters ==
  ASSUME RIInv, Swap
  PROVE  UNCHANGED <<Pipeline, written>>
<1> DEFINE before == written \o batch \o Flat
<1>1. /\ moving = <<>> /\ moving' = buffer /\ buffer' = <<>>
      /\ UNCHANGED <<written, batch, queue>>
  BY DEF Swap, Moves, ClearBuffer, RIInv, InTransit
<1>2. before \in Seq(Lines) /\ buffer \in Seq(Lines)
  BY PipelineTyped, Concatenations, Zenon DEF RIInv
<1>3. /\ Pipeline = (before \o <<>>) \o buffer
      /\ Pipeline' = (before \o buffer) \o <<>>
  BY <1>1 DEF Pipeline, Flat
<1> HIDE DEF before
<1>4. before \o <<>> = before /\ (before \o buffer) \o <<>> = before \o buffer
  BY <1>2, Concatenations
<1> QED
  BY <1>1, <1>3, <1>4

LEMMA EnqueueStutters ==
  ASSUME RIInv, Enqueue
  PROVE  UNCHANGED <<Pipeline, written>>
<1> DEFINE before == written \o batch
<1>1. /\ queue' = Append(queue, moving) /\ moving' = <<>>
      /\ UNCHANGED <<written, batch, buffer>>
  BY DEF Enqueue
<1>2. /\ before \in Seq(Lines) /\ buffer \in Seq(Lines)
      /\ moving \in Seq(Lines) /\ Flat \in Seq(Lines)
  BY PipelineTyped, Concatenations, Zenon DEF RIInv
<1>3. Flat' = Flat \o moving
  <2>1. queue \in Seq(Seq(Lines)) /\ moving \in Seq(Lines)
    BY DEF RIInv, LinesTyped
  <2> QED
    BY <1>1, <2>1, FlattenAppend DEF Flat
<1>4. /\ Pipeline = ((before \o Flat) \o moving) \o buffer
      /\ Pipeline' = ((before \o (Flat \o moving)) \o <<>>) \o buffer
  BY <1>1, <1>3 DEF Pipeline, Flat
<1> HIDE DEF before
<1>5. /\ (before \o Flat) \o moving = before \o (Flat \o moving)
      /\ (before \o (Flat \o moving)) \o <<>> = before \o (Flat \o moving)
  BY <1>2, Concatenations
<1> QED
  BY <1>1, <1>4, <1>5

LEMMA TakeStutters ==
  ASSUME RIInv, Take
  PROVE  UNCHANGED <<Pipeline, written>>
<1> DEFINE head == Head(queue)
           rest == FlattenSeq(Tail(queue))
<1>1. /\ queue # <<>> /\ batch = <<>>
      /\ batch' = Head(queue) /\ queue' = Tail(queue)
      /\ UNCHANGED <<written, moving, buffer>>
  BY DEF Take, TakeFirst, Moves, RIInv, InTransit
<1>2. queue \in Seq(Seq(Lines))
  BY DEF RIInv, LinesTyped
<1>3. Flat = head \o rest
  BY <1>1, <1>2, FlattenHead DEF Flat
<1>4. head \in Seq(Lines) /\ rest \in Seq(Lines) /\ written \in Seq(Lines)
  <2>1. Head(queue) \in Seq(Lines) /\ Tail(queue) \in Seq(Seq(Lines))
    BY <1>1, <1>2
  <2>2. rest \in Seq(Lines)
    BY <2>1, FlattenAppend
  <2> QED
    BY <2>1, <2>2, PipelineTyped DEF RIInv
<1>5. /\ Pipeline = (((written \o <<>>) \o (head \o rest)) \o moving) \o buffer
      /\ Pipeline' = (((written \o head) \o rest) \o moving) \o buffer
  BY <1>1, <1>3 DEF Pipeline, Flat
<1> HIDE DEF head, rest
<1>6. /\ written \o <<>> = written
      /\ (written \o head) \o rest = written \o (head \o rest)
  BY <1>4, Concatenations
<1> QED
  BY <1>1, <1>5, <1>6

LEMMA WriteWrites ==
  ASSUME RIInv, Write
  PROVE  Log!Write \/ UNCHANGED <<Pipeline, written>>
<1> DEFINE done == written \o batch
           rest == (Flat \o moving) \o buffer
<1>1. /\ written' = done /\ batch' = <<>>
      /\ UNCHANGED <<queue, moving, buffer>>
  BY DEF Write
<1>2. /\ written \in Seq(Lines) /\ batch \in Seq(Lines) /\ Flat \in Seq(Lines)
      /\ moving \in Seq(Lines) /\ buffer \in Seq(Lines)
  BY PipelineTyped DEF RIInv
<1>3. done \in Seq(Lines) /\ rest \in Seq(Lines)
  BY <1>2, Concatenations, Zenon
<1>4. /\ Pipeline = ((done \o Flat) \o moving) \o buffer
      /\ Pipeline' = (((done \o <<>>) \o Flat) \o moving) \o buffer
  BY <1>1 DEF Pipeline, Flat
<1>5. Len(done) = Len(written) + Len(batch)
  BY <1>2
<1>6. batch = <<>> => done = written
  BY <1>2, Concatenations
<1> HIDE DEF done
<1>7. done \o <<>> = done
  BY <1>3, Concatenations
<1>8. Pipeline' = Pipeline
  BY <1>4, <1>7
<1>9. CASE batch = <<>>
  BY <1>1, <1>6, <1>8, <1>9
<1>10. CASE batch # <<>>
  <2>1. Pipeline = done \o rest
    <3>1. \A s, t, u \in Seq(Lines) : (s \o t) \o u = s \o (t \o u)
      BY Concatenations
    <3>2. done \in Seq(Lines)
      BY <1>3
    <3>3. Flat \in Seq(Lines)
      BY <1>2
    <3>4. moving \in Seq(Lines)
      BY <1>2
    <3>5. buffer \in Seq(Lines)
      BY <1>2
    <3>6. Flat \o moving \in Seq(Lines)
      BY <3>3, <3>4, Concatenations
    <3>7. (done \o Flat) \o moving = done \o (Flat \o moving)
      BY <3>1, <3>2, <3>3, <3>4, Zenon
    <3>8. (done \o (Flat \o moving)) \o buffer = done \o rest
      BY <3>1, <3>2, <3>5, <3>6, Zenon
    <3> QED
      BY <1>4, <3>7, <3>8
  <2> HIDE DEF rest
  <2>2. written' = SubSeq(Pipeline, 1, Len(done))
    BY <1>1, <1>3, <2>1, PrefixOf
  <2>3. Len(done) \in Len(written) + 1 .. Len(Pipeline)
    <3>1. Len(batch) \in Nat \ {0} /\ Len(written) \in Nat
      BY <1>2, <1>10
    <3>2. Len(Pipeline) = Len(done) + Len(rest) /\ Len(rest) \in Nat
      BY <1>3, <2>1
    <3> QED
      BY <1>5, <3>1, <3>2
  <2> QED
    BY <1>8, <2>2, <2>3 DEF Log!Write
<1> QED
  BY <1>9, <1>10

LEMMA InitRefines == Init => RIInv /\ Log!Init
<1> SUFFICES ASSUME Init PROVE RIInv /\ Log!Init
  OBVIOUS
<1>1. ThreadsTyped /\ LinesTyped
  BY InitIInv DEF IInv
<1>2. /\ written = <<>> /\ batch = <<>> /\ queue = <<>> /\ moving = <<>>
      /\ buffer = <<>>
  BY DEF Init
<1>3. FlattenSeq(queue) = <<>>
  BY <1>2 DEF FlattenSeq
<1>4. Pipeline = <<>>
  BY <1>2, <1>3 DEF Pipeline
<1> QED
  <2>1. pc[Sync] = "create" => pc[Writer] = "none"
    BY LoggerThreads DEF Init, Threads
  <2> QED
    BY <1>1, <1>2, <1>4, <2>1 DEF RIInv, InTransit, Log!Init

LEMMA NextRefines ==
  ASSUME RIInv, [Next]_vars
  PROVE  [Log!Next]_<<Pipeline, written>>
<1>1. ASSUME NEW p \in Producers, Producer(p)
      PROVE  [Log!Next]_<<Pipeline, written>>
  <2>1. CASE Push(p)
    BY <2>1, PushPushes DEF RIInv, Log!Next
  <2>2. CASE LockPush(p) \/ PushDtor(p)
    BY <2>2, LinesStay DEF LockPush, PushDtor, AcquireBuffer
  <2> QED
    BY <1>1, <2>1, <2>2 DEF Producer
<1>2. CASE Swap
  BY <1>2, SwapStutters
<1>3. CASE Enqueue
  BY <1>3, EnqueueStutters
<1>4. CASE Take
  BY <1>4, TakeStutters
<1>5. CASE Write
  BY <1>5, WriteWrites DEF Log!Next
<1>6. CASE \/ CreateWriter \/ InitCondition \/ Signal \/ SignalAgain
           \/ QueueDtor \/ SyncDtor \/ LockSwap \/ LockQueue \/ Wait
           \/ ChooseFile \/ LoopDtor \/ LockLoop \/ Relock \/ WakeUnasked
           \/ Midnight \/ UNCHANGED vars
  <2>1. UNCHANGED lineVars
    BY <1>6 DEF CreateWriter, InitCondition, Signal, SignalAgain, QueueDtor,
       SyncDtor, LockSwap, LockQueue, Wait, ChooseFile, LoopDtor, LockLoop,
       Relock, WakeUnasked, Midnight, vars, AcquireBuffer, AcquireQueue
  <2> QED
    BY <2>1, LinesStay
<1> QED
  BY <1>1, <1>2, <1>3, <1>4, <1>5, <1>6
     DEF Next, Syncing, SyncLocks, Writing, WriterLocks

(* logger and asyncLogger together keep what push_log promises: whatever the *)
(* threads do, each line gets into the files once, in the order of the       *)
(* pushes.                                                                   *)
THEOREM LoggerImplementsLogFile == Spec => ImplementsLogFile
<1>1. RIInv /\ [Next]_vars => RIInv'
  BY KeepsThreadsTyped, KeepsLinesTyped, KeepsInTransit DEF RIInv
<1>2. Spec => []RIInv
  BY <1>1, InitRefines, PTL DEF Spec
<1>3. RIInv /\ [Next]_vars => [Log!Next]_<<Pipeline, written>>
  BY NextRefines
<1> QED
  BY <1>2, <1>3, InitRefines, PTL DEF Spec, ImplementsLogFile, Log!Spec
=============================================================================
