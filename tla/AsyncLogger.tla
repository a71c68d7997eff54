---------------------------- MODULE AsyncLogger ----------------------------
(* The way of a log line to its file: push_log puts it into m_buffer,        *)
(* sync_loop, a repeated timer callback of one loop's thread, moves m_buffer *)
(* into the queue of the asyncLogger, whose own thread writes the batches    *)
(* and rolls the files.  The rpc and the app log are two copies of this.     *)
(* Both mutexes are held through scope_mutext, whose destructor unlocks a    *)
(* second time; when two sections overlap because of that, `raced' is set    *)
(* and nothing after it is modelled.  A line is one unit of file size.       *)
EXTENDS Naturals, Sequences, SequencesExt

CONSTANTS
    Producers,      \* the threads that log
    MaxLines,       \* bound: how many lines each of them pushes
    MaxDay,         \* bound: days
    MaxFileSize,    \* m_max_file_size
    Sync, Writer,   \* the thread with the timer, the asyncLogger's thread
    Nobody,         \* a mutex is free
    NoFile          \* m_file_hanlder is NULL

ASSUME LoggerThreads ==
    /\ Sync \notin Producers /\ Writer \notin Producers /\ Sync # Writer
    /\ Nobody \notin Producers \cup {Sync, Writer}
ASSUME LoggerBounds ==
    /\ MaxLines \in [Producers -> Nat] /\ MaxDay \in Nat /\ MaxFileSize \in Nat
    /\ NoFile \notin Nat \X Nat

Threads == Producers \cup {Sync, Writer}
Lines   == UNION {{p} \X (1 .. MaxLines[p]) : p \in Producers}
Files   == (0 .. MaxDay) \X Nat            \* ..._<date>_log.<m_no>

VARIABLES
    bufferMutex,    \* logger::m_mutex
    queueMutex,     \* asyncLogger::m_mutex
    pc,             \* where each thread is
    pushed,         \* how many lines each producer has pushed
    buffer,         \* logger::m_buffer
    moving,         \* tmp_vec of sync_loop
    queue,          \* asyncLogger::m_buffer, a queue of batches
    batch,          \* tmp of asyncLogger::Loop
    written,        \* the lines in the files, in the order of the writes
    today,
    date,           \* the day of m_date; MaxDay + 1 before the first batch
    no,             \* m_no
    file,           \* the file that is open
    size,           \* the size of each file
    overfull,       \* how often a file over MaxFileSize was written to
    raced           \* two critical sections have overlapped

lockVars == <<bufferMutex, queueMutex, raced>>
lineVars == <<pushed, buffer, moving, queue, batch, written>>
fileVars == <<today, date, no, file, size, overfull>>
vars     == <<lockVars, pc, lineVars, fileVars>>

PCs == {"idle", "push", "pushDtor",
        "create", "initCondition", "swap", "lockQueue", "enqueue", "signal",
        "signalAgain", "queueDtor", "syncDtor",
        "none", "lock", "check", "waiting", "forgotten", "relock", "choose",
        "write", "loopDtor"}

TypeOK ==
    /\ bufferMutex \in Threads \cup {Nobody}
    /\ queueMutex \in Threads \cup {Nobody}
    /\ pc \in [Threads -> PCs]
    /\ pushed \in [Producers -> Nat]
    /\ \A p \in Producers : pushed[p] <= MaxLines[p]
    /\ buffer \in Seq(Lines) /\ moving \in Seq(Lines) /\ batch \in Seq(Lines)
    /\ queue \in Seq(Seq(Lines))
    /\ written \in Seq(Lines)
    /\ today \in 0 .. MaxDay
    /\ date \in 0 .. MaxDay + 1
    /\ no \in Nat
    /\ file \in Files \cup {NoFile}
    /\ DOMAIN size \subseteq Files /\ DOMAIN overfull = DOMAIN size
    /\ \A f \in DOMAIN size : size[f] \in Nat /\ overfull[f] \in Nat
    /\ raced \in BOOLEAN

Init ==
    /\ bufferMutex = Nobody /\ queueMutex = Nobody
    /\ pc = [t \in Threads |-> IF t = Sync THEN "create"
                               ELSE IF t = Writer THEN "none" ELSE "idle"]
    /\ pushed = [p \in Producers |-> 0]
    /\ buffer = <<>> /\ moving = <<>> /\ queue = <<>> /\ batch = <<>>
    /\ written = <<>>
    /\ today = 0 /\ date = MaxDay + 1 /\ no = 0
    /\ file = NoFile
    /\ size = [f \in {} |-> 0] /\ overfull = size
    /\ raced = FALSE

-----------------------------------------------------------------------------
Goto(t, next) == pc' = [pc EXCEPT ![t] = next]
Moves(t, from, to) == pc[t] = from /\ Goto(t, to)

InBuffer == {"push", "swap"}
InQueue  == {"enqueue", "signal", "check"}

(* scope_mutext<mutex> locker(m_mutex) for either mutex                      *)
AcquireBuffer(t, from, section) ==
    /\ Moves(t, from, section)
    /\ bufferMutex = Nobody /\ bufferMutex' = t
    /\ raced' = \E u \in Threads \ {t} : pc[u] \in InBuffer
    /\ UNCHANGED <<queueMutex, lineVars, fileVars>>
AcquireQueue(t, from, section) ==
    /\ Moves(t, from, section)
    /\ queueMutex = Nobody /\ queueMutex' = t
    /\ raced' = \E u \in Threads \ {t} : pc[u] \in InQueue
    /\ UNCHANGED <<bufferMutex, lineVars, fileVars>>

(* unlock() and the destructor free the mutex whoever holds it.              *)
UnlockBuffer == bufferMutex' = Nobody /\ UNCHANGED <<queueMutex, raced>>
UnlockQueue  == queueMutex' = Nobody /\ UNCHANGED <<bufferMutex, raced>>

-----------------------------------------------------------------------------
(* logger::push_log                                                          *)
LockPush(p) ==
    /\ pushed[p] < MaxLines[p]
    /\ AcquireBuffer(p, "idle", "push")

Push(p) ==
    /\ Moves(p, "push", "pushDtor")
    /\ pushed' = [pushed EXCEPT ![p] = @ + 1]
    /\ buffer' = Append(buffer, <<p, pushed[p] + 1>>)
    /\ UnlockBuffer
    /\ UNCHANGED <<moving, queue, batch, written, fileVars>>

PushDtor(p) ==
    /\ Moves(p, "pushDtor", "idle")
    /\ UnlockBuffer
    /\ UNCHANGED <<lineVars, fileVars>>

-----------------------------------------------------------------------------
(* asyncLogger::asyncLogger: the thread is created before the condition      *)
(* variable is initialised; a waiter may be forgotten by that.  Both then    *)
(* meet at the semaphore, which the writer posts first of all.               *)
CreateWriter ==
    /\ pc[Sync] = "create"
    /\ pc' = [pc EXCEPT ![Sync] = "initCondition", ![Writer] = "lock"]
    /\ UNCHANGED <<lockVars, lineVars, fileVars>>

InitCondition ==
    /\ pc[Sync] = "initCondition"
    /\ \E w \in IF pc[Writer] = "waiting" THEN {"waiting", "forgotten"}
                ELSE {pc[Writer]} :
          pc' = [pc EXCEPT ![Sync] = "idle", ![Writer] = w]
    /\ UNCHANGED <<lockVars, lineVars, fileVars>>

(* logger::sync_loop, up to the end of its locker.                           *)
LockSwap == AcquireBuffer(Sync, "idle", "swap")

ClearBuffer == buffer' = <<>>

Swap ==
    /\ Moves(Sync, "swap", IF buffer = <<>> THEN "syncDtor" ELSE "lockQueue")
    /\ moving' = buffer
    /\ ClearBuffer
    /\ UnlockBuffer
    /\ UNCHANGED <<pushed, queue, batch, written, fileVars>>

LockQueue == AcquireQueue(Sync, "lockQueue", "enqueue")

(* push_log_buffer: push, pthread_cond_signal, unlock, pthread_cond_signal.  *)
EnqueueSilently ==               \* mutant: nobody is signalled
    /\ Moves(Sync, "enqueue", "queueDtor")
    /\ queue' = Append(queue, moving)
    /\ moving' = <<>>
    /\ UnlockQueue
    /\ UNCHANGED <<pushed, buffer, batch, written, fileVars>>
Enqueue ==
    /\ Moves(Sync, "enqueue", "signal")
    /\ queue' = Append(queue, moving)
    /\ moving' = <<>>
    /\ UNCHANGED <<lockVars, pushed, buffer, batch, written, fileVars>>

Signalled(next) ==
    pc' = [pc EXCEPT ![Sync] = next,
                     ![Writer] = IF @ = "waiting" THEN "relock" ELSE @]

Signal ==
    /\ pc[Sync] = "signal"
    /\ Signalled("signalAgain")
    /\ UnlockQueue
    /\ UNCHANGED <<lineVars, fileVars>>

SignalAgain ==
    /\ pc[Sync] = "signalAgain"
    /\ Signalled("queueDtor")
    /\ UNCHANGED <<lockVars, lineVars, fileVars>>

QueueDtor ==
    /\ Moves(Sync, "queueDtor", "syncDtor")
    /\ UnlockQueue
    /\ UNCHANGED <<lineVars, fileVars>>

SyncDtor ==
    /\ Moves(Sync, "syncDtor", "idle")
    /\ UnlockBuffer
    /\ UNCHANGED <<lineVars, fileVars>>

-----------------------------------------------------------------------------
(* asyncLogger::Loop: wait for a batch; pthread_cond_wait frees the mutex    *)
(* and may return unasked.                                                   *)
LockLoop == AcquireQueue(Writer, "lock", "check")
Relock   == AcquireQueue(Writer, "relock", "check")

Wait ==
    /\ queue = <<>>
    /\ Moves(Writer, "check", "waiting")
    /\ UnlockQueue
    /\ UNCHANGED <<lineVars, fileVars>>

WakeUnasked ==
    /\ Moves(Writer, "waiting", "relock")
    /\ UNCHANGED <<lockVars, lineVars, fileVars>>

TakeLast  == batch' = Last(queue) /\ queue' = Front(queue) \* mutant: a stack
TakeFirst == batch' = Head(queue) /\ queue' = Tail(queue)

Take ==
    /\ queue # <<>>
    /\ Moves(Writer, "check", "choose")
    /\ TakeFirst
    /\ UnlockQueue
    /\ UNCHANGED <<pushed, buffer, moving, written, fileVars>>

(* A new day starts with file 0.  A file that is over the limit is closed,   *)
(* and m_no++ names the next: the first time, that is file 0 again.          *)
SizeOf(f) == IF f \in DOMAIN size THEN size[f] ELSE 0
NumberKept(n) == n                             \* mutant: m_no for m_no++
NumberAfter(n) == n + 1

ChooseFile ==
    /\ Moves(Writer, "choose", "write")
    /\ date' = today
    /\ LET first  == IF date # today THEN 0 ELSE no
           opened == IF date # today \/ file = NoFile THEN <<today, first>>
                     ELSE file
       IN  IF SizeOf(opened) > MaxFileSize
           THEN /\ file' = <<today, first>>
                /\ no' = NumberAfter(first)
           ELSE /\ file' = opened
                /\ no' = first
    /\ UNCHANGED <<lockVars, lineVars, today, size, overfull>>

(* fwrite and fflush                                                         *)
Counted(n) ==
    [f \in DOMAIN size \cup {file} |-> IF f = file THEN n ELSE size[f]]
CountedOver(n) ==
    [f \in DOMAIN size \cup {file} |->
        IF f \in DOMAIN size THEN IF f = file THEN overfull[f] + n ELSE overfull[f]
        ELSE 0]

WriteUntyped ==                  \* mutant: the whole batch as one line
    /\ Moves(Writer, "write", "loopDtor")
    /\ written' = Append(written, batch)
    /\ batch' = <<>>
    /\ UNCHANGED <<lockVars, pushed, buffer, moving, queue, fileVars>>
Write ==
    /\ Moves(Writer, "write", "loopDtor")
    /\ written' = written \o batch
    /\ batch' = <<>>
    /\ size' = Counted(SizeOf(file) + Len(batch))
    /\ overfull' = CountedOver(IF SizeOf(file) > MaxFileSize THEN 1 ELSE 0)
    /\ UNCHANGED <<lockVars, pushed, buffer, moving, queue, today, date, no,
                   file>>

LoopDtor ==
    /\ Moves(Writer, "loopDtor", "lock")
    /\ UnlockQueue
    /\ UNCHANGED <<lineVars, fileVars>>

Midnight ==
    /\ today < MaxDay
    /\ today' = today + 1
    /\ UNCHANGED <<lockVars, pc, lineVars, date, no, file, size, overfull>>

-----------------------------------------------------------------------------
Producer(p) == LockPush(p) \/ Push(p) \/ PushDtor(p)
Syncing     == \/ CreateWriter \/ InitCondition \/ Swap \/ Enqueue \/ Signal
               \/ SignalAgain \/ QueueDtor \/ SyncDtor
SyncLocks   == LockSwap \/ LockQueue
Writing     == Wait \/ Take \/ ChooseFile \/ Write \/ LoopDtor
WriterLocks == LockLoop \/ Relock

Next ==
    /\ ~raced
    /\ \/ \E p \in Producers : Producer(p)
       \/ Syncing \/ SyncLocks \/ Writing \/ WriterLocks \/ WakeUnasked
       \/ Midnight

Spec == Init /\ [][Next]_vars

(* The sync timer is repeated for ever (Timer), threads go on and get a      *)
(* mutex in the end.  Nobody has to log.                                     *)
FairSpec ==
    /\ Spec
    /\ WF_vars(~raced /\ Syncing) /\ SF_vars(~raced /\ SyncLocks)
    /\ WF_vars(~raced /\ Writing) /\ SF_vars(~raced /\ WriterLocks)
    /\ \A p \in Producers : WF_vars(~raced /\ (Push(p) \/ PushDtor(p)))

-----------------------------------------------------------------------------
(* The pipeline implements LogFile: nothing is lost, duplicated or reordered *)
(* between push_log and the files.                                           *)
Pipeline == written \o batch \o FlattenSeq(queue) \o moving \o buffer
Log == INSTANCE LogFile WITH accepted <- Pipeline
ImplementsLogFile == Log!Spec

(* "等待新线程" aside (log.cpp:181), the writer never sleeps on a batch that  *)
(* nobody will wake it for.                                                  *)
NoLostWakeup ==
    pc[Writer] = "waiting" /\ queue # <<>> => pc[Sync] = "signal"

(* "日志单个文件最大大小" (log.h:105): a file over the limit is not written to   *)
(* again, except file 0 of a day, once: m_no++ names it a second time.       *)
OverfullOnlyFirst ==
    \A f \in DOMAIN overfull : overfull[f] <= IF f[2] = 0 THEN 1 ELSE 0

(* What a thread logged last gets into a file, and with it (ImplementsLogFile)*)
(* all that was logged before, unless sections overlap or the condition      *)
(* variable forgot the writer.                                               *)
EverythingIsWritten ==
    \A p \in Producers :
        (pushed[p] = MaxLines[p]) ~>
            \/ Contains(written, <<p, MaxLines[p]>>)
            \/ raced \/ pc[Writer] = "forgotten"
=============================================================================
