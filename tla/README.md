# TLA+ specifications of Kabi

Kabi is a C++ framework for RPC servers: a main reactor accepts connections, a
pool of I/O threads serves them, and a client side makes RPC calls over the same
event loop; a small game world and generated message classes sit on top.  This
directory holds TLA+ modules translated from the code, TLC configurations that
check them on small instances, and TLAPS proofs for instances of any size.
`PROJECT.json` lists components, runs, mutants, the lines every definition
models, findings, hazards and theorems.

## 1. Inventory

| Component | State | Operations | Talks to |
|---|---|---|---|
| `eventloop` (`net/eventloop.cpp`) | `m_pending_tasks` under `m_mutex`, `m_listen_fds` and the epoll set, the eventfd's counter, `m_stop_flag` | `loop`, `add_task`, `add_epoll_event`, `del_epoll_event`, `stop`, `add_timer_event` | closures from every thread; callbacks of `fdEvent`s |
| `scope_mutext`, `mutex` (`include/mutex.h`) | the lock, the locker's `m_is_lock` | `lock`, `unlock`, and an `unlock` in the destructor | event loop, timer, logger, `fdEventGroup` |
| `timer`, `timerEvent` (`net/timer*.cpp`) | pending events by arrival time, a timerfd | `add_timer_event`, `del_timer_event`, `on_timer`, `reset_arrive_time` | one per event loop; users in any thread |
| `fdEvent`, `fdEventGroup` (`net/fd_event*.cpp`) | per fd number: event mask, read/write callback; the table of them | `listen`, `cancel`, `handler`, `get_fd_event` | event loop, connections, clients |
| `ioThread(Group)` (`net/io_thread*.cpp`) | a thread, its loop, two semaphores, the round-robin index | create, `start`, `Main`, `get_io_thread` | server |
| `tcpServer`, `tcpAcceptor` (`net/tcp`) | listening fd, the connections | `init`, `start`, `on_accept` | I/O threads, connections |
| `tcpConnection` (`net/tcp/tcp_connection.cpp`) | `m_state`, in and out buffer, `m_write_dones`, `m_read_dones` | `on_read`, `excute`, `on_write`, `clear`, `push_*_msg`, `listen_*_event` | event loop, coder, dispatcher, client |
| `tcpBuffer` (`net/tcp/tcpbuffer.cpp`) | bytes, read and write index | `write_buffer`, `resize_buffer`, `adjust_buffer`, `move_*_index`, `read_from_buffer` | connection, coder |
| `tinyPBCoder` (`net/coder`) | none | `encode`, `decode` | buffers |
| `tcpClient` (`net/tcp/tcp_client.cpp`) | socket, `m_connect_error_code`, a connection | `tcp_connect`, `write_msg`, `read_msg`, `stop` | event loop, connection, RPC channel |
| `rpcChannel`, `rpcController`, `RpcClosure` (`net/rpc`) | closure, `m_timer_event`; error, cancel flag, message id | `CallMethod`, `rpc_channel_init`, `Reset`, `StartCancel`, `SetError` | client, timer, application |
| `rpcDispatcher` (`net/rpc/rpc_dispatcher.cpp`) | services by name | `dispatch`, `register_service` | connection, services |
| `logger`, `asyncLogger` (`include/log.cpp`) | a buffer, a queue of batches, the current file | `push_log`, `sync_loop`, `push_log_buffer`, `Loop`, `stop` | every thread, timer |
| generated classes (`GameMsg.pb.*`, `message.pb.*`, `order.pb.*`) | fields, unknown fields, cached sizes | accessors, `Clear`, `_InternalParse`, `_InternalSerialize`, `ByteSizeLong`, `MergeFrom`; stubs and services | everything that sends a message |
| `AOIWorld`, `Grid`, `GameRole` (`net/game`) | per cell a list of players; position and name of a role | `add_player`, `del_player`, `get_srd_players`; `init`, `fini`, `create_*` | RPC channel, message classes |
| message registries (`game_msg.cpp`, `msg_api.cpp`) | class by id | `initProtoRegistryV2`, `createMessageV2`, `init_proto_registry`, `create_message` | message classes |
| `MsgIDUtil`, run time, config, util, addresses | thread-local id; otherwise read-only | `GenMsgID` | RPC channel |

What is hard, and what makes each part correct:

* **Event loop** - several threads against one queue; a wakeup that must not be
  lost; fds deregistered while their events are in flight.  Every closure runs
  once and in order; `stop()` ends the loop; no callback of a deregistered fd.
* **Timer** - events added by other threads while the timerfd is being set from a
  copy; an event cancelled in the batch in which it is due.  No event is
  forgotten; callbacks run as often as they were asked to.
* **RPC call** - reply, timeout, connect failure and a second call race on one
  channel.  The closure runs once and is told the truth; every call ends.
* **Clients on one loop** - fd numbers are reused, `fdEvent`s and `m_listen_fds`
  are not cleaned.  epoll holds live fds with their owners' write callbacks, and
  with their read callbacks once a reply is waited for.
* **Connection and buffer** - a byte stream cut anywhere, full buffers, partial
  writes, peers that close.  Requests are executed once, in order, and answered.
* **Server and I/O threads** - a connection handed to a thread before it is
  finished; start through semaphores; fds that are never closed.
* **Logger** - batches between three kinds of threads, a condition variable,
  roll-over.  Nothing lost, duplicated or reordered; full files stay as they are.
* **Messages** - merges, oneofs, unknown fields and sizes written before their
  contents.  Reading gives what was written.
* **World and dispatcher** - neighbours at the borders, roles owned by several
  `shared_ptr` counts, calls for services that are not there.

## 2. Modules

| Module | Models | Kind |
|---|---|---|
| `TaskQueue` | what `add_task` promises | abstract specification |
| `EventLoop`, `EventLoopProofs` | `eventloop`, the wakeup eventfd, `scope_mutext` around `m_pending_tasks` | state machine, refines `TaskQueue` |
| `Timer`, `MCTimer`, `TimerProofs` | `timer`, `timerEvent`, the timerfd | state machine |
| `RpcCall`, `RpcCallProofs` | `rpcChannel::CallMethod`, `tcpClient`, the client's `tcpConnection`, `rpcController`, one-shot timers | state machine |
| `ClientLoop`, `ClientLoopProofs` | several `tcpClient`s on one loop: fds, `m_listen_fds`, the shared `fdEvent`s | state machine |
| `TcpBuffer` | `tcpBuffer`, one operator per method | operators |
| `ServerConnection`, `MCServerConnection`, `ServerConnectionProofs` | the server's `tcpConnection`, `tinyPBCoder` | state machine over `TcpBuffer` |
| `Server`, `ServerProofs` | `tcpServer`, `tcpAcceptor`, `ioThread(Group)`, the table of `fdEventGroup` | state machine |
| `LogFile` | what `push_log` promises | abstract specification |
| `AsyncLogger`, `MCAsyncLogger`, `AsyncLoggerProofs` | `logger`, `asyncLogger` | state machine, refines `LogFile` |
| `Protobuf` | the generated classes | operators |
| `Messages`, `MCMessages` | one class written and another reading; the registries | state machine over `Protobuf` |
| `AoiWorld` | `AOIWorld`, `Grid`, `GameRole` | operators and state machine |
| `GameSync`, `MCGameSync` | a client's world, its requests, `rpcDispatcher`, the answer | composition of `AoiWorld`, `Protobuf` and the dispatcher, refines `AoiWorld` |
| `GameProofs` | | proofs about `Protobuf`, `Messages`, `AoiWorld` and `GameSync` |

The modules meet at these borders.  A loop is `EventLoop` where its locks matter
and the FIFO of `TaskQueue`, which `EventLoop` implements, where they do not
(`Server`, `ClientLoop`).  The timer is one ready fd in `EventLoop`, whole in
`Timer`, and its guarantee (a callback runs once, not before its time) is what
`RpcCall`'s timeout and the logger's `sync_loop` rest on.  `Server` ends where
`on_read` has a connected object with a coder; `ServerConnection` starts there.
`ServerConnection` takes from the dispatcher that it always answers; `GameSync`
shows what it answers.

### EventLoop

A critical section is two steps.  `Acquire` takes the lock and copies
`m_pending_tasks` to `snap[t]`; the section's write (`Push`, `Swap`) computes the
new queue from that copy.  With the lock held properly the copy is the queue; when
two sections overlap, one write undoes the other, which is what two racing
`std::queue` operations can at best do.  They can overlap because
`~scope_mutext` calls `m_mutex.unlock()` whether or not the locker still holds the
mutex (`mutex.h:16-20`), and a default pthread mutex is released by whoever
unlocks it: `PushDtor` and `IterationDtor` are these second unlocks, the latter at
the end of an iteration of `loop()`, after its callbacks, `epoll_wait` and the
dispatch.  `raced` remembers the first overlap; posts stop there, because what
follows in the program is undefined behaviour.

`DispatchIn/Out/Error` are the branches of `loop()` over `epoll_wait`'s result, in
their order, each with its `add_task` (lock, push, unlock, destructor).
`Registered` is what a callback may do to the epoll set.  `listenFds` stands for
`m_listen_fds` and the epoll set, which differ only after a failed `epoll_ctl` or
a closed fd: `ClientLoop` keeps the two apart.

### Timer

Times are relative to now: `arrive[e]` is `m_arrive_time` minus `get_now_ms()`, and
`Tick` lets a millisecond pass for events and timerfd at once, so time needs no
bound; everything before now is `Overdue`.  The two run on different clocks, the wall
clock and `CLOCK_MONOTONIC`: `ClockStep` sets the first forward alone.  The multimap is a
set of events.  `add_timer_event`, `del_timer_event`, `reset_arrive_time` and `on_timer` are
cut at every lock, unlock and second unlock of their lockers, and `reset_arrive_time` also
between its call of `get_now_ms()` (`ReadClock`) and `timerfd_settime` (`SetTime`), which
sets the interval computed from a time that is no longer now: `delay` is how far the clock
has gone meanwhile, `late` what the timerfd that is running owes to that and to clock
steps since.  From `CopyPending`, which takes the first event from a copy of the map,
to `SetTime`, other threads run: `stale` remembers that the timerfd was set for an event
that was no longer the first.  `delay` and `late` are kept only up to what can still
matter to an event that waits, which keeps the model finite; the time of an event that
has left the map counts as `Overdue` until it is set again (`Forgotten`), which merges states.  `on_timer` reads the timerfd, samples
the time, collects (`Collect`), adds the repeated events again (`ReAdd`, a whole
`add_timer_event` each), sets the time and runs the callbacks, which may add and
cancel events themselves.

### RpcCall

An action is one closure run by the loop's thread or one call of the application.
`CallMethod` is the disjunction of its outcomes: not initialised, not serialisable,
connected at once, `EINPROGRESS`, any other errno.  `ConnectHandler` is the callback
of `tcp_connect` with the channel's callback inside it; `OnWriteAll` and
`OnWriteAgain` are `on_write` with the done callbacks, which register the read
side; `OnReadReply` is `excute` with the reply callback; `Timeout` is the timer's
callback.  The message id of the first call stays in the controller, so a second
call reuses it: `id` and `readDones` keep that.  The socket is `fresh`,
`connecting`, `connected`, or `reopened` (the blocking socket a refused connect is
replaced by).  The peer answers with an ok, error or unparsable reply, or never.
The application may use the controller again with `Reset`.

### ClientLoop

Clients are created by main code or by each other's callbacks (`UserCode`) and get
the lowest free fd number.  `Destroy` closes the fd: the kernel forgets its
registration (`epoll`), `m_listen_fds` (`listenFds`) and the `fdEvent` of the number
(`events`, `readCb`, `writeCb`) do not.  `AddEpollEvent` is `ADD_TO_EPOLL`: MOD for a
number in `m_listen_fds`, ADD otherwise, and nothing but a log line if the kernel
disagrees.  `ConnectNow/Later/Fails` are `tcp_connect`, which enters `loop()` from
inside a client if none was ever entered; `ConnectedCb` and `RefusedCb` are its
callback, `OnWrite`, `OnRead` the connection's handlers as far as they register.
`CallGone` is a queued callback of an object that no longer exists; nothing after
it is modelled (`broken`).

### TcpBuffer and ServerConnection

A buffer is a record of data and two indices; the operators are the methods of
`tcpBuffer` with their refusals.  The client's stream is a sequence of units: a
request of `FrameLen` units is its start byte, `LengthBytes` bytes of length (zeros and
then the length itself, in network order), the body and its end byte.  An action is
one round of a loop of `on_read`, `excute` or `on_write`.  `DecodeOne` finds the first
frame as `decode` does and moves the read index as `decode` does.  `PbLens` is what is
read as the length behind a start byte, wherever the write index is, since `decode`
tests one of the bytes only: blanks of the vector are zeros; bytes of a length are
those of any request's length, which are all alike; anything else, bytes of a body or
behind the vector, gives any of `StrayLens`.  A length 0 makes `decode` look for the end
byte in front of the start byte (`IsFrame`), find the one of the request before, move the
read index by 0 and start again (`Stuck`).  A frame of a plausible length that does not
hold the body of one request (`HasBodyOf`) is dropped or asks for something no client
sent (`NoRequest`), as its fields may be garbage.  `dropped` remembers that a read filled
the buffer, the case `move_write_index` refuses.

### Server

The main thread's steps are those of `ioThread`'s constructor (`NewThread`,
`WaitInit`), `start` and `on_accept` (`Accept`, `GetIoThread`, `Construct`, `SetCoder`,
`SetState`); the I/O threads' are `Main` up to the loop, then one task of the loop at
a time.  `Construct` posts the registration, so that `Register`, `Poll` and `OnRead`
can come before `SetCoder` and `SetState`.  Fds are counted and never given back, and
`Accept` may fail with fds left, as `accept()` may for other reasons: `on_accept` goes on
with -1 either way.  `SizeFor` is `get_fd_event` with the comparison of -1 as a `size_t`, and an index
beyond the table ends the model in `crashed`.

### AsyncLogger

`push_log` and `sync_loop` share `m_buffer` under `logger::m_mutex`; `push_log_buffer`
and `Loop` share the queue of batches under `asyncLogger::m_mutex`; `sync_loop` holds
its locker over `push_log_buffer`, so the second unlock of the first mutex comes last
of all (`SyncDtor`).  `Wait` gives the mutex back and sleeps in one step, as
`pthread_cond_wait` does; `WakeUnasked` is a spurious wakeup; `Signal` and `SignalAgain`
are the two signals.  `InitCondition` may meet a writer that is waiting already and
make the condition variable forget it.  `ChooseFile` is the choice of the file with
`m_no`, `m_reopen_flag` and `m_no++`, `Write` the loop over the batch.  As in `EventLoop`
and `Timer`, nothing is modelled after two sections have overlapped.

### Protobuf and Messages

protoc's output is one expansion of a class's fields.  A class is two tables: the
types its accessors keep and the tags its parser's `case`s take; the operators are
the statements generated for a field of each type.  A message is the values of its
fields and its unknown fields; a submessage, repeated field or oneof member is the
sequence of what is there.  The classes do not hold themselves: a `SyncPlayers` holds
`Player`s, a `Player` and a `BroadCast` a `Position`, and that is all.  So each operator
is one body (`ParseWith`, `SerializeWith`, ...) with what is called for a submessage as
its parameter, applied three times: `Leaf...` for classes that hold no message,
`Inner...` one level up, and the operator itself.  The wire is a sequence of tagged values, with the size
that stands before a text or submessage; `WireSize` counts its bytes independently
of `ByteSize`, which is `ByteSizeLong`.  `Messages` writes one or two messages behind
each other and reads them as any class, or as the class the registry gives for the
id.

### AoiWorld and GameSync

A cell's list is the set of its entries with their places.  An entry says whether
it shares the count of the program's pointer or has one of its own, as those
`GameRole::init` makes of a bare `this`; `deletes` counts how often a role has been
deleted.  `CellOf` and `LookedAround` are the arithmetic of `AOI.cpp` with its eight
conditions; a cell number outside the vector, or a role used after its deletion,
sets `corrupt`.  In `GameSync` a role's request is built from the world, serialised by
the stub, dispatched by name, answered by a service whose method is implemented or
only generated, and read by `CallMethod`'s callback.

## 3. Runs

| Run | Instance | Question |
|---|---|---|
| `event_loop` | one posting thread, a socket with an error callback, two events per `epoll_wait` | is every closure run once, in order, and in the end; are dispatched events of registered fds; does `stop()` end the loop |
| `event_loop_race` (violation) | the same, no error callback | does the second unlock lose a closure |
| `timer` | the loop's thread and one user, a repeated event of 1 ms and a one-shot of 2 ms | is an event forgotten, woken later than by the arming thread's own delay, run too often; is every pending event collected |
| `rpc_call` | 2 calls on one channel | requests per channel; closure once and truthfully; calls end |
| `client_loop` | 2 clients, 2 fd numbers | does epoll hold what the clients registered; does anybody spin; are connects answered, once |
| `client_connect_done` (violation) | the same | does `done` run after every connect that succeeds |
| `server_connection` | 4 requests of 5 units with lengths of 2, a buffer of 18, replies of 5, one partial write | execution in order and complete; the output buffer holds all replies; is every request answered unless the client closes or `decode` hangs |
| `server_connection_hang` (violation) | 2 requests | does `decode` come to an end when a length is cut |
| `server` | 2 I/O threads, 3 clients, fds for two, accepts that fail, a table of 2 entries | is any client given to an unready thread, read without a coder, outside the table, or not served |
| `async_logger` | 2 producers with 2 and 1 lines, 2 days, files full with one line | does every line get to a file, once, in order; are full files left alone; is a wakeup lost |
| `messages` | every class, 2 accessor calls, 2 messages | is what is read what was written, for readers of the same and of other classes |
| `game_sync` | 2 roles, 3 x 3 cells from row 1, one service, one call | who sees whom; how long do roles live; does the answer tell what the server did |

**Bounds.**  *event_loop*: `MaxQueue` = 1 bounds the queue at the moment of a post by
another thread.  A section reads the queue once, so every interleaving of a push
with a swap and of two pushes occurs with at most one closure waiting;
`MaxEpollEvents` = 2 stands for the ten of the code and shows both a batch and a
full result that leaves an event out.  *timer*: two events are the least of which
one can be earlier than the other; a third adds no new case of `NeedsReset`, which
compares with the first only.  `Grace` = 1 stands for 100 ms.  *rpc_call*: two calls
are the least that overlap; a third meets the same states of channel and
controller.  *client_loop*: two clients and two numbers show a number in use, closed,
reused by another object, and a socket replaced by a new one of a lower number;
`ClientLoopFds` asks for enough numbers for all clients, running out is `Server`'s
question.  *server_connection*: a length of two bytes can be cut once, which is
what the code does not expect; the buffer holds three requests and three units, so a read
can end anywhere in a request, on its border, and on the buffer's end, and a cut second
request stays at its place (`adjust_buffer` moves only what begins in the last two thirds);
the output buffer has to grow for the fourth reply.  `MaxPartial` = 1 because every further
partial write only repeats the prefix once more.  `received` keeps only which replies have come to their end: what the client
gets again in front of them is no question here.  `StrayLens` has a
length that is too short, one that fits and one that does not.  *server*: two threads wrap the
round robin with the third client, which is also the first without an fd; the first
fd is inside the table and the second makes it grow.  *async_logger*: with
`MaxFileSize` = 0 each line fills a file, so three lines reach the second roll-over of
a day, where file 0 must not come a third time; a second day resets the number.
*messages*: two calls are the least that set both a field of a submessage and one
beside it, two members of a oneof, or a field twice; two messages are the least that
merge.  The values are a varint of two bytes, a negative one, an empty text (which a
oneof writes), one that is not UTF-8 and the float whose bits are not zero's though it equals zero.  *game_sync*:
three columns and rows have cells of every kind (corner, edge, middle); the world
begins at row 1, so its last row lies outside the vector, as `add_player` has it;
`MaxPlaces` = 2 lists a role twice, or two in one cell.  `MaxServices` = 1:
the one service of a server is the one that is called or another, is replaced by a
later one, or is missing; a second entry of the map changes no lookup.  Services are
registered before the call, and calls that do not read the world are made while it is
empty; an order's price is one the test's service refuses or one it takes.

**Fairness.** `EventLoop`: a thread inside `add_task` or `stop` goes on (weak), the
loop goes on whenever it is not waiting (weak), `epoll_wait` returns when the
eventfd is signalled or after its 10 s; nothing is assumed of sockets and timers.
Locks are taken in the end (strong fairness), here and in `Timer` and `AsyncLogger`:
the mutex is free again and again, because sections are short and every thread
leaves them, and a pthread mutex wakes its waiters.  `Timer`: time passes, threads
inside the timer go on, the loop calls a ready timerfd back; nobody has to call the
timer.  `RpcCall`: a timer that is due is run by a loop that runs; peer and network
owe nothing.  `ClientLoop`: the loop goes on, callbacks return, a connection attempt
ends one way or the other (the kernel's SYN timeout).  `ServerConnection`: the
acceptor's thread finishes `on_accept`, the loop's thread goes on, and the socket
takes a whole write again and again (strong fairness of `WriteAll`): a client that
reads makes room for it.  `Server`: the main thread and each I/O thread go on; each
loop works its FIFO off.  `AsyncLogger`: the repeated timer calls `sync_loop` for ever
(`Timer`'s `PendingIsCollected`), threads in a function go on; nobody has to log.

**Liveness, read exactly.** `EveryCallSettles` is about calls whose loop runs:
`tcp_connect` starts the loop only for `EINPROGRESS`, so a call that connects or
fails at once on a thread without a loop waits for somebody to start one.  It also
counts a controller that holds an error as settled, since an error reply does not
run the closure (see below).  `ConnectAnswered` is about fd numbers no earlier client had:
`client_connect_done` shows why.  `RequestAnswered` excepts a client that has closed,
a read that filled the buffer, and a `decode` that hangs on a cut length
(`server_connection_hang`); `EveryClientServed` a server whose accept failed; `PendingIsCollected`
is about a wall clock that is not set back.  `EverythingIsWritten` excepts overlapping
sections and a writer that the late initialisation of the condition variable forgot
(see below).

**Deadlock** is not checked: `stop()` ends the loop, and finished calls, closed
connections, idle timers and written logs leave nothing to do.

## 4. Findings

Three runs expect a violation; `PROJECT.json` quotes the comments and README lines
they contradict.

* `event_loop_race`: after the double unlock two sections of the loop's mutex overlap
  and a closure is lost or run twice.
* `server_connection_hang`: a read that ends inside the length of a second request makes
  `decode` loop for ever.  The frame before must be shorter than a third of the buffer.
* `client_connect_done`: a client whose socket gets the number of a closed one is
  never registered with epoll, and `done` does not run though it is connected.

Other divergences are visible in the models and shape what the properties say, but
have no run of their own:

* the wakeup eventfd is emptied by a closure after the swap, so a post in between
  is swallowed and runs only after `epoll_wait`'s timeout (`PostedIsRun` needs
  `EpollTimesOut`, as its mutant shows);
* an error reply, or one that does not parse, cancels the timer and never runs the
  closure, although the test's closure has a branch for failed calls;
* after a read that fills the buffer exactly, which `move_write_index` refuses to count, a
  request may be executed twice: the next read continues over the bytes that were not
  counted, `decode` finds a whole frame behind the remains of two cut ones, moves the read
  index by its length from the old place, and finds the frame again.  It takes five
  requests of 5 units and a buffer of 16, where one pass of `on_read` takes three units and
  the next all the rest (in the code, frames of 40 bytes and 20 bytes first); the
  properties except it by `dropped`;
* the logger's thread may sleep on the condition variable before it is initialised, and
  is then never woken (`forgotten`);
* the first roll-over of a day writes once more to the full file 0, as `m_no++` is the
  number just closed (what `OverfullOnlyFirst` allows);
* after `Reset` of a controller the late reply of its old call runs the closure again;
* `on_write` never moves its read index, so each write sends all earlier replies again;
* an fdEvent's read callback is inherited with the fd number: a client that connects at
  once is registered with the callback of a dead one until it asks for its reply;
* `get_srd_players` leaves out the cells above and below in the left and right
  column, and every cell number ignores `y_begin`;
* `GameRole::init` and `fini` delete roles that others still hold;
* the registry of `GameMsg.proto` stays empty, as no class has the suffixes looked for;
* a request with a text that is not UTF-8 is sent, and refused by every server.

## 5. Proofs

The theorems hold for every value of the constants under the assumptions named in
the modules (`ThreadsAssumption`, `FdsAssumption`, `BoundsAssumption`, `NoTaskIsNoTask`,
`CallsAssumption`, `HandlersAssumption`, `SizesAssumption`, `TimerThreads`, `TimerEvents`,
`ClientLoopFds`, `ServerSizes`, `LoggerThreads`, `LoggerBounds`, `WorldSizes`,
`MessageConstants`, `NamedHaveIds`, `RoleNames`, `NamesDiffer`), which TLC also evaluates in
the runs.  `NamedHaveIds` is about the names of the classes, of which the prover does not
see the letters: those that end in `Ntf`, `Req` or `Ack` have an id.

* `EventLoopProofs`.  The invariants add to the type invariant that the closure a
  thread carries to `add_task` is a real one (`ArgIsTask`); that whoever holds the
  lock is inside its section and, until a race, the only one there, so its copy
  stays the queue; and that undispatched events are of distinct registered fds and
  exist only in the dispatch phase, in which nothing but the loop's own error
  branch deregisters, for the one fd whose last event it has just consumed.  The
  refinement maps `pending` to `batch \o queue`: `Swap` only moves closures from one
  to the other and is a stutter, `Push` is `Post`, `RunTask` is `Run`, and the step in
  which two sections first overlap is `Break`.
* `TimerProofs`.  `NoEventForgotten` is inductive once it is known where the loop's
  thread is in `on_timer` (`LoopPlace`) and that a thread inside an operation carries an
  event (`Placed`).  `WakesInTime` says of the running timerfd that it expires no later than
  an event is due, plus `late`, or within the grace period; `InTime` strengthens it by the
  same of every thread that has read the clock and not set the timerfd yet, with its
  `wait` and `delay`, as long as its event is in the map or on its way into it (`Held`).  `RunsAsAsked` needs that an event is in one
  place only - with a thread that adds it, in the map, or waiting to be added again
  (`HeldOnce`) - that a one-shot has not run while it is in any of them (`OneShot`),
  and that a cancelled event that has had its late run is in no batch
  (`CancelledOnce`).
* `RpcCallProofs`.  `OneRequestPerChannel` is not inductive: it needs that the
  stages a request passes (handler armed, queued, in the out buffer, at the peer,
  answered) are occupied by at most one call (`OneSend`), which in turn needs that
  the socket never is fresh again.  `ClosureOncePerController` and `ClosureSeesOutcome`
  need `SoleTimer` (the channel's timer pointer is that of the only call) and
  `SoleCall` (how timer, cancel flag, replies and runs of the only call go together).
* `ServerConnectionProofs`.  Lemmas give every method of `tcpBuffer` its contract
  (well-formed buffers, what they hold, how their indices move, that
  `write_buffer` always makes room).  `TypeOK /\ InBufferNeverGrows` is inductive:
  `move_write_index` refuses the last index and compaction only lowers it, so
  `on_read` finds room; a frame that was found ends before the write index, so the
  read index cannot pass it.  `ExecutedInOrder` follows from `StreamInv`: until a read
  fills the buffer, the k-th readable unit of `m_in_buffer` is unit
  `FrameLen * Decoded + k` of the client's stream.  The work is in `DecodeOneStream`:
  the read index is then at a start byte; if its length has come, `decode` finds the
  next request there exactly if all of it has come; if the length is cut, what is found
  is no request and the read index stays.
  `PhaseInv` adds that `decode` stops with less than a frame left, which gives
  `NothingLeftBehind`.  `OutInv` is the same for replies: unit i of `m_out_buffer`
  belongs to reply `(i - 1) \div ReplyLen + 1`, whatever growth and `adjust_buffer`
  did to the indices.
* `ClientLoopProofs`.  `WaitsQuietly` and `RegisteredForOwner` rest on who owns what:
  every client that exists has an fd of its own, the one of its fdEvent unless its
  connection was refused (`FdsOwned`); the epoll set is part of `m_listen_fds`, so
  an event is never added where one is (only changed where none is, which fails),
  and holds only fds of clients that connect or are connected (`Registered`); these
  have their own write callback in the fdEvent that earlier clients of the number have
  used too, and their own read callback once they have asked for a reply
  (`CallbacksOwn`).  None of this is
  inductive without `ConnectTasks`: in the round that one `epoll_wait` queued, there
  is at most one connect callback of a client, and while it waits the client stays
  where it is, although callbacks before it may destroy and create others.  With
  it, `ConnectCallbackOnce` follows: a client that was told is past connecting.  A
  pigeonhole argument on `ClientLoopFds` gives every new client an fd.  `TypeOK` is
  proved only: the run checks what it is needed for.
* `ServerProofs`.  `Handshake` says what each semaphore has told the main thread,
  `RoundRobin` that the threads before the index are one client ahead, `FdsCounted`
  that the table is never smaller than two and a client that is not accepted stays at -1, and `ReadWhenReady` that a
  connection is connected only with its coder and read only when connected.
* `AsyncLoggerProofs`.  `FilesInOrder` says that the open file is of the current date,
  that `m_no` is its number or, after a roll-over, one more, and that no later file
  exists; with it `LimitKept` shows that a full file can be chosen again only while
  `m_no` goes from 0 to 1.  `LoggerImplementsLogFile` maps what is accepted to
  `written \o batch \o FlattenSeq(queue) \o moving \o buffer`: `Push` appends a line,
  `Write` moves a whole batch into the files, and every other step only moves the
  borders.  That `Swap` and `Take` are stutters needs `InTransit`: `tmp_vec` and
  `tmp` are empty when they start.
* `GameProofs`, the world.  Arithmetic lemmas (`CellNumber`, `CellsApart`) turn each of the
  eight conditions of `get_srd_players` into a difference of rows and columns, which
  gives `SightIsAdjacent` for every grid.  `ListsInOrder` (a role is listed only in its
  own cell, and with a count of its own only after `init`) makes
  `AddedRolesStayAlive` inductive.  `GameImplementsWorld` shows that calls leave the
  world alone, so that both hold of the game that `game_sync` checks.
* `GameProofs`, messages.  `Formed` says what a message is that a program has built: its
  fields have the shape their type asks for, and it has no unknown fields.  Every
  lemma about a class is proved three times, for the classes without submessages, for
  those with a `Position`, and for `SyncPlayers`, from one step (`...Step`) that assumes
  it of the submessages.  `AnyReads` is the centre: the bytes
  of any formed message, read on top of any other, give what `MergeFrom` makes of the
  two.  Reading is a run with one state for each field of the wire (`ParseIntoRuns`); the
  run over the bytes of `m` has, after the values of the first n fields, merged exactly
  these (`UptoStep`, `RunMerges`), where a repeated field comes one element at a time and
  a oneof clears the others at most once.  `ReadIsWritten` follows with `MsgInv`: the
  bytes on the wire read as `sent`, and what a reader got is what it would get again;
  appending a message keeps that by `ParseJoined`, reading two messages is reading the
  second on top of the first.  `AnyExact` is `SizeIsExact` in the same way, value by value.
* `GameProofs`, other readers.  `UnknownSurvives` compares three runs over the same bytes
  (`SideBySide`): the reader's, that of the writer's class, and one of the writer's class
  that starts from what the reader knows (`Common`) and gets only what the reader did
  not.  The first two agree in the fields both classes have, the last two in the others,
  because two classes share plain values only (`KnownAreScalars`): messages, lists and
  members of a oneof are either known whole or kept whole.  What the reader writes is the
  common part, as the writer's class would write it, with the rest behind
  (`CommonWritten`).  `SurviveInv` adds to `MsgInv` that the wire holds fields of the writer
  only, and that merging messages without bad text leaves none.
* `GameProofs`, calls.  `CallInv` follows a call through its stages: its bytes are those of
  a formed request, of the class the service it names expects (`CallSent`); the server's
  answer is the service's response, or the one of the four errors of `dispatch` that says
  what kept it from running (`WasServed`, `NotServed`).  With `AnyReads` for the request and the response, both
  written and read by different programs, `GetReply` can tell the two apart, which is
  `RepliesAnswerTheCall`.

What the library's `FlattenSeq` computes is proved in `AsyncLoggerProofs`,
`ClientLoopProofs` and `GameProofs` from its definition, a recursive function, by the
least-number principle (`LeastNumber`, from the library's theorems on well-founded
relations): the function exists, is unique on each prefix, and concatenates one sequence at a time.

Only model-checked: the liveness properties (`PostedIsRun`, `StopEndsLoop`,
`EveryCallSettles`, `RequestAnswered`, `PendingIsCollected`, `ConnectAnswered`,
`EveryClientServed`, `EverythingIsWritten`), which are out of TLAPS's reach.

## 6. Not modelled

* `ioThread`'s destructor, `fdEventGroup`'s destructor, `asyncLogger::stop` and `flush`,
  `tcpConnection::shut_down`, `tcpBuffer::read_from_buffer`: nothing in the repository calls
  them before the process ends.  `ioThread::join`, which `test_eventloop.cpp` calls through
  the group: it waits for loops that nobody stops.
* One event added to the timers of two loops, as `test_eventloop.cpp` does with a repeated
  one: `Timer` is one timer, and its events are its own.  A wall clock that is set back.
* The fields inside a frame; lengths that are negative, or over 255 in a buffer of 128;
  payload bytes equal to the start or end byte; write errors other than `EAGAIN`; error
  callbacks of `fdEvent`, which no caller gives.
* A request built for one service and sent under the registered name of another.
* What follows the first race of two sections, a callback of a destroyed client or
  an index out of bounds: undefined behaviour, where the models stop.
* Of the generated code: arenas, swaps, copies of default instances, descriptors and
  reflection, which are memory management and tables; the wire format of malformed
  bytes, which protobuf's own library checks.
* `GenMsgID`: the models use message ids as names; its arithmetic over twenty random
  digits has its one interesting case where all are 9.
* The string coder, configuration, addresses, utilities and run time: conversions
  and values read once.  TinyXML is third-party; the generator fills templates.

## 7. Plan

1. An event shared by the timers of two loops.
2. Payload bytes equal to the start or end byte, in `ServerConnection`.
