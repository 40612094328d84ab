# A verification of librapid

librapid is a small C++ network library: a pool of epoll event loops, a TCP server that spreads
its connections over them, and a TCP client. This directory holds TLA+ models of the server, the
client, a connection's data path, the stateful helpers below them and the logging library that every
class uses (spdlog, which the repository carries with it), the TLC runs that check them, and TLAPS
proofs of what matters most.

## 1. The system

Everything below is under `src/` (`.cpp`) and `include/rapid/core/` (`.h`) of the repository; spdlog is
under `thirdparty/spdlog/include/spdlog/`.

| component | state | operations | meets the others through |
|---|---|---|---|
| `Channel` | `state_` (NEW/ADD/DEL), `channelEvent_`, `events_`, its fd | `enableRead`, `disableAll`, `remove`, `handleEvent`, `weakup`, `send` | calls its loop's poller; the kernel keeps a bare `Channel*` |
| `EPollPoller` | the epoll descriptor, the event array | `updateChannel`, `removeChannel`, `poll` | any thread calls the first two, the loop's thread the third |
| `EventLoop` | `quit_`, the thread, `activeChannels_`, an eventfd | `start`, `stop`, `wakeup`, `waitForEnd` | runs the handlers of its channels |
| `EventLoopPool` | `loops_`, `count_` | `start`, `stop`, `nextLoop` | owned by the server; `nextLoop` is called by two threads |
| `Acceptor` | the listening channel | `listen`, `handleRead` | calls the server's `handleNewConnection` |
| `TcpConnection` | `state_`, channel, buffers, handlers | `connectEstablished`, `connectDestroyed`, `handleRead`, `handleWrite`, `handleClose`, `send` | its loop's thread and `stop()` |
| `TcpServer` | `clients_` under `mutex_`, `acceptor_`, handlers | `start`, `stop`, destructor, `handleNewConnection`, `handleClose` | all of the above |
| `main` | | start, serve, stop | the server |
| `TcpClient`, `Connector` | one connection, one connecting channel | `connect`, `disconnect`, `handleWrite`, `retry` | a loop |
| `InetAddress`, `Buffer`, `unique_handle`/`FileDesc`, `uuid`, `memory`, exceptions, `openssl` | values | conversions, ownership, allocation | used by the rest |
| `Logger` | spdlog's global registry; the sinks | constructor, destructor, `getLogger`, `addFileLogger`, `addConsoleLogger` | any thread |
| spdlog: `registry`, `periodic_worker` | the loggers by name, `tp_`, the flusher's `active_` | `get`, `register_logger`, `flush_all`, `shutdown` | owns the pool; the flusher is a thread of its own |
| spdlog: `async_logger`, `thread_pool` | a weak pointer to the pool; the workers | `log`, `flush`, `post_log`, `post_flush`, `worker_loop_`, destructor | callers post, workers take |
| spdlog: `mpmc_blocking_queue`, `circular_q` | a ring, a mutex, two condition variables | `enqueue`, `enqueue_nowait`, `dequeue_for` | between callers and workers |
| spdlog: `rotating_file_sink`, `daily_file_sink`, `basic_file_sink`, `file_helper` | a stream, a file name, a size or a time | `sink_it_`, `rotate_`, `open`, `write` | workers call them under a mutex |
| spdlog: `pattern_formatter`, `ansicolor_sink` | the compiled flags, the cached time | `format`, `log` | one formatter per sink |
| spdlog: `fmt` | the parser's position, the next argument, a growing buffer | `format_to` | `logger::log` |

What is hard here: each connection is touched by up to three threads. The accepting loop sets it
up while holding `mutex_`; the loop it belongs to can see its peer close as soon as
`EPOLL_CTL_ADD` has been made; `stop()` closes every client from the main thread. `Channel::state_`
is a plain byte that all three read before and write after a system call. The kernel hands out
bare pointers to objects that `clients_` owns. Any `epoll_ctl` may fail and throws; so may the
program's handlers; a loop swallows exceptions and goes on, `main` catches them, a destructor
does not.

Logging has three difficulties of its own. The pool of workers belongs to whoever holds a shared
pointer to it, also for the length of one log call, so that `shutdown` may leave its destructor, with
the joining of the workers in it, to a thread that only wanted to log. Callers wait for room while
workers wait for messages, each woken one at a time and outside the lock, and the flusher waits for
room with two mutexes in hand that `shutdown` wants. And the rotating sink removes and renames files one by
one while any of these operations may fail and the process may die in between.

What makes the parts correct:

* poller and loop: a ready channel is eventually handled; a loop that is told to stop stops;
* pool: no loop is destroyed before its thread has ended;
* connection: every byte the peer sends reaches `onMessage`, in order, before the close;
* client: a connecting descriptor is always owned by one object, and reaches the connection;
* server: a connection known to the kernel, or in a batch of events, is owned by `clients_`;
  a connection is closed once; a connection whose peer is gone is dropped; `stop()` returns, and
  then nothing runs;
* descriptors: a handle never closes a number that is another handle's;
* uuid: the parser stays in its array; printing gives back what was parsed;
* logger: everybody who asks for a name gets the same logger;
* asynchronous logging: nobody uses a pool that is gone; a message that was posted is written once,
  also during shutdown; shutdown and every blocked call end;
* queue: a bounded first-in first-out queue;
* file sinks: the files hold the end of what was logged, in order and within their size;
* formatting: text is copied as it is, a number stands for its argument, a message carries its own time.

## 2. The modules

| module | models | lines of code |
|---|---|---|
| `Channel` | `Channel`; `EPollPoller::updateChannel`, `removeChannel`, `update`; the kernel's interest list | `channel.h`, `channel.cpp`, `epollpoller.cpp:17-33,61-69` |
| `EventLoop` | the loop's thread and `EPollPoller::poll` | `eventloop.cpp`, `epollpoller.cpp:35-59` |
| `EventLoopPool` | the pool's `start`, `stop`, `nextLoop`, step by step | `eventlooppool.cpp`, `eventlooppool.h` |
| `PoolSystem` | the pool, closed with channels that become ready at any time | as above |
| `TcpServer` | `TcpServer`, `Acceptor`, `TcpConnection` and a program like `main.cpp`, on the pool | `tcpserver.cpp`, `acceptor.cpp`, `tcpconnection.cpp`, `main.cpp` |
| `ClientTable` | what `TcpServer` promises its program about connections (abstract) | |
| `TcpServerInvariant` | the inductive invariants `IInv` and `CloseInv` | |
| `TcpClient` | `TcpClient`, `Connector`, `TcpConnection` as the client uses it, a program that connects and disconnects | `tcpclient.cpp`, `connector.cpp`, `tcpconnection.cpp` |
| `DataPath` | one connection's bytes: `Channel::handleEvent`, `read`, `send`, `TcpConnection::handleRead`, and the handlers `main` assigns | `channel.h`, `channel.cpp`, `tcpconnection.cpp`, `main.cpp` |
| `FileDesc` | `unique_handle` and `FileDesc` on a kernel that reuses numbers | `unique_handle.h`, `file_desc.h` |
| `Uuid` | `parse_uuid_string` and `operator<<` | `uuid.cpp` |
| `Logger` | `Logger::getLogger` from several threads | `logger.cpp` |
| `BoundedFifo` | what a bounded queue promises (abstract) | |
| `CircularQueue` | `circular_q` | `circular_q.h` |
| `AsyncLog` | callers, workers, the flusher and `shutdown` around the queue of the pool | `mpmc_blocking_q.h`, `thread_pool.h`, `async_logger_impl.h`, `periodic_worker.h`, `registry.h`, `logger_impl.h`, `logger.cpp` |
| `FileSinks` | the three file sinks on a file system that fails | `rotating_file_sink.h`, `daily_file_sink.h`, `basic_file_sink.h`, `base_sink.h`, `file_helper.h` |
| `MemoryBuffer` | `basic_memory_buffer` | `format.h`, `core.h` |
| `Fmt` | `fmt::format_to` | `format.h`, `core.h`, `format-inl.h` |
| `LogText` | a message on its way from the call through the queue to the formatters and the colour sink | `pattern_formatter.h`, `fmt_helper.h`, `os.h`, `ansicolor_sink.h`, `logger_impl.h`, `thread_pool.h` |
| `TcpServerProofs`, `TcpClientProofs`, `DataPathProofs`, `FileDescProofs`, `UuidProofs`, `LoggerProofs`, `AsyncLogProofs`, `FileSinksProofs` | the proofs | |
| `MC*` | instances for TLC | |

`EventLoop` EXTENDS `Channel`, `EventLoopPool` EXTENDS `EventLoop`, and `PoolSystem` and `TcpServer`
are two closed systems on the pool; `TcpServer` maps `clients_` and the calls of `onClose` to `ClientTable`
with INSTANCE. `TcpClient` EXTENDS `EventLoop`; `DataPath` EXTENDS `Channel`.
`AsyncLog` EXTENDS `CircularQueue` and maps its queue to `BoundedFifo` with INSTANCE; `LogText` EXTENDS
`Fmt`, which EXTENDS `MemoryBuffer`. `FileDesc`, `Uuid`, `Logger` and `FileSinks` stand alone. Sections "Threads and steps" to "The end of the world" are about the
server; the paragraphs after them about the rest.

**Threads and steps.** A thread is a loop's number or `Main`; `pc[t]` says where it is. One step is
one system call, one access to state that another thread can reach, or one handler of the program,
together with the thread-local code around it. `updateChannel` is therefore three steps: `AskFor`
(assign `channelEvent_`, read `state_`, and be committed to ADD or MOD, `UpdateOpt`), `epoll_ctl`
(`CtlSucceeds` or `CtlThrows`) and `SetStateAdd`. The labels `cl_*` are the steps of
`TcpConnection::handleClose` with `TcpServer::handleClose` inside it, `acc_*` those of
`handleNewConnection`, `st_*` those of `stop()`; `quitting`, `waking`, `joining`, `cleared` are
`EventLoopPool::stop`.

**Exceptions.** `Throw(t)` is an exception leaving the handler, or `stop()`, that thread `t` runs:
the `lock_guard` releases `mutex_`; a loop goes on with the next channel of its batch
(`eventloop.cpp:40-50`); the main thread goes to `threw`, where `main`'s handlers catch it, or
terminates the program if it was in `~TcpServer`.

**Data.** A connection is a model value and is never reused; its uuid is itself. A message is
whether there is unread data. Event masks are sets of flags. `count_` wraps at `CountModulus`
(2^32 in the code) and starts anywhere, since nothing initializes it. `quit_`, `wakeups`, `active`,
`events`, `capacity` are the loop's fields; `wakeups` never becomes false again, since nothing
reads the eventfd. `EPOLLHUP` and `EPOLLERR` are reported whether asked for or not; a peer that
closed is readable for good; a reset is reported by one failing `read` and hangs up.

**The kernel and the peers** (`Dial`, `PeerSend`, `PeerClose`, `PeerReset`, `EpollAccepts`,
`Reported`, `Conditions`, `Ready`) are external: they are modelled from what the code calls.

**The end of the world.** `fate` records what ended the process: `std::terminate`, a use of a
destroyed loop (`CloseDangling`), or `nextLoop()` on an empty pool (`Restart`). The model stops
there, since the code's behaviour is undefined from then on.

**The client.** The user's thread (`Main`) connects and disconnects, one loop's thread runs
handlers; nothing is locked. `object` says which Channels exist. `state_` starts with any value,
since no constructor assigns it. `::connect` returning 0 is what the code needs to go on: a
non-blocking connect to a remote host gives EINPROGRESS, which `connector.cpp:27` turns into an
exception in front of the case that handles it (`ConnectFails`; the constructor of `InetAddress`
used here leaves the address family and length unset, another way to fail). After a retry `state_` is
Disconnected, so the new channel is ignored for good and the loop spins on a writable descriptor.
EPOLLHUP without EPOLLIN on the connector's channel meets a `closeHandler_` that was never set
(fate `null`). The statements after `connectDestroyed()` in `TcpClient::handleClose` are never
reached, because it throws. A call of `connect()` that throws before it changes anything is left out.

**The data path.** One accepted connection; the peer's n-th byte is the number n, so that order,
loss and repetition are visible. `assigned` and `writing` follow `main` assigning the handlers after
`start()`: a connection accepted early gets none, and one accepted while the assignment runs may
copy half of it (fate `torn`). `buffer` is `read_buffer_`, which a throwing `onMessage` leaves full.
`out` is the socket's send buffer. `handleWrite` never runs, since nothing asks for EPOLLOUT. On a
TCP socket registered for reading EPOLLHUP always comes with EPOLLIN, and Linux keeps what was
received before a reset readable.

**Descriptors.** One step is one system call or one assignment of `value_`, so that another thread
can be given a number between its close and the assignment. The public `close()`, which is used by
the class only, is not an operation of its own.

**uuid.** A character is its code; a step is one turn of the parser's loop. `newUUID` (random bytes)
and `hash` are not modelled.

**Logger.** `spdlog::get` and registration are external: one atomic step each, and registering a
name that exists throws.

**Asynchronous logging.** A step is one critical section of a mutex, one notification, or one atomic
operation on a reference count. `owners` is who holds a shared pointer to the pool: the registry, and each
thread between `thread_pool_.lock()` and the end of its scope (`LockPool`, `Release`); whoever leaves it
empty runs `~thread_pool` (`PostTerminate`, `JoinWorkers`). `EnqueueWaits` and `DequeueWaits` are the two
waits, `NotifyPush` and `NotifyPop` the notifications, which wake one waiter if there is one and are
otherwise lost; a wait may also end by itself (`SpuriousWakeup`) or by its timeout (`Timeout`). A sink
takes a message if its level allows, and may throw, which takes the message from the sinks after it and
calls the error handler. `posted`, `dropped`, `written` and `failed` are history. Left out: the rate
limit of the error handler, and the setters of levels and patterns for all loggers.

**File sinks.** A call is a sequence of steps, one for each operation on the file system, and every one
may fail (`RemoveFails`, `RenameFails`, `ReopenFails`, a `Write` of fewer bytes); `Die` and `Start` are a
process that ends between any two of them and comes back to the files as they are. `file_helper::open`'s
five tries and `rename`'s two are one step that succeeds or fails. A file holds parts of messages,
each with its message's number and time, and the length that the file system keeps and `file_helper::size`
asks for. `accepted` is the history of what was written. That the files are its end is said by cuts: file n
holds what lies between the (n+1)-th cut and the n-th, and the 0-th cut is the end. The clock of the daily sink counts in units of which `Day` make a
day; a message may be up to `MaxDelay` under way. What stdio buffers is taken to be in the file;
`fclose` and `fflush` return nothing that the code looks at.

**Text.** A string is a sequence of one-character strings, and a name in a log line (of a day, a level, a
logger) is one item. `Fmt` is a state machine, one step for each turn of the loop of `parse_format_string`; what
a replacement field does is a function of its state. The words of the machine are small (`MaxInt`, `MaxLong`),
so that overflow of widths and argument numbers happens. `snprintf` is a parameter: the digits of floating
point numbers are external, their sign, their padding and the buffer they grow are not. `LogText` moves
the text through the buffers of the call, of a slot of the queue and of the worker, and gives it to two
formatters that each keep the time of their last message; times go forward and back.

## 3. The runs

| run | module, cfg | checks |
|---|---|---|
| `pool` | `MCPoolSystem`, `PoolSystem.cfg` | `StopCompletes`, `ReadyIsHandled` |
| `server_safety` | `MCTcpServer`, `ServerSafety.cfg` | `RegisteredClient`, `DispatchedIsAlive`, `NoDeafConnection`, `KeepsItsPromise` |
| `server_liveness` | `MCTcpServer`, `ServerLiveness.cfg` | `PeerCloseReaped`, `IdleStopReturns` |
| `stop_returns` | `MCTcpServer`, `StopReturns.cfg` | `StopReturns`, violated |
| `client` | `MCTcpClient`, `Client.cfg` | `RegisteredIsAlive`, `OnlyDisconnectDangles`, `SocketIsOwned`, `ConnectCompletes`, `PeerCloseNoticed` |
| `data` | `MCDataPath`, `Data.cfg` | `EachByteOnce`, `DrainedBeforeClose`, `DataHandled` |
| `file_desc` | `MCFileDesc`, `FileDesc.cfg` | `OwnedIsOpen`, `OneOwner`, `NoLeak` |
| `uuid_parse` | `MCUuid`, `UuidParse.cfg` | `RoundTrip`, `AcceptsExactly` |
| `logger` | `MCLogger`, `Logger.cfg` | `OneLogger`, `FailsOnce` |
| `logging` | `MCAsyncLog`, `Logging.cfg` | `PoolOutlivesItsUsers`, `RemainingLogged`, `WrittenOnce`, `NoLostWakeup`, `FifoQueue`, `ShutdownCompletes`, `CallsReturn` |
| `file_sink` | `MCFileSinks`, `FileSinks.cfg` | `NoWriteToNull`, `FilesAreTheEnd`, `FilesAreBounded`, `OnlyFaultsLose`, `AtMostADayOff` |
| `text` | `MCLogText`, `Text.cfg` | `FormatIsEchoed`, `NumbersAreWellWritten`, `SpecsAreUnderstood`, `TimeIsItsOwn`, `ColorIsMarked` |

**pool** shows that `stop()` returns wherever the loops are when it comes (at the test of `quit_`,
in `epoll_wait`, in a batch, not even started), and that no ready channel starves when `epoll_wait` can return fewer events than there are.

**server_safety** shows, with two connections that may share a loop or not:
the kernel's pointers and every batch point at connections that `clients_` owns
(`RegisteredClient`, `DispatchedIsAlive`): the destructor of a `TcpConnection` never runs under a
loop's feet; no close that is cut short by an exception leaves a connection registered for nothing
(`NoDeafConnection`); and every step is one that `ClientTable` allows (`KeepsItsPromise`). Its program is
told of a connection that enters the table, one at a time; while the server serves, `onClose` comes at most
once for each, in spite of the race on `state_`: a loop that loses the race gets EEXIST, throws, and closes
the connection at its next poll; no connection leaves the table before its `onClose`, or while any
connection is being set up; and none comes back. `onClose` may come while `onConnected` still runs for the
same connection, on another loop's thread: `ClientTable` allows it, because the code does.

**server_liveness** shows that this retry does happen: a registered connection whose peer is gone
leaves `clients_` (`PeerCloseReaped`), and that a `stop()` that finds no client returns
(`IdleStopReturns`).

**client** shows that the kernel keeps no pointer to a destroyed Channel (`RegisteredIsAlive`), that
every open socket has an owner, a Channel or the thread that carries it from one to the next (`SocketIsOwned`), and that a destroyed Channel is used only if the program called
`disconnect()` while the attempt was under way (`OnlyDisconnectDangles`). If `state_` says Connecting
when the descriptor becomes writable, the connection is made (`ConnectCompletes`), and one whose peer
is gone is taken off the loop (`PeerCloseNoticed`).

**data** shows that every byte reaches a call of `onMessage` that returns exactly once and in order,
although a call that throws leaves the buffer full (`EachByteOnce`), that a connection is closed only
after all that was received has been read (`DrainedBeforeClose`), and that what is sent to a
connection with a handler is consumed (`DataHandled`).

**file_desc** shows that a handle that has a value has an open descriptor of its own, and that no
descriptor is left without an owner. **uuid_parse** shows that a UUID survives parsing and printing, and which strings exactly are accepted
(`AcceptsExactly`, against a definition that does not mention the loop): more than UUIDs, since
dashes may stand in place of a pair of digits, and the bytes that are missing then are zero.
**logger** shows that no two callers hold different loggers for a name, and that an exception for a name
comes only from a lost race: the loser's next call succeeds.

**logging** shows that a thread that uses the pool keeps it alive or is destroying it, and that the pool
is gone only when all its workers have ended (`PoolOutlivesItsUsers`); that after the pool is gone every
message posted has been given to every sink of its level, unless an overrun gave it up or a sink threw
(`RemainingLogged`, what `thread_pool.h` says of its destructor); that no sink writes a message twice
(`WrittenOnce`); that the ring implements `BoundedFifo` (`FifoQueue`); that no notification is lost
(`NoLostWakeup`), although each comes after the mutex has been given up and wakes one thread at most: while
somebody waits, every free slot and every message is matched by somebody awake who will push, pop or notify;
and that this is enough: a shutdown that has begun ends, although the flusher or a caller may be waiting for room, and a call that
waits for room returns (`ShutdownCompletes`, `CallsReturn`).

**file_sink** shows that, however rotations fail or are cut short, the files of the rotating sink from the
oldest to the newest are the end of what was written, without holes (`FilesAreTheEnd`), that none grows
past `max_size_` unless it is one message that does (`FilesAreBounded`), that the rotating and the basic
sink never write to a stream that is not open (`NoWriteToNull`), that a message is lost only to a failure
in its own call (`OnlyFaultsLose`), and that the daily sink, which computes its next rotation from the clock
and not from the message, puts a message into the file of a neighbouring day at worst (`AtMostADayOff`).
The daily sink is not part of `NoWriteToNull`: when it cannot open the file of the new day it keeps a
null stream, and does not open it again for a message older than the rotation (reachable: `WriteToNull`).

**text** shows that what stands between the replacement fields is copied with each doubled brace halved
and nothing else changed (`FormatIsEchoed`), that a number, the smallest of its type too, is written as
a numeral that stands for it, with the sign, prefix, separators and padding its specification asks for
(`NumbersAreWellWritten`), that a format printed from a specification is parsed back to it and finds its
argument also beyond `max_packed_args` (`SpecsAreUnderstood`), that each message is printed with its own
time and text in spite of the cached time and of the buffers it is copied and moved through
(`TimeIsItsOwn`), and that the part in colour is the one the pattern marks (`ColorIsMarked`).

**The violation.** `stop()` deadlocks with itself as soon as there is a client; PROJECT.json quotes what
`main` says after it.

Other outcomes that a reader of the code would not expect are reachable in the models and have no run:

* if a client is just being closed by its loop, `stop()` throws instead and leaves every loop running;
* a connection accepted while `stop()` stops the loops is closed by the destructor through a destroyed
  loop (`fate = "dangling_loop"` in `TcpServer`);
* `stop()` and a connection's loop can both call `onClose` (`notified[c] = 2`, after `stop()` has begun);
* a stopped server that is started again divides by zero (`Restart`);
* `TcpClient::handleClose` closes the connection from inside its own close, which throws, so that the
  program never hears of it; `disconnect()` can destroy the Channel whose handler runs (`fate =
  "dangling"` in `TcpClient`);
* a response that does not fit into the send buffer is cut short and the next follows it on the wire;
* two workers, which librapid makes, may write two messages of one thread in the other order, and a flush may
  overtake a message posted before it;
* a logger that overruns gives up the oldest message of the pool, also one of a logger that blocks;
* `async_logger.h:18` says that a call on a pool that is gone throws; the exception ends in the logger's
  error handler;
* `pattern_formatter` prints `%%` as two signs, noon and midnight of the 12-hour clock as 12 and 0, the
  name "Sept", and `nan` and `inf` with the default alignment on the left; a first message in second 0 of
  the epoch gets a zero time.

**Bounds.** Two loops: the accepting loop, and one that is or is not the connection's own; `count_`
wraps at 2 and starts at 0 or 1, so that the listener and the connections fall on the same and on
different loops. Two connections in `server_safety`: one being closed while another is accepted or
is in the same batch; a third only repeats these. One in the others. `InitEvents` is 1 in `pool`, so
that the array fills up and doubles, and 4 in the server's runs, where it never does. Connections are
symmetric. `notified` is the only counter, and grows at most with the number of closes.
`CloseHandlerThrows` is TRUE where safety is checked.
`client`: two Channels are all that one connect with one retry can make; `EventLoop`'s array holds two,
so it never grows. `data`: three bytes (`MaxSent`) at two per read (`ReadSize`), so that one read is
full and the next is not; responses of two bytes (`ResponseSize`) into a send buffer of three
(`SendBuffer`), so that the second is cut; one exception of `onMessage` (`threw`). `file_desc`: four
handles on three numbers (`MaxFds`): the table fills up and every number comes back. `uuid_parse`: all
strings that differ from one UUID in two of the positions at the ends of groups (with characters just
inside and outside the digits' ranges), in any of its dashes, or in length. `logger`: three threads, so
that two can lose, and two names. Handles, threads and names are symmetric.
`logging`: a queue of two (`MaxItems`), so that the terminate messages of two workers alone fill it; one
caller with two calls (`MaxCalls`) through a logger that blocks and one that overruns, one turn of the
flusher (`MaxTicks`) over both: with `shutdown` three threads wait for room at once, and any of them may
be the last owner. Two sinks, so that one may write and the next throw. The model values are few and
differ in their roles, so there is no symmetry. `file_sink`: two old files (`MaxFiles`), a limit of
2 and messages of 1 and 3, so that two fit, a third rotates and a long one never fits; five messages
(`MaxMessages`), enough for a rotation that pushes a file out after one that failed; days of two units and a
clock up to 7, four days; a delay of one, half a day. `text`: integers of 6 and 30 bits; inline buffers
of 5 and of 3 characters, which the texts overrun; all strings of up to five of the characters that mean
something to the parser and, separately, to the pattern; all specifications of up to three characters
for each type of argument; every combination of fill, alignment, sign, base and width for the ends of
the types; 13 to 17 arguments around the 15 packed ones; three messages in a row at times on both sides of a change
of the local offset.

**Deadlock** is checked in `client`, `data`, `file_desc`, `uuid_parse`, `logger`, `logging`, `file_sink` and
`text`, where an explicit action stands for a process, a parse or a shutdown that has ended, or there
always is a next step. It is not checked in the server's and the pool's runs: a destroyed server has nothing left
to do, and a `stop()` that waits for its own mutex is the subject of `stop_returns`.

**Fairness.** Each thread is weakly fair: the operating system schedules it, and a free mutex is not
refused for good; a thread that waits for `mutex_` is passed by finitely many others, since each
connection is accepted and erased once, so weak fairness is enough. `epoll_wait` is strongly fair
against its own interruption: a signal may interrupt it, but not every time. The client's two threads
are fair in the same way, and the owner of the loop starts it. In `DataPath` the loop's thread is
weakly fair, which includes that the program's handler returns or throws. Peers and the program's
decision to stop have no fairness. In `AsyncLog` each thread that is in a call, each worker, the flusher and
the rest of a shutdown that has begun are weakly fair. Nobody is obliged to call, no wait has to time
out, no spurious wakeup has to happen and the flusher's interval need not end, so that progress rests on the
notifications alone. A mutex that is taken and given back in one step is never refused for good, since
the calls are finitely many. `FileSinks` and `LogText` have no liveness properties.

**Mutants.** Every property has a mutant, an operator next to the one it replaces, that is a
plausible slip in that code (a forgotten wakeup, an insert without the lock, a close that does not
remove); TLC finds the property violated with it.

## 4. The proofs

Each theorem holds for every value of the constants, from the named assumptions alone.

### The server

`TcpServerProofs` proves, for any number of loops and any set of connections, from
`LoopAssumption`, `CountAssumption` and `ServerAssumption` (there is a loop; names are distinct):

* `Inductive`: `Spec => []IInv`;
* `TypeCorrect`, `KernelHoldsClients`, `NoUseAfterErase`, `JoinBeforeClear`:
  `Spec => []TypeOK`, `[]RegisteredClient`, `[]DispatchedIsAlive`, and `[]NoLoopOutlivesPool` (no
  loop is destroyed before its thread has ended);
* `ClosingIsSound`: `Spec => []CloseInv`, and from it `NoConnectionIsDeaf` (`[]NoDeafConnection`);
* `ServerKeepsItsPromise`: `Spec => KeepsItsPromise`, the refinement of `ClientTable`;
* `RoundRobin` and `NeighboursDiffer`, about `nextLoop()` alone: of as many connections in a row as there are
  loops each loop gets one, while `count_` does not wrap; two in a row fall on one loop only at a wrap,
  and only if its modulus leaves 1 (2^32 does with three loops). Both rest on `LoopAdvances`.

**The argument.** `RegisteredClient` alone is not inductive: an erase keeps it only if the connection
has been removed from epoll and nobody is about to add it back. `IInv` says who could:

* `CurOK`: a thread has a current connection exactly while it is in a connection's method;
* `MutexOK`: who holds `mutex_` at which label, so the accepting thread and `stop()` exclude each
  other, and an erase (which needs `mutex_` free) excludes both;
* `FreshOK`: before its ADD a connection is known to the accepting thread alone, not to another
  thread, a batch or the kernel;
* `OwnerOK`: only a connection's own loop reads or closes it, apart from `stop()`, and it is then
  in no batch; all these are in `clients_`;
* `RemovedOK`: after a loop's `remove()` the connection is not registered, unless `stop()`, inside
  handleClose for the same connection, has just added it back, in which case the mutex keeps the
  loop from erasing it;
* `JoinOK`: which loops have not been started and which have been joined.

Each part has its own preservation lemma; what one step does to a shared variable is stated once
(`Registrations`, `Membership`, `PeerMoves`, `CurMoves`, `BatchMoves`, `SetupMoves`) and cited.

`CloseInv` stands on `IInv` and is about the two ways in which a close can go wrong. A connection is
deaf if it is registered with no event asked for. The only thing that asks for nothing is
`disableAll()`, whose mask reaches the kernel by an ADD or a MOD just before the `remove()`;
`NoDeafConnection` therefore needs that the ADD of `enableRead()`
still finds the READ it asked for (`AskOK`), which holds because until then nobody else knows the
connection (`FreshOK`). `onClose` comes once because its thread has removed the connection before: `OnceOK` says that
when it has been called nobody is left who could call it again, as long as `stop()` has not been
called: the kernel has forgotten the connection, no batch holds it, and no thread is on its way through
`handleClose`. `ToldOK` says that `onClose` has been called for whoever is about to be erased, and not for a
connection that is about to be inserted. `StopForGood` says that a `stop()` that has been called stays called, so that the hypothesis
of `OnceOK` cannot come back.

The refinement maps the table to `clients_`, what is being set up to the connections of the threads between
the insert and the end of `onConnected` (`SettingUp`), and the history of `onClose` to `notified`. `OneSetup`
says that whoever finds `mutex_` free finds nobody there, `SameSetup` that only the accepting threads change
it; `PromiseLoop` and `PromiseClose` then take the steps of accepting and of closing one by one, and every
other step changes nothing there but `stopping`.

### The client

`TcpClientProofs`, from `LoopAssumption` and `ClientAssumption` (one loop, which is what the constructor of
`TcpClient` is given; a null pointer is no Channel), for any set of Channels: `ClientIsSound` (`[]ClientInv`),
`KernelHoldsLiveChannels` (`[]RegisteredIsAlive`), `StateRaceIsHarmless` (`[]OnlyDisconnectDangles`) and
`NoDescriptorIsLost` (`[]SocketIsOwned`). The three hold only together, and with:

* `BusyOK`, `MadeOK`, `MethodOK`: which Channel a thread works on, and at which label;
* `OwnedOK`: what `channel_` and the connection own exists, and is not the same object;
* `ConnectOK`: until `connecting()` has written `state_`, the Channel is new, and no other thread is
  connecting it;
* `WriteOK`: the Channel in `handleWrite` has left the batch, and after the choice between
  ADD and MOD nobody is still connecting it: this is where the race for `state_` is decided, since a
  `disableAll()` that comes before `connecting()` has written it makes a second ADD, gets EEXIST and throws;
* `HeldOK`: without a `disconnect()`, what a thread or a batch holds is alive.

### The data path

`DataPathProofs`, from `DataAssumption` (a read and a response take at least one byte), for any
number of bytes: `DataInductive` (`[]DataInv`), `BytesOnceInOrder` (`[]EachByteOnce`) and
`NothingLostAtClose` (`[]DrainedBeforeClose`). `EachByteOnce` is not inductive: `Stream` says that
what was consumed, the buffer and what is unread are consecutive numbers up to the last byte sent;
`BufferOK` when the buffer holds something outside `handleRead`; `MaskOK` and `CloseOK` tie the
registration and the events in hand to the labels at which the loop closes; `AcceptOK` keeps all of
it empty before the connection exists.

### Descriptors, uuid, logger

* `FileDescProofs`, from `FdAssumption`, for any set of handles and table size: `NoForeignClose`
  (`[]OwnedIsOpen`), `UniqueOwner` (`[]OneOwner`), `EveryFdOwned` (`[]NoLeak`). The three hold
  only together (`FdInv`): a close keeps another handle's number open because the two differ.
* `UuidProofs`, from `InputAssumption` (inputs are sequences of integers), for any set of strings:
  `ParseInductive` and `ParserInBounds` (`[]InBounds`). `j` is never compared with anything; it stays
  in the array because `i` is ahead of `2j` by the number of fixed dashes it has passed, and a pair
  of digits cannot contain one of them.
  `ParserAcceptsExactly` (`[]AcceptsExactly`) rests on `AcceptInv`: the part of the string that `i` has
  passed is lenient so far, that is, the runs between dashes that have ended are even and `i` is an even
  number of characters into its own, so that the parser can fail only on a string that is not lenient.
  `UuidRoundTrip` (`[]RoundTrip`) rests on `PrintInv`: on a UUID the parser stands at the pair of byte `j`
  or at the dash in front of it, and has read the bytes before `j`; what `operator<<` prints is then taken
  apart at the fixed places of its dashes and compared piece by piece. The length of a UUID is fixed, so
  neither needs induction over strings.
* `LoggerProofs`, from `NilAssumption`, for any threads and names: `SameLogger` (`[]OneLogger`) and
  `RetrySucceeds` (`[]FailsOnce`) and `LosersHaveWinner` (`[]SomebodyWon`). The strengthening is
  `Contested`: a registered logger has its own name, and nobody is about to register a name that it
  has registered itself.

### Asynchronous logging

`AsyncLogProofs`, from `ThreadsAssumption` (roles are distinct, callers finitely many), `WorkersAssumption` (finitely many
workers, at least one), `BoundsAssumption`, `LevelsAssumption` and `MaxItemsAssumption` (room for one item), for
any callers, workers, loggers, sinks and room of the queue:

* `AsyncTypes`: `Spec => []TypeInv`, the types with `QueueOK` (what is in the ring and what is being
  posted are messages) and `HandOK` (what a worker holds suits its label);
* `QueueIsFifo`: `Spec => FifoQueue`. The ring as a sequence is `Contents`; `PushAppends` and
  `PopTakesFirst` say once what `push_back` and `pop_front` do to it, wherever head and tail are, and each
  step of `AsyncLog` is then one of `BoundedFifo` or leaves the contents alone;
* `PoolIsAlive`: `Spec => []PoolOutlivesItsUsers`, from `OwnersOK`: who owns the pool at which label, and
  only one thread runs the destructor, after `owners` has become empty for good;
* `AllIsLogged`: `Spec => []RemainingLogged`. `LastOK` says that behind a terminate message there are only
  others, because whoever posts anything else owns the pool and the destructor has not begun;
  `NothingLost` says where each posted message is. When the pool is gone a worker has taken a terminate
  message, so nothing but terminate messages can be in the queue or in a hand;
* `NothingTwice`: `Spec => []WrittenOnce`, from `CountedOK` (the n-th call posts the n-th message, so no
  message is posted twice) and `OnePlace` (a message is in one place of the queue or in one hand, and is
  unwritten there);
* `WakeupsSuffice`: `Spec => []NoLostWakeup`. Its two parts are inductive, but for `FullBlocks` (only a blocking
  post waits for room). They count: a worker that takes a message frees a slot and becomes one that will
  notify; the notification takes it away and makes a waiting thread one that will push, who takes the slot;
  and the other way round for messages. `OneFewer` and `OneMore` say what a step of one thread does to the
  size of such a set. That everybody who waits is served in the end needs fairness and stays with TLC;
* `NobodyIsForgotten`: `Spec => []EveryWorkerIsTold`: when the destructor goes on to join the workers, as many
  terminate messages are in the queue as there are workers that have not taken one. By `TermsAreKept` the
  messages still to be taken are the last ones of the queue, and together with the workers that have one and the
  one being posted they are `term`; nobody overruns one, because a thread that posts anything else owns
  the pool (`OwnersOK`). With `WakeupsSuffice` this is what `ShutdownCompletes` needs besides fairness. (No
  run checks it, since it adds nothing to `ShutdownCompletes` on an instance.)

`Effects` states once that only four actions touch what the messages are kept in, so that each
of `LastOK`, `NothingLost` and `OnePlace` is proved over four cases and not over all of `Next`; `CalmStep` does the
same for the notifications, and `TermMoves` for the terminate messages.

### File sinks

`FileSinksProofs`, from `SinkAssumption` (messages are not empty; delays are shorter than a day) and
`NilAssumption`, for every limit, number of files, message length and number of messages:
`SinkIsSound` (`[]SinkInv`), `SinksWriteToOpenFiles` (`[]NoWriteToNull`), `RotationKeepsTheEnd`
(`[]FilesAreTheEnd`), `RotatedFilesAreBounded` (`[]FilesAreBounded`), `CleanCallsWrite`
(`[]OnlyFaultsLose`) and `DailyFilesAreDated` (`[]AtMostADayOff`). What has to be added to these:

* `FreeOK`: half way through a rotation the next `rename` has a free target. The cuts of `FilesAreTheEnd` then
  move with the files: a rename leaves the contents alone and shifts one cut, the removal of the
  oldest file (or its truncation, if `max_files_` is 0) moves the last cut up, a write moves the end;
* `OpenOK`: at which steps a file is open. A rotating sink without a file remembers a
  `current_size_` above the limit, so that the next message rotates, and opens, before it writes. This is why
  a failed rotation is made good by the next call;
* `SizeOK`: `current_size_` is never less than the length of the file, also after a write
  that failed in part, and a message about to be written fits or is the first;
* `LossOK`: a call in which nothing failed ends with its message as the last one accepted;
* `DayOK`: the file that is open is not of a day to come, and the next rotation is at most two midnights
  after its own.

### Only model-checked

The liveness properties (`StopCompletes`, `ReadyIsHandled`, `PeerCloseReaped`, `IdleStopReturns`, `ConnectCompletes`,
`PeerCloseNoticed`, `DataHandled`, `ShutdownCompletes`, `CallsReturn`), since fairness is beyond the prover; and
the five properties of `text`: what a numeral stands for and what the parser makes of a format need
induction over strings of any length, and `Fmt` and `LogText` are written with recursive operators, which the prover does not
handle. Every other property of the runs is a theorem.

## 5. Left out, and the plan

Not modelled, and why:

* `openssl` (not in the build), `memory`, exceptions and stack traces (allocation and wording),
  `InetAddress` (conversions by the C library), `utility` and `handler` (types only);
* a fatal error of `epoll_wait`, an allocation failure in `handleNewConnection`, a collision of uuids;
* of spdlog: sinks that librapid does not use and that this build leaves out (Windows, Android, syslog,
  the distributing and null sinks), the setters of the registry, the rate limit of the error handler,
  what stdio buffers;
* of `fmt`: `printf.h`, `posix.h`, `ranges.h`, `time.h` and the stream formatters, which nothing here
  calls; grisu (`FMT_USE_GRISU` is 0); the digits of floating point numbers, which `snprintf` makes;
  wide characters, custom formatters and system errors.

What would come next: the assignment of the handlers by `main`, now in `DataPath`, composed with
`TcpServer`.
