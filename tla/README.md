# TLA+ models of YoLib

YoLib is a C++11 library of building blocks for network servers: a thread pool,
a lock-free queue, TCP sockets that exchange framed packets, a `select()`
wrapper, buffers, logging and configuration. This directory holds TLA+ modules
that model the parts of it in which threads, locks, crashes, partial reads and
the sizes of buffers meet, the TLC configurations that model-check them on small instances, and
proofs, checked by TLAPS, that the main properties hold for every value of the
parameters.

Paths in this file are relative to the root of the repository
(`src/network/Select.cpp`, `include/threading/Thread.h`...).

- [The system](#the-system): components, state, operations, what is hard
- [The modules](#the-modules): which module models what, and how it corresponds to the code
- [The runs](#the-runs): what TLC checks, with which bounds and fairness
- [The proofs](#the-proofs): what holds for every instance, and why
- [What the code does that its docs do not say](#what-the-code-does-that-its-docs-do-not-say)
- [What is not modelled](#what-is-not-modelled)
- [Plan](#plan)

To check everything: `tlc -config pool.cfg MCThreadPool.tla` (and so on for each
line of the table of runs), `tlapm ThreadPoolProofs.tla` (and the other seven
modules of proofs; `tlapm --stretch 0.5` finds the same proofs faster).

## The system

| Component | State | Operations | Talks to |
|---|---|---|---|
| `ThreadPool` (`include/threading/ThreadPool.h`) | the threads, `m_availableThread` (a list under `m_lock`), two condition variables | `Start`, `Stop`, `Execute`, `ExecuteAll`, `TryExecute`, `IndicateFree`, `GetNbThreadAvailable` | its `Thread`s, which call `IndicateFree` back |
| `Thread` (`include/threading/Thread.h`) | `m_lambdaFunc`, `waitFunction` under its own `m_lock`, two condition variables, the crash counters of the SIGSEGV handler | `Run` (the loop of the worker), `Execute`, `Lock`, `Unlock`, destructor, `Restart` | the pool |
| `SharedThreadPool` (`include/threading/SharedThreadPool.h`) | the maximal use percentage | `Execute`: in the pool or, over the limit, on the caller | `ThreadPool` |
| `MPSCQueue` (`include/container/MPSCQueue.hpp`) | a linked list, atomic `_head` and `Next`, plain `_tail` | `Enqueue` (many threads), `Dequeue` (one), destructor | - |
| `TCPClient` (`src/network/TCPClient.cpp`), `ProgressBuffer`, `RawSocket`/`Protocol`, `ASocket` | per connection: protocol, state Handshake/Header/Payload, bytes read, size allocated, header | `Connect`, `Receive`, `Send`, `Close`, `Protocol::Handshake` | the peer, over a stream of bytes |
| `TCPListener` | the listening socket | `Open`, `WaitNewSocket` | creates the host's `TCPClient` |
| `Select` (`src/network/Select.cpp`) | `m_fd`, `m_fdList`, `last_fd`, the timeouts under `m_lock`; `m_tmpSocketList` under `m_lockASync` | `Wait`, `IsSet`, `AddSocket`, `AddSocketASync`, `PopSocket`, `PopSocketFromASync`, `SetTimeout` | `select()`, the program's sockets |
| `ASocket` (`src/network/ASocket.cpp`) | `m_sock`, `m_open`, `m_lock` | `Close`, destructor | every client and listener, which assign `m_sock` and `m_open` |
| `WebSocket` (`src/network/WebSocket.cpp`) | `m_packet`: the length of the frame being read, the place in it, its mask; `m_key`, `m_host` | `Handshake`, `IsEndOfFrame`, `Receive`, `Send` | `TCPClient`, a browser |
| `TCPClientSSL`, `TCPListenerSSL` | the SSL objects | `Connect`, `Receive`, `Send`, `Close` | OpenSSL, `TCPClient` |
| `ByteBuffer`, `Zip` (`src/network/ByteBuffer.cpp`) | `m_header`, `m_storage` (a header and a payload), `m_pos`; of a `Stack` the buffers and the sum of their sizes | `operator<<`, `operator>>`, `Release`, `ReplaceOpcode`, `AssignSpecialId`, `WriteAtPosition`, the constructors, `Push`, `PushReverse`, `Clear` | `TCPClient::Send`, zlib |
| `Log` (`src/utils/Log.cpp`) | a mutex | `write...` | every thread, the SIGSEGV handler |
| `BinaryTree`, `Config`, `ConfigManager`, `Hash`, `Converter`, `StringParser`, `Dev`, `Binary` | - | utilities | - |

What is hard, and what makes each part correct:

- **Pool and threads.** Each worker sleeps on its own mutex and condition
  variable, the list of free workers is under another mutex, and a caller lets go
  of the list's mutex before it hands its function to the worker it took (in
  `TryExecute` it does not: there the two locks nest, while a worker that becomes
  free nests them the other way round in time). A worker must be given to one
  caller at a time, and only while it waits; no notification may be lost; every
  accepted function must be executed exactly once, also when `Stop` comes;
  nobody may wait for ever.
- **Queue.** `Enqueue` publishes a node by exchanging `_head` and links it
  afterwards, so that the list has holes, and `Dequeue` frees nodes at which
  producers may still look. Payloads must come out in one order, each once, no
  thread may touch a freed node although addresses come back, and none may leak.
- **Packets.** TCP delivers any chunks; three states share one buffer; a size
  comes from the wire, signed; `recv()` may time out between two bytes of a
  header; the greeting has no length field. Frames must stay aligned, the buffer
  must never overflow, packets must come out whole, in order and once.
- **Select.** `m_fdList` says what to monitor before `select()` and what was
  found after it; `AddSocket` runs between the two; `last_fd` is updated one way
  by `PopSocket` and another by `Reset`; `Wait` gives up its mutex in the middle.
  `select()` must wait for exactly the monitored sockets; a reported socket must
  be its handler's alone; a ready socket must be reported at last.

- **Crashes.** The SIGSEGV handler runs on the thread that crashed, in the middle of
  a function that holds its `Thread`'s mutex, and perhaps that of the log; it keeps
  static variables without a lock, and returns to the instruction that crashed.
- **Bytes.** Four sizes of a `ByteBuffer` must agree, and each operation changes some
  of them; a packet may be compressed, relayed with another id, decompressed and
  read with types that were not written.
- **WebSocket.** One `recv()` may bring the end of a frame and the next header, or
  half of one; the mask begins again at each call; the handshake is parsed at every
  call although the request may still be arriving.
- **Descriptors.** `Close` may come from another thread at any time, the kernel gives
  a closed number to the next object, and each way of opening fails at several
  places.

`PROJECT.json` lists under "hazards" each of these at its line, with the
properties that would catch it going wrong. Some are mistakes that the code makes. Then
the model makes them too, no property holds of what follows, and the note says which
property exempts it and how.

## The modules

Each component has an abstract specification of what it promises where that is more
than its invariants say, the model of the code, the proofs, and an instance for TLC.

| Component | Promise | Model | Proofs | TLC |
|---|---|---|---|---|
| pool | `JobSlots` | `ThreadPool` | `ThreadPoolProofs` | `MCThreadPool` |
| queue | `MPSCOrder` | `MPSCQueue` | `MPSCQueueProofs` | `MCMPSCQueue` |
| packets | `PacketChannel` | `PacketStream` | `PacketStreamProofs` | `MCPacketStream` |
| select | `ReadySockets` | `Select` | `SelectProofs` | `MCSelect` |
| buffers | - | `ByteBuffer` | `ByteBufferProofs` | `MCByteBuffer` |
| WebSocket | - | `WebSocket` | `WebSocketProofs` | `MCWebSocket` |
| crashes | - | `ThreadCrash` | `ThreadCrashProofs` | `MCThreadCrash` |
| descriptors | - | `Sockets` | `SocketsProofs` | `MCSockets` |

A definition whose comment begins with `mutant:` is not part of the model. It is
a variant of the definition that follows it, with a mistake somebody could make in
that code; `PROJECT.json` says which property each one breaks. "map" in the same
file gives the lines of the code behind each definition.

### ThreadPool

One action is one critical section, or the part of one that ends at another lock
or at a wait. Every mutex that is held from one action to the next is a variable
(`poolLock`, `lock[t]`). A condition variable has no state of its own: `asleep` is
the set of actors blocked on one, which one follows from their program counter;
`PoolSleepers` and `UnlockSleepers` are those a `notify_all` takes out;
`Spurious` takes out anybody at any time. An actor that is out of `asleep` has to
take its mutex again and look at the predicate once more, as `wait(l, pred)` does.

The workers: `Begin`, `IndicateFree` (take the pool's mutex, enter the list,
notify, while holding the worker's own mutex), `WaitRun` (the predicate is false,
sleep), `Wake` (it is true: mark `waitFunction`, notify, go on to run), `RunJob`
(call `m_lambdaFunc` and forget it, or end). The callers: `Call` (choose one of
the four operations), `ReadUsage` (the first critical section of
`SharedThreadPool::Execute`), then `TakeThread`, `WaitThread` or `NoThread` at the
pool's mutex, `Hand` (store the function in the worker), `HandOver` or
`UnlockWait` (`Thread::Unlock`), and `RunInline` for a shared function over the
limit. The owner: `Start`, thread by thread, `StopCall`, `StopWait`, `Delete`,
`DestroyUnlock`, `Join`, worker by worker.

Modelling decisions:
- A function is a member of `Jobs`, and is handed over by one call. Functions end,
  and do not call the pool: a function that calls `Execute` of its own full pool
  waits for itself, which is a matter of the program (listed under hazards).
- `SharedThreadPool` compares `1 - free / capacity` in floating point with the
  limit. `MaxUsage` is the number of cases, of 0, 1, 2... busy threads, in which
  the test is true; so the model does not depend on how the division rounds.
- `Quiesce` says that the program makes no call during or after `Stop`; see
  `stop_race` below for what happens otherwise.
- `history` variables (`op`, `ran`, `whole`) record what was handed over and
  executed; no guard of the code's actions reads them, except that a function is
  handed over once.

The refinement: the slot of a worker in `JobSlots` is its function from the
moment it is taken out of the list, which is before the function is stored in it
(`Slot`).

### MPSCQueue

One action is one access to memory another thread may touch. The code's
`exchange(acq_rel)`, `store(release)` and `load(acquire)` publish a node after its
payload and its null `Next` are written, and nothing else is shared, so that
interleaving these accesses covers what the memory model allows.

`NewNode`, `Exchange` and `Link` are `Enqueue`; `LoadNext`, `Take` and
`DeleteTail`, or `ReturnFalse`, are `Dequeue`; from `Destroy` on the same steps
belong to the destructor, which calls `Dequeue` until it returns false and then
deletes the last node (`DeleteFront`). Nodes are addresses of a finite heap, and
`new` may return one that was freed a moment before, as real allocators do: the
model would find an ABA mistake. The destructor starts only when no `Enqueue` is
running, as for any destructor.

`log`, `order` and `open` are history: the payloads and nodes in the order of the
exchanges, and for each producer the place it has not linked yet. They are what
`MPSCOrder` is about: the consumer gets the payloads in this order, and is told
"empty" only if it has them all or the next call in the order has not returned.

### PacketStream

Both ends of one connection that speaks RAW. The bytes an end has written are
numbered: its greeting ("RAW" from the client, "READY" from the host), then its
packets, each with its place, its payload size and the number of its bytes that
`send()` accepted. An end has `received` a number of them. What is in its buffer is
then the bytes from `Base` on, so no byte has to be modelled: a header read at the
place where a packet starts is that packet's header, and one read anywhere else can
be anything, negative sizes included (`Headers`).

`Connect`, `InitHandshake` (the client's blocking wait for READY) and `Handshake`
(`Protocol::Handshake`, called by the program on the host) open the connection;
`WaitHandshake`, `HandshakeFails`, `ReceiveHeader`, `ReceivePayload` and
`ReceiveFails` are `Receive` in each state, with `recv()` returning any number of
bytes (`Chunks`) or failing (`RecvFails`: the end of the stream, a reset, a
timeout); `Send` appends a packet, perhaps cut short; `Close` ends it. `SetSize`,
`Reset`, `Fill`, `ToPayload` and `Refuse` are what `ProgressBuffer` is made to do
on each path. `ForeignWrites`, `ForeignReads` and `ForeignCloses` are a peer of the host
that is not a `TCPClient`.

Modelling decisions:
- The program sends only after the handshake (`m_protocol` is null before), answers
  the handshake with `Protocol::Handshake` once `Receive` has returned
  `RECV_HANDSHAKE` (nothing in the library calls it), and uses a client for one
  connection.
- A greeting is written whole. The peer of the host may be another program
  (`foreign`): it writes blocks of any bytes, in the place of packets. Any three of them
  may contain "RAW", at once or after three that did not, and then the host makes headers
  of the rest, which may be any (`Headers`). `InBounds` and `RefusedForGood` hold of
  these as well; of what is delivered nothing is promised (`WholeUpTo`, and `whole` in
  `PacketChannel`). A connection that begins with "GET" is the matter of `WebSocket`.
- A foreign peer reads all that came or nothing: how much it has read matters only when it
  closes (`Broken`).
- A close with bytes unread resets the connection (`Broken`): the other end's
  `recv()` may then fail with bytes on the way.
- A failed `Connect` leaves the descriptor open, as the code does.

### Select

One thread calls `Wait` and, when it returns true, `IsSet` for each of its sockets;
a socket that is reported goes to a handler, which reads and then adds it again or
closes it; other threads add and pop sockets at any time. `m_lock` is held from one
step to the next only from the end of the wait for a first socket to the return of
`select()`, so `LockFree` is a condition on `pc` and each other call is one step.

`Wait` moves `m_tmpSocketList` to `m_fd` and goes to `wait_for` or to `select()`
(`EnterSelect`, with `Reset`); `WaitFor` is the return of `wait_for`, because a
socket was added or after a second; `SelectReady`, `SelectTimeout` and
`SelectFails` are the results of `select()`, the last for EINTR and for a closed
descriptor.

Modelling decisions:
- A socket is its descriptor, a number, because the code compares them; a closed
  descriptor comes back with the next socket.
- `PopSocket_intern` decrements an iterator that may be `begin()` and reads through
  it. That is undefined, and `last_fd` becomes any of the descriptors or
  `INVALID_SOCKET` (`LastAfter`).
- `AddSocket` and `PopSocket` run whenever `m_lock` is free, which is also while `Wait` is
  in `wait_for`: see [below](#what-the-code-does-that-its-docs-do-not-say).
- `m_timeout` is also written by `select()`, with the time that was left.
- The program closes no socket that it has added and that was not reported or
  popped; a handler that was given a socket reads before it adds it again.
- With `Careful` the program asks `IsSet` only about sockets that were neither added
  with `AddSocket` nor popped since the last `select()`; `select_isset` below shows
  why. A program whose other threads use only `AddSocketASync` is careful.

### ByteBuffer

Both ends again, but of the contents: any number of buffers that are written, released,
sent, received, relayed, read and deleted, and one `Stack`. `m_storage` is two variables,
the header as it was last written into it (`stored`) and the `payload`; `header` is
`m_header`. They differ on purpose: `Write` changes the second and not the first.

`New`, `Write`, `WriteAtPosition`, `Assign` (`ReplaceOpcode` and `AssignSpecialId`, which
differ only in the field) and `Release` make a packet; `Send` and `SendStack` put it on
the wire; `Push` is both ways of pushing; `Clear` and `Delete` end buffers; `Receive` is
the constructor from a packet, with `Decompress`; `Read`, `ReadString` and `ResetPos` take
values out.

Modelling decisions:
- zlib's output is `Opaque` bytes, of any length in `ZipSizes`, and what they encode is kept
  beside them (`inside`), one level for each `Release`: a second `Release` compresses again,
  as the code does. `Uncompressed` cuts what does not fit the memory of `realPayloadSize`
  bytes, as `uncompress` does, whose result the code ignores.
- A type is its size; the bytes of a value are in one order at both ends.
- `WriteAtPosition` replaces one of the values that were written and are not yet compressed,
  by a value of its type. The code's position is an index into `m_storage` that nothing
  checks: with another one a program overwrites parts of two values, or the header.
- A receiver takes a packet off the stream only if its header announces its bytes
  (`Framed`): what happens otherwise is `PacketStream`'s matter.
- `written`, `got`, `inOrder` and `current` are history. Which reads are expected to
  return what was written is `Expected`: in order, with the types that were written, and no
  string that has a zero in it.
- The program pushes a buffer once, and does not delete one that a `Stack` owns.

### WebSocket

An accepted connection whose peer is a browser, and one stream of what it writes: the
request, then frames. A request is a sequence of pieces, each one place of the stream, of which
`recv()` brings any number. `Handshake` and `HandshakeNoAnswer` are one call, with
`IsEndOfFrame`, which sends an answer instead of looking for the end, or fails to, and
`GetFirstLine` and `GetWord` (`Value`). The answers are the keys their `Sec-WebSocket-Accept`
is computed from. A call receives once at most, so that it may succeed before the request has
been read to its end. What is left of it stays in the stream, and the first `Receive` takes it
for a frame: `taken`, how much of the stream was read, is where `Handshake` stopped, and
`Written`, where the frames begin, is behind the whole request.

Of the frames, only places are modelled, as in `PacketStream`. `ReadHeader` is the set of
headers the code can make of the bytes at a place: of a whole header, the right one, its
extended length in the wrong order; of a header cut short, or of bytes that are not one, any
(`Garbage`). `Receive` goes on whatever `ReadHeader` returned. `Right` says that bytes are data
of the frame whose mask is used, decoded from the right byte of it. `Send` and `CreateHeader`
make the frames of the library, with their numbers as bytes in the order of memory.

`DataIntact` is about a program and a network that give `Receive` what it relies on (`Smooth`),
a condition on the stream and on what is asked for and not on `m_packet`:
- each read begins in a frame of fewer than 126 bytes, so that the handshake has left nothing of
  the request;
- a header comes whole, in as many `recv()` as the code makes for it;
- the program asks for no more than the rest of the frame;
- what comes goes to the frame's end or is a multiple of 4 bytes.

As long as this is so the code finds each header, keeps its place in the frame and decodes
every byte rightly; the mistake of the mutant, which loses the place, shows at the second read.
What happens when one of the four fails is listed under the hazards and not promised by
anything.

### ThreadCrash

The pool again, without its lists, and with crashes. A `Thread` begins with worker 0; each
`Restart` gives it the next. A worker that executes a function holds its `Thread`'s mutex
(`Run`, `Finish`), and any thread may be inside `Log` (`TakeLog`, `EndLog`). `Crash` may
happen in both. `SignalHandler` is `Enter`, `Look`, `Judge`, `Report`, `Verdict` and
`AskForRestart` or `Terminate`: one action for each access to `start`, `luck`, `prevThread` or
a mutex, because two threads may be in the handler at once. The handler returns to the
instruction that crashed, so the thread is at `fault` again.

Time is a clock in seconds; `Tick` may happen at any step, so a handler may take long.

### Sockets

Who opens, keeps and closes each descriptor: `Connect`, `Refused`, `Shaken` (the end of
`InitHandshake`) and `NoSocket` of clients; `Open`, `Use`, `Accept` and `AcceptFails` of
listeners; `Close` and `Closed`, the two assignments of `ASocket::Close` under its mutex, by
any thread; `Delete`, the destructor. `socket()` and `accept()` return any descriptor that is
closed. `owner` is history, the object for which the kernel opened each descriptor: the code
has only `m_sock`. `Use` and `Used` are the two ends of a `Receive` or `WaitNewSocket`, which
tests `m_open` without the mutex.

## The runs

| Run | Instance | Distinct states | Shows |
|---|---|---|---|
| `pool` | 2 threads, 2 callers, 3 functions, all operations | 396 000 | `TypeOK`, `NoLostWakeup`, `CleanHandOver`, `ExecutedAsOwed`, `BroadcastOnce`, `ImplementsJobSlots`; no deadlock |
| `pool_live` | the same, 2 functions, fairness | 125 000 | `EveryJobRuns`, `StopReturns` |
| `queue` | 3 producers, 4 calls, 3 addresses, 2 payloads, fairness | 223 000 | `TypeOK`, `NoUseAfterFree`, `NoLeak`, `ListIntact`, `ImplementsOrder`, `EverythingDelivered` |
| `packets` | greetings and headers of 2 bytes, limit 2, payloads of 0, 2 and 3 bytes, 1 and 2 packets, short sends, timeouts, a foreign peer, fairness | 468 000 | `TypeOK`, `InBounds`, `FramesAligned`, `ImplementsChannel`, `RefusedForGood`, `ConnectReturns`, `EveryPacketDelivered` |
| `select` | 2 descriptors, timeouts 0 and 1, fairness | 53 000 | `TypeOK`, `SelectSeesAll`, `HandlerOwns`, `ReportsLastSelect`, `ImplementsMonitor`, `EventuallyReported` |
| `bytes` | 2 buffers, values of 1 and 2 bytes and a string, 4 calls, one `Release` per buffer | 1 727 000 | `TypeOK`, `Announced`, `RoundTrip`, `StackFits` |
| `websocket` | 3 requests, frames of 0, 6 and 126 bytes, reads of 2 and 4, sizes in each form of header | 787 000 | `TypeOK`, `AnswersKey`, `DataIntact`, `SizesRead` |
| `crash` | 2 Threads with a restart each and a thread of the program, SEGREPORT, 3 calls, 2 seconds, fairness | 218 000 | `CrashedKeepsOut`, `RestartNeedsDelay`, `CrashAnswered` |
| `sockets` | a client, a TLS listener, 2 connections, 4 descriptors | 346 000 | `OwnDescriptor`, `LeaksHaveCause`; no deadlock |
| `shared_limit`, `stop_race`, `select_isset` | small | - | violations of what docs say; see below |

Why the bounds are enough to be interesting:
- Two threads and two callers are the least with which a worker can be given to
  the wrong caller, a caller can wait for a thread that another one takes, and a
  broadcast can find its first worker back in the list before it has taken the second;
  three functions let a worker be used again while both callers are busy.
- With three addresses and four calls of `Enqueue` plus the first node, the heap
  must reuse an address while a producer still holds it from before. Three
  producers leave two links open at once.
- A header of two bytes can be cut; a payload size of 0, of the limit and above it
  are the three classes the code tells apart; garbage headers range from -1 to the
  limit + 1. Two packets are needed for the one behind a short or refused one.
- Two descriptors are the least with which one is the largest and the smallest of
  the monitored at different times. (Three descriptors, 4.8 million states, show
  nothing else for the safety properties.)

- Two buffers are a sender and a receiver, which relays; 4 calls are two values, a
  `Release` and a change of the id. One level of compression is enough for each branch;
  the proofs cover any number. `MaxCalls` bounds the calls that make or change a buffer,
  `MaxZips` those of `Release` on one.
- A request has the key before the host, after it, or not at all, and is cut anywhere;
  `MaxAnswers` bounds the answers that were sent. A success may leave the last piece of
  the second of these unread, which is then taken for a frame, or nothing. A frame of 6
  bytes is read in parts of 2, which are no multiple of 4, or of 4 and 2, with which
  `Smooth` holds; one of 126 has an extended length; an empty one has a header and nothing
  behind it. The sizes sent are those on both sides of the one-byte form, one of the
  two-byte form, and the first that gets eight bytes. `MaxFrames` bounds the frames of
  both directions.
- Two Threads and an outsider are the least for one thread to enter the handler while
  another is in it, and for a third to want the log. `MaxJobs`, `MaxTime` and
  `MaxRestarts` bound the calls, the clock and the workers of a Thread; `Spec` still allows a
  function to run for ever.
- Four descriptors let each of the four objects have one, and leaks use them up, so that
  numbers come back at once.

Symmetry is used in runs without liveness only: of callers and functions, of buffers, of
descriptors and accepted connections. A run that is not listed with fairness uses the
specification without it; `CHECK_DEADLOCK FALSE` is given only where the program may
stop: when an instance has used up its calls, packets or frames, or has terminated.

The fairness:
- *Pool*: weak fairness of every thread's steps, each worker, each caller inside a
  call and the owner inside `Start` or `Stop`. It is what a scheduler gives to
  runnable threads. A mutex can be taken by others again and again, but each does so
  finitely often, because the calls are finite, so no strong fairness is needed.
  Nothing forces a caller to call or the owner to stop.
- *Queue*: each `Enqueue` that has begun goes on, and the consumer keeps calling
  `Dequeue`.
- *Packets*: the program answers the handshake, and calls `Receive` while `select()`
  reports its socket. That is all: a packet whose last bytes make no event (an empty
  payload with nothing behind it) is not promised (`Deliverable`).
- *Select*: the thread of `Wait` goes on, weakly fair; and `select()` does not fail
  every time when a socket is ready (strong fairness of `SelectReady`), because
  failures come from signals. Handlers, adders and closers need no fairness.
- *Crashes*: weak fairness of what a thread does in the handler and in `Log`, unless
  it is blocked. A function may run for ever, and need not crash.

## The proofs

TLAPS proves the following for every number of threads, callers, producers,
addresses, functions, packets, descriptors, buffers, values, requests, frames, restarts
and connections, every length, limit and timeout,
under the assumptions stated with the constants (distinct actors, finitely many of them,
positive lengths, sizes and descriptors that are numbers).

| Module | Theorem | Property |
|---|---|---|
| `ThreadPoolProofs` (assumes `Quiesce`) | `TypeCorrect` | `TypeOK` |
| | `WakeupsSafe` | `NoLostWakeup` |
| | `HandOverSafe` | `CleanHandOver` |
| | `NoneTwiceNoneLost` | `ExecutedAsOwed` |
| | `BroadcastSafe` | `BroadcastOnce` |
| | `UsageBounded` | `UsageBound` |
| | `Implementation` | `ImplementsJobSlots` |
| `MPSCQueueProofs` | `TypeCorrect` | `TypeOK` |
| | `MemorySafe` | `NoUseAfterFree` |
| | `DestructorFrees` | `NoLeak` |
| | `ListSafe` | `ListIntact` |
| | `Implementation` | `ImplementsOrder` |
| `PacketStreamProofs` | `TypeCorrect` | `TypeOK` |
| | `BufferSafe` | `InBounds` |
| | `FramingSafe` | `FramesAligned` |
| | `RefusalFinal` | `RefusedForGood` |
| | `Implementation` | `ImplementsChannel` |
| `SelectProofs` (assumes `Careful`) | `TypeCorrect` | `TypeOK` |
| | `MonitorSafe` | `SelectSeesAll` |
| | `HandlerSafe` | `HandlerOwns` |
| | `ReportsSafe` | `ReportsLastSelect` |
| | `Implementation` | `ImplementsMonitor` |
| `ByteBufferProofs` | `TypeCorrect` | `TypeOK` |
| | `HeadersTrue` | `Announced` |
| | `ValuesSurvive` | `RoundTrip` |
| | `StackSafe` | `StackFits` |
| `WebSocketProofs` | `TypeCorrect` | `TypeOK` |
| | `KeySafe` | `AnswersKey` |
| | `DataSafe` | `DataIntact` |
| | `SizesSafe` | `SizesRead` |
| `ThreadCrashProofs` | `CrashedLocks` | `CrashedKeepsOut` |
| | `RestartsLate` | `RestartNeedsDelay` |
| `SocketsProofs` | `OwnDescriptors` | `OwnDescriptor` |
| | `LeaksExplained` | `LeaksHaveCause` |

Each module proves that its `IInv` holds initially and is kept by every step, one
lemma per action or group of actions, and derives the properties from it; an
implementation theorem then maps each step under `IInv` to a step of the abstract
specification or to a stutter.

- *Pool.* `NoLostWakeup` and `CleanHandOver` are not inductive: that a worker in the
  list waits with nothing to do (`ListInv`) depends on what a worker outside it is
  doing (`ThreadInv`), on what callers hold (`CallerInv`), and on the owner, who
  creates and destroys threads when nobody else uses them (`OwnerInv`). The list
  holds each worker at most once, so a list as long as the pool has every worker in
  it (`Pigeons`), which is why `Stop` may destroy them all. `CleanHandOver` also
  shows that the wait in `Thread::Unlock` is never taken by a caller: `TryExecute`
  does not block in it while it holds the pool's mutex.
- *Pool, accounts.* `ExecutedAsOwed` compares a sum over all actors with a number, and is
  not inductive: what is still to come is in the callers and in the workers. `AccountInv`
  says that for each function what was executed or stored in a worker (`Given`, the sum of
  `Load`) and what its call will still store (`ToHand`) add up to what is owed; `CallInv`
  that no two calls are of one function. `BroadcastInv` is about the order of the list: of
  an `ExecuteAll` alone in the pool, the workers still to be taken are the first `ToTake` of
  the list and have not had the function, and every other one has had it once.
- *Pool, limit.* `UsageInv` counts the callers that were let in and have no worker yet
  (`Takers`) with the workers in use. The last one let in saw less than the limit in use
  (`UsedIsTaken`: a worker in use is not in the list), and the others that are in are at
  most one for each further caller; a worker that is taken only moves from one count to
  the other. No run checks `UsageBound`: with the two threads of `pool` the pool itself is
  the bound, and the theorem is for any number.
- *Queue.* `Shape` says that the nodes from `_tail` to `_head` are distinct and
  are those of `order`; `Links` and `Owing` that each missing link is owed by one
  producer, whose nodes are the two ends of the hole; `Private` that a node that is
  not published is one producer's; `Heap` that what is allocated is in the list, is
  somebody's, or is about to be deleted. The reuse of addresses is sound because of
  `Heap`: an address can come back only when nobody has it.
- *Packets.* `Behind` says that who is past the handshake has taken the greeting, so that what
  makes a payload was sent behind it, also by a foreign peer. `Layout` says that packets lie one
  after another, so that a packet
  starts at only one place and the header found there is its own (`HeaderOf`);
  `Settled` that states follow one another as the handshake allows; `Within`,
  `Bounded` and `Aligned` are about one end and its buffer. `Fresh` says that a
  client does nothing before `Connect` has returned.
- *Select.* `Staged` ties what the program has added to the two lists; `Results`
  says that while the program asks, every bit that was not touched since is a result
  of the last `select()`, is ready and is still monitored. `touched` is needed: it
  is exactly where the code's answer may be wrong.

- *Buffers.* `BufferInv` has four parts for each buffer. `SizeInv`: the size in
  `m_header` is that of the payload, and a compressed header, also the copy in
  `m_storage`, is true of what the bytes encode. `LaidInv`: the values lie one after the
  other in the bytes behind all levels of compression (`Base`) and fill them. `ReadInv`: while
  reads are in order, the position is where the next value begins. `DeadInv`: an object that
  does not exist holds nothing. `PacketInv` says the first two of what is on the wire.
  `TypeOK` alone is not inductive: that a receiver can decompress needs `SizeInv`.
  `StackInv` says that `m_size` is the sum of the sizes the buffers had when they were pushed,
  at whichever end; sums are monotonic, so that what is written fits if no buffer has grown.
- *WebSocket, handshake.* `HandshakeInv` says that what is in the ProgressBuffer is the begin
  of the request (`Begun`), so that a word found in it is a begin of the one in the whole
  request, and the same once its line has ended (`ValueOfPrefix`). A success needs a
  Host line, which is behind the key's line if `KeyFirst`. An attempt to prove it of a request
  with the key before *some* Host line failed, and TLC then found why: a browser's
  request with a Host line on both sides of the key succeeds with a part of the key.
- *WebSocket, frames.* `Ordered` says that the request and the frames lie one behind the
  other, so that a place is in one frame at most. `Waiting` says that before the first read the
  stream was read as far as `Handshake` has buffered, and `InStep` that, while reads are smooth,
  the place in `m_packet` is the place in the stream: inside the frame whose mask is there, or
  where a frame begins. Nothing in it says that the request was read to its end: with a rest
  of it left, the first read is not smooth. `Headed` says of each frame of the library that `CreateHeader` made it, and the rest is arithmetic on
  the bytes of a number.
- *Crashes.* `Locked` says that a worker past its `Thread`'s mutex holds it, and `Lost`
  that the mutex of a restarted Thread is held by a worker that crashed, which never gives it
  back; `CrashedKeepsOut` by itself says nothing of the mutex. `DelayInv` says that while
  `stalled` is false there is no luck left for anybody who is in the handler.
- *Descriptors.* The two properties are inductive together with `Orderly`: an object that does
  not exist is not used, and the descriptors of failed calls are open.

Sums over sets and sequences, and the first place of a word in a text, are defined by
recursive functions and by `CHOOSE`. The library's induction theorems take an operator, which
the provers cannot instantiate; the lemmas about them (`SetInduction`, `SubsetInduction`,
`Sums`, `Least`) are proved from the well-foundedness of the numbers instead, about the set
of the numbers, or of the subsets, for which the claim holds.

Only model-checked: the liveness properties (`EveryJobRuns`, `StopReturns`,
`EverythingDelivered`, `ConnectReturns`, `EveryPacketDelivered`, `EventuallyReported`,
`CrashAnswered`), which are out of the prover's reach. Every invariant
and every action property that a passing run checks is also a theorem.

## What the code does that its docs do not say

- `shared_limit`: "maximal use percentage has not been reached"
  (`include/threading/SharedThreadPool.h`) is tested in one critical section and
  the thread is taken in another, so that two callers can both pass it: the limit can be
  exceeded by one worker for each further caller, and by no more (`UsageBound`).
- `stop_race`: `Stop` deletes the threads and leaves their addresses in
  `m_availableThread`. A `TryExecute` that waited for the pool's mutex during `Stop`
  finds the list not empty and takes a deleted thread, where the doc promises to
  return if none is available. Programs have to make no calls when they stop.
- `select_isset`: `IsSet` is to say whether a socket "has been set in previous
  select", but `AddSocket` sets the same bit. A socket added between `Wait` and
  `IsSet` is reported although no `select()` returned it, its handler's `recv()`
  may block, and it is monitored no more. `AddSocketASync` does not have this.

Read in the code, in the models as coded, and not the subject of a run that expects a
violation:

- `PopSocketFromASync` is documented as "p_socket will be removed on next Wait() call" but
  takes effect at once, and only if no `Wait` has moved the socket to `m_fd` before.
- `AddSocket` and `PopSocket` are documented as blocking "until end of Wait()" if another
  thread is in it, but `Wait` gives up their mutex in `wait_for`, for up to a second, and they
  go through; it is what ends `wait_for` early. Only during `select()` do they block.
- A `Thread` is restarted only if a second goes by inside the handler
  (`RestartNeedsDelay`): `luck` begins at 0 and `start` at the first crash, which is thus
  always too soon. When it is restarted, the new worker waits for ever for the mutex that the
  crashed one holds (`CrashedKeepsOut`). A crash inside `Log` leaves its mutex locked, and the
  handler, which logs, waits for it (the `torn` of `CrashAnswered`).
- WebSocket's `Handshake` sends an answer with the key it has, first an empty one, before it
  parses the request (`IsEndOfFrame`). A frame of 126 bytes is announced as the two-byte form
  without the two bytes, and extended sizes are in the order of memory; `SizesRead` says which
  sizes a browser reads right. A `Handshake` that succeeds before all of the request was
  received leaves the rest to be read as a frame.
- A `Connect`, `Open` or `SSL_accept` that fails after its descriptor was opened leaves it open
  for good; these are the only leaks (`LeaksHaveCause`). A `Close` during a `Connect` that waits
  for the handshake does nothing, because `m_open` is false.
- A `Release` of a compressed buffer compresses it again, and a receiver decompresses once.
- `Decompress` ignores zlib's result; `Announced` shows that the size it trusts is the right one
  for packets of this library.

## What is not modelled

- What OpenSSL has decrypted and `select()` does not see: the loop over `SSL_pending` in
  `TCPClientSSL::Receive` ends at a complete packet, so that the next one waits for more bytes.
  The descriptors of both TLS classes are in `Sockets`.
- Reconnecting with a client that was closed, and short sends of WebSocket frames
  (`PacketStream` has them for packets).
- A function that calls `Execute` of its own full pool, and `Stop` on a pool whose threads were
  never started: both wait for ever, whatever the schedule.
- The rounding of `1 - free / capacity` in `SharedThreadPool`.
- Mode `WRITE` of `Select` differs from `READ` only in what ready means.
- The Windows branches of the network code. `ByteBuffer::ToString`, which only formats.
- `BinaryTree`: the template does not compile when it is instantiated, and nothing
  uses it. `Log`: only its mutex is modelled. `Config`, `ConfigManager`: a parser of lines
  and an unsynchronised cache. `Hash`, `Converter`, `Dev`, `Binary`: pure functions, stack
  traces, macros.

## Plan

What is left, in this order:

1. **TLS**: decrypted bytes as a buffer between the stream and `Receive`, composed with
   `Select` for "every packet is delivered".
2. **Composition** of `Select`, `PacketStream` and `ThreadPool` into the server loop the
   library is meant for: a socket is handed to a worker, received from and added again.
3. **Functions that call the pool**: `Execute` from a worker, and which programs can wait
   for themselves.
4. **Proofs**: the accounts without `Quiesce`, up to the first call that meets a `Stop`; the
   invariants of what 1 to 3 add.
