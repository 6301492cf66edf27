# network-programming-tools: specification and proofs

TLA+ modules for the C++ classes of `src/src/`: a timer with a service thread, a
byte assembler, a framed messaging class, and TCP and UDP servers. TLC checks the
modules on small instances; TLAPS proves every safety property the passing runs check, and the
safety part of every refinement, for every value of the constants (where a hypothesis is
needed it is named below). `PROJECT.json` lists the runs, the mutants, the source lines each
definition models, the hazards and the theorems.

## The system

| Component | State | Operations | Hard behaviour |
|---|---|---|---|
| `CTimer` (`Timer.cpp`) | table of 100 slots, priority queue of heap cells, two mutexes, stop and exit flags | `CreateTimer`, `StopTimer`, `RestartTimer`, `DeleteTimer`, `IsTimerActive`, destructor; service thread `timerServiceFunc` | table and queue are under different mutexes; cells are cancelled in place; callbacks run without a lock; signals may be lost or late |
| `CWaitableObject` (`WaitableObject.h`) | mutex, condition variable, `m_bTriggered`, number of waiters | `Signal`, `SignalBroadcast`, `WaitOnObject` with and without timeout | spurious wake-ups, time-outs racing signals |
| `Handle_List` (`Lists.h`) | array of slots, free list | `GetNewHandle`, `FreeHandle`, `IsGoodHandle`, `[]` | reuse of handles, full table, index at the bound |
| `CAssembler` (`assembler.cpp`) | list of blocks, `m_Size` | `Append`, `Peek`, `Pop`, `Trim`, `Clear` | ranges over block edges, empty and half-read blocks, 32-bit sums |
| `CMessaging` (`Messaging.cpp`) | an assembler, a queue of received messages | `sendMessage`, `processChunk`, `getMsg`, `getMsgSize` | partial transmissions and retries, any cut into chunks, losing one's place in the stream |
| `CTcpMessaging` (`tcp_messaging.cpp`) | a socket | `connect`, `disconnect`, `xmitMsg` | failing sends, reconnecting |
| `CTcpServer` (`tcp_server.cpp`) | listening socket, client list and its mutex, select sets, `close_list`, `data_list` | constructor, `StartSeverThread` and `start` on its thread, `SendToClient`, `CloseConnection`, `CloseAllConnections`, `StopSeverThread`, destructor | lists used after the mutex is released, descriptors closed under `select`, descriptors given out again, cancellation |
| `CUdpServer` (`udp_server.cpp`) | a socket, a callback, the id of the newest thread | two constructors, `RegisterDataCallback`, `StartServerThread` and `start` on its thread, `StopServerThread`, `SendToClient`, destructor | a loop that only a cancellation ends; several threads on one socket |

`CTimer` owns a `CWaitableObject` and a `Handle_List`. `CMessaging` owns a
`CAssembler`; `CTcpMessaging` is a `CMessaging` over a socket.
`testing/Tcp_Messaging_test.cpp` puts them together: the data callback of a
`CTcpServer` calls `processChunk` of a receiver. Applications call every class
from their own threads and are called back on the service and server threads.

What makes each part correct:

- `CTimer`: an active timer is queued, never lost and never queued twice; no cell
  is used after it is freed; a stopped timer calls back at most once more; calls
  and the destructor return.
- its table: no cell is lost in the heap, whatever is cancelled inside it; no timer is
  found expired early, and none oversleeps by more than the time between two readings of
  the clock; no handle is given out twice.
- `CWaitableObject`: a signal is not taken from a waiter it was meant for, and releases one.
- `CAssembler`: it is a stream of bytes, and `m_Size` its length.
- `CMessaging`: messages come out whole, once and in order, whatever the chunks.
- `CTcpServer`: entries stay valid while they are walked; the mutex is always
  released; an entry is never taken for another connection's; data and ends are
  noticed, unless a callback hangs in a send; healthy connections are kept; the destructor ends.
- `CTcpMessaging`: no socket is leaked, and what is sent over a new connection is not
  taken for the rest of an old message.
- `CUdpServer`: a datagram is given once, in order, and not after the server was
  stopped; none is left while a thread serves.

## The modules

| Module | What it is |
|---|---|
| `Timer` | `CTimer` with its waitable object and handle list: the interleavings |
| `TimerProps` | its properties and fairness |
| `DataLemmas` | induction and recursion over data, for the proofs |
| `Timer_proofs` | theorems |
| `HandlePool` | what `Handle_List` promises |
| `HandleList` | `Handle_List`, implementing `HandlePool` |
| `TimeSpec` | the `struct timespec` arithmetic |
| `TimerTable` | `CTimer` with clock, heap and handle list: extends `HandleList` and `TimeSpec` |
| `TimerTable_proofs` | theorems about the three: arithmetic, handles, heap |
| `WaitableObject` | `CWaitableObject` with any number of waiters |
| `WaitableObject_proofs` | theorems |
| `ByteStream` | what `CAssembler` promises |
| `Assembler` | `CAssembler`, implementing `ByteStream` |
| `Assembler_proofs` | theorems |
| `MessageChannel` | what `CMessaging` promises |
| `Messaging` | `CMessaging` at both ends of a stream, implementing `MessageChannel` |
| `TcpMessaging` | `CTcpMessaging`: `Messaging` over connections that come and go |
| `Messaging_proofs` | theorems about `Messaging` and `TcpMessaging` |
| `TcpServer` | `CTcpServer`, its callers and its clients |
| `TcpServerProps` | its properties and fairness |
| `TcpServerLife` | construction and destruction around `TcpServer` |
| `TcpServer_proofs` | theorems about `TcpServer` and `TcpServerLife` |
| `UdpServer` | `CUdpServer` and the datagrams that reach it |
| `UdpServer_proofs` | theorems |
| `MC...` | symmetry sets, message sets and fair specifications for TLC |

`... \* mutant` marks a wrong form of the definition below it: `PROJECT.json` says
which property fails when it takes the definition's place.

### Timer

Each thread is a program counter and the locals of the call it is in. `pc[t]`
steps through a call of a client (`Lock`, `NewHandle`, `Fill`, `StopSuspend`,
`StopMark`, `RestartMark`, `RestartArm`, `DeleteFree`, `Unlock`, `QueueLock`,
`Push`, `QueueUnlock`, `SetTrigger`, `CondSignal`); `svcPc` steps through
`timerServiceFunc`; `life` through the destructor. A step is split wherever the
other thread could see the state between two statements: the service thread holds
only the queue's mutex and reads slots that clients write under the table's.

- A queue element is a cell, `points[c]` the slot it points to or `NULL`. `queue` is a
  set and `top()` any of its elements: cells are overwritten while they are in the
  heap, so its order is not to be relied on. `TimerTable` has the order.
- Time is left out here: a comparison with the clock may go either way, a timed wait
  may end at any moment. `TimePasses` says that a timer looked at for ever expires.
- `SvcRelease` sets the queue's mutex free whoever holds it, because the loop unlocks
  at line 351 what branches 384 and 423 have already unlocked. `Collide` is the
  undefined behaviour of two threads in the queue at once that follows.
- A failing assertion or undefined behaviour sets `fault` and stops the model.
- `MayCall` is the callers' discipline: they use handles they were given, and do
  not delete a timer that another call is using. `RacingDelete` lifts the second
  part.
- `quiet` and `late` are history: which timers have been stopped or deleted and how
  often they have called back since; the constant `MaxLate` bounds the count: 2 where
  it is asked for, 0 where it is not.

### TimerTable, HandleList and TimeSpec

`TimerTable` has what `Timer` abstracts: `queue` is the array of the heap, with `Push`
and `Pop` as the C++ library's `push_heap` and `pop_heap` move its elements, and
`CompareTimerInfo` as written, no strict order when both cells are `NULL`. A cell is what
it points to, in the array or, until it is pushed, in the `hand` of a thread; `Cancelled`
overwrites it in place. `now` is the clock. Handles come from `HandleList`, whose free list
is last in, first out. `TimeSpec` is the arithmetic for a second of `K` milliseconds of
`K` microseconds of `K` nanoseconds, and an `unsigned` of `UINT` values, beside `Ns` and
`Time`, the same times as plain numbers.

A call is what it does under the table's mutex (`CreateTimer`, `StopTimer`, `RestartTimer`,
`DeleteTimer`), and, where it arms a timer, `PushCell` and `Signal` after it. `svc` steps
through `timerServiceFunc` as far as callers or the clock can come between:

| Step | Lines | |
|---|---|---|
| `SeeEmpty`, `Park` | 348-366 | the queue seen empty, and the wait |
| `TakeTop`, `DropCancelled` | 371-385 | `top()`, and the pop of a cancelled cell |
| `ReadClock` | 375 | the first reading |
| `Expire` | 386-404 | compared with it, popped, asserted active |
| `Settle` | 405-423 | armed again with another reading and pushed, or suspended |
| `CallBack` | 424 | |
| `ComputeSleep`, `Sleep` | 426-437 | the difference, and the wait counted from a third reading |

So `RestartTimer`, which holds the table's mutex only, may return between any two of them.
These are still one step: what a call does under the table's mutex; a function of the heap; a
reading of the clock with the assignment of the `ExpiredTime` computed from it; the two reads of
`ExpiredTime` in a comparison or a difference; `top()` of a cancelled cell and its pop; the size
`DumpTimersQueue` reads before it locks. Left to `Timer` and `WaitableObject`: spurious wake-ups,
a flag still set when the wait begins, the lock freed twice (351), `top()` of an empty queue
after a late signal, and a one-shot timer armed again between 389 and 416 (`Overtaken`), where
`Timer` has the assertion fail (run `expired`).

`since`, `due`, `slept` and `cancels` are history: when each timer was last set, when the one
found expired was due, when the wait began, and whether a cell was cancelled since the queue
was last empty.

### WaitableObject

`wpc[w]` steps through `LockMutex`, `WaitOnObject` and `UnlockMutex`; `spc[s]` separates the
flag from the notification in `Signal` and `SignalBroadcast`, between which anything may
happen. A blocked waiter wakes because it is notified, because its time is over, or
spuriously. `owed` is history: the waiters that were counted when the flag was last set.
So are `by` and `due`, which follow one call of `Signal`, any of them: `due` are the waiters that
were blocked when it set the flag, and the one that it then woke, until one of these returns.

### Assembler and ByteStream

`blocks` is the list of unread parts, `size` is `m_Size`; unsigned arithmetic is
modulo `UINT`. `Walk` is the search of `Peek`, made once for the first byte and once
for the last; `Copied` the copy between the two blocks found. A copy that leaves
its block has the value `NULL`. `ByteStream` states the same operations on one
sequence, with `reply` as what they return.

### Messaging and MessageChannel

The sender is `part` (header, body, trailer), `bytesSent` and `retryCounter`. Each
call of `xmitMsg` takes some bytes, none, or fails. `wire` holds what has been
transmitted; `ProcessChunk(n)` brings the first `n` bytes to the assembler, whose
stream is `held`, and each action of `Loop` is one way round the loop of
`processChunk`. The assembler is used through `ByteStream`, which `Assembler`
implements; a failed `Pop` is `TakeMissing`. The history `sent` holds the messages accepted before
the first send that failed half way: it leaves part of a message in the stream, and
nothing is promised of what follows.

### TcpMessaging

`socket` is `m_socket`, `open` the sockets the process has open, named by the call of
`connect` that made them. `BadAddress`, `Connect` (which may fail), `Disconnect` and
`Destroy` happen between messages: one application thread uses the object, so a
connection is never lost inside `send`, but a send may fail at any byte and the next
message may go over another connection. The bytes of all connections reach one
receiver one after the other, as in `testing/Tcp_Messaging_test.cpp`, where the data
callback ignores its handle. A send on a broken connection is taken to return -1: `SIGPIPE`
is ignored once a server was constructed in the process, not by this class.

### TcpServer

`sock[h]` is the connection at a descriptor. `srvPc` steps through `start`, with one
action for each access to shared state: `BuildSelectList`, `Drop` and `Erase` for
`close_list`, `Select` and `SelectReturns`, `Walk`, `NextData` and the outcomes of
`HandleData`, `Accept`, `Ask` and `Insert` of `HandleConnection`. `pc[t]` steps
through a call of an application thread or, for `t = Srv`, of a data callback.
`closeList` counts how often a handle is on `close_list`, up to three times in one
round.

- Sockets are modelled as the code uses them. `select` with a closed descriptor
  fails with `EBADF`; of one closed while it waits it may or may not report.
  A reset makes `recv` return -1 once and then 0. `accept` may give out any
  descriptor that is not open. Other errors of `select`, a failing `listen` and
  urgent data are left out.
- Only the listening socket is non-blocking (line 98). `full` are the connections whose other
  end does not read: `send` (529) blocks on one until it reads or ends, or the connection is
  closed, and with it the application's thread, or the server thread when a data callback sends.
- A data callback is registered and may call the API. Connection callbacks make no
  calls: they can run with the client list's mutex held.
- `WideSize` says that `size_t` is wider than `unsigned`, as on 64-bit Linux.

`TcpServerLife` adds the constructor, which binds a listening socket or leaves none,
`StartSeverThread`, whose thread ends at once if there is nothing to listen on,
`StopSeverThread`, after which the thread may end at any point where cancellation can take
effect (`CancelPoint`), with the mutex if it holds it, and the destructor in its two halves:
it closes the listening socket, and then, under the mutex, every socket of the client list.
The destructor is called when no call is running and
the server thread has ended, which is the caller's affair: the class has no way to wait
for the thread. Callbacks are registered before the thread is started.

### UdpServer

`InitServer` is `socket` and `BindSocket` what follows, which closes the socket if `bind`
fails; `ConnectPeer` is the rest of the constructor of a connected server.
`tpc[t]` is the step of a thread in `start`, `got[t]` the datagram it has received. Datagrams
and errors, for which `recv` returns -1, are numbers in the order in which they arrive; one that
finds the buffer
full is lost, and loss, duplication and reordering before that are the network's, so no
property depends on them. `blank` are datagrams of length 0, on which no callback is made.
Any number of threads may be started; `threadId` is the newest, which `StopServerThread`
cancels without waiting. `given`, `stopped` and `late` are history.

## The runs

Twelve runs. TLC explores all states of each instance.

| Run | Instance | States | What it shows |
|---|---|---|---|
| `live` | 1 client and callbacks that call, 1 timer, 2 cells, one-shot and auto-reset, fair | 242 k | no active timer is lost (`ActiveQueued`), no freed cell is used (`CellSafety`), no call finds its handle gone (`HandlesAreGood`); calls return; the destructor ends |
| `racing` | 1 client and callbacks that call, 2 timers, 3 cells, racing deletes | 1.06 M | table and queue agree (`OneLiveCell`); at most one late callback (`AtMostOneLateCall`) |
| `table` | 2 callers, 2 handles, at most 3 cells queued, two intervals, a clock with carries | 2.67 M | the heap loses no cell (`QueueMatches`) and is ordered until one is cancelled; `NeverEarly`, `WakesInTime`; the handle list is a pool |
| `wait` | 2 waiters, 2 signallers, fair | 37.5 k | the flag is kept for whom it was set (`OwedSeesFlag`); signals, broadcasts and timeouts release |
| `stream` | fragments of 0 to 3 bytes, at most 7 bytes in 4 blocks | 13 k | the assembler is a stream; `m_Size` is right |
| `messages` | messages of 0 and 3 bytes, 3 sends, 2 tries, 2 connects, fair | 453 k | framing, refinement of the channel, `sendMessage` returns, sockets are accounted for |
| `calls` | 1 thread and a callback, 1 descriptor, 2 connections, cancellation, destructor, fair | 478 k | the iterators, the listed descriptors and the two lists; a call waits for ever only in a send to a client that never reads or for a mutex a cancelled thread holds, a destructor only for the latter |
| `served` | 2 descriptors, 3 connections, fair | 357 k | while nothing is closed, `recv` never blocks and only ended connections are dropped; data and ends are noticed unless the callback hangs in a send |
| `datagrams` | 2 threads, a buffer of 2, 4 datagrams or errors, fair | 238 k | `GivenOnce`, `GivenInOrder`, `AtMostOneLateDatagram`, `DatagramReceived` |

The other three show that the code does not do what a comment or a test says:

| Run | What TLC finds |
|---|---|
| `expired` | `StopTimer` suspends a timer between two steps of the service thread, whose assertion "we should always have an active timer" (`Timer.cpp:390`) fails |
| `fires` | a timer queued between the empty test (350) and the wait (358) never fires, because its signal is lost |
| `healthy` | after `EBADF` the untouched error set drops every connection, though this "should not cause a problem" (`tcp_server.cpp:177`) |

### Bounds

- `Timer`: with two cells a cancelled one is still queued when the new one comes; in
  `live`, callbacks that call the API are the second caller, which overtakes the
  client's calls. That every number of clients, timers and cells behaves alike is
  proved for all its safety properties. `racing` has two timers, so that cells of
  different slots meet, and a third cell. With no cell left, allocation fails (`NoMemory`).
- `TimerTable`: `K` = 2 makes a second 8 nanoseconds and the sleep wrap at 16
  microseconds; the clock starts just before a second ends, so sums carry and differences
  borrow. Two callers put two cells in the queue while the service thread has a third;
  two handles are recycled. Higher heaps, more handles, longer times are covered by the
  proofs, which hold for all of them (`TableQueueMatches`, `TableOrdered`, `TableWakesInTime`,
  `SleepIsNotLate`, `TableNeverEarly`, `TableIsPool`).
- `WaitableObject`: two waiters make one of them leave first, two signallers make a flag
  be set between the other's flag and notification. Three waiters and one signaller were
  checked too (293 k states).
- `Assembler`: four blocks give a range a first, a last and two middle blocks, any
  of them empty; sizes reach beyond the total.
- `Messaging`: `Base` = 4 and two length bytes make unsigned wrap at 16, so that the
  sum at `Messaging.cpp:142` wraps for lengths read at the wrong place. One
  message consists of header and trailer bytes. Three sends give a message before
  and after a failed one, two connects a connection lost and one opened after it.
  `MaxSends` and `MaxConnects` bound the calls.
- `TcpServer`: with fewer descriptors than connections every descriptor is reused;
  a bound of two clients with three connections makes the server full. A connection
  has bytes to read or has not: how many is of no consequence to the server. In `calls`
  one descriptor is enough for two connections to be taken for each other; loops over
  several entries and several callers are covered by the proof.
- `UdpServer`: two threads are enough to overtake each other; four datagrams fill a
  buffer of two while each thread holds one.

`CHECK_DEADLOCK FALSE` is set where the system may stop: the timer destroyed or
failed, all messages sent, all connections used, the clock or the datagrams at their
bound, the server destroyed.

### Fairness

Threads inside the library are scheduled: strong fairness of the one step each can
take, since a thread that waits for a mutex finds it free again and again and the
scheduler gives it the mutex in the end; a send that finds room again and again is likewise
done in the end. Callbacks return. Nothing makes clients
call, other ends connect, send or read, or a condition variable wake up by itself. The
destructor is fair only once it has been called. A timed wait ends (`TimesOut`), even
if it is woken spuriously over and over: its end is a point in time, not a duration. The
notification that follows the flag in `Signal` is sent. A step of a server's life that ends
a call is fair; construction, destruction and cancellation are not owed to anybody. In `Messaging`, `xmitMsg` and
`processChunk` go on once called (weak fairness, nothing disables them) and chunks
are received while there are any; `getMsg` is never obliged.

## The proofs

Every safety invariant and every action property of a passing run is a theorem. The
hypotheses on the constants are the named assumptions of the modules and, where it says so,
one more.

### CTimer

`Timer_proofs` proves `TypeOK`, `ActiveQueued`, `CellSafety`, `FreedIsUnreferenced` and
`HandlesAreGood` (with callers that do not race a delete) for any number of
clients, timers and cells, from `ConstantsAssumption` only: the threads, slots and
cells are distinct from each other and from `NULL`. The properties are not inductive:
that an active timer's cell is queued says nothing about who may free it. The
invariant `IInv` adds

- `Control`: the table's mutex excludes and each call is where its locals say;
- `Exclusive`: a slot being opened or deleted is in nobody else's hands;
- `Owners`: each cell has one owner, the queue, the service thread or the call that
  will queue it;
- `Linked`: a slot and its cell refer to each other;
- `Live`: an active timer's cell is pending.

`Control` is inductive for any callers and gives `TypeOK` alone. The queue's mutex is
not part of the argument, and could not be: the service thread frees it under
other threads. That is also why the proof does not assume that a push excludes a pop.

`OneLiveCell` and `AtMostOneLateCall` hold with any callers, racing deletes included, and
need another invariant, `AutoInv`, because `IInv` does not survive such callers: which slot a
live cell points to (`Pointed`), that a slot which is active, or being armed, is the one its
cell points to (`Agreed`), where a call stands between cancelling the old cell and writing the
new one (`Midway`), and how many callbacks a stopped timer may still owe (`Counted`). They are
proved, and run, with auto-reset timers only (`FALSE \notin AutoResets`): with one-shot
timers they are false, as "Deviations" says.

### The table

`TimerTable_proofs` proves the arithmetic against the reference in nanoseconds for every
time and every `K` (`CompIsOrder`, `AddIsSum`, `DiffIsDifference`, and `SleepIsNotLate`: the
difference is taken at one reading of the clock and the wait counted from another, and the
sleep truncated to microseconds and modulo `UINT` lasts no longer from the second than was
left at the first); that the
free list is a permutation of what is not in use, hence the refinement of `HandlePool`; and
`NeverEarly`, from the invariant that an entry's expiry is its last setting plus its
interval and that what `Expire` found due stays due, whatever becomes of the timer. None of
that depends on the order of the heap.

`ServiceInv` says what each step of the service thread knows while callers run between them:
that the timer taken is still the root or its cell cancelled in place, since nobody pushes
meanwhile; that as long as it is queued the sleep is the one computed from its expiry; and,
asleep, that the sleep does not exceed what was left.

`TypeOK`, `QueueMatches`, `WakesInTime` and `OrderedUntilCancelled` do, for a heap of any size:

- Sifting up and sinking only move cells, so `Push` and `Pop` keep every cell but the one
  pushed or popped, and none twice (`Holds`), whatever the order of the array. This is all that
  `QueueMatches` needs, and it is what saves `CTimer` when a cell inside the heap has been
  cancelled and the array is a heap no more.
- In a heap that is `OrderedAround` one place, sifting that place up, or sinking it to a
  leaf and sifting up from there, as the library's `pop_heap` does (`Sinking`), gives a heap
  (`Ordered`).
- If the *last* cell of the array is cancelled, `pop_heap` takes it to the root, because the
  comparator has a cancelled cell go before any other, and leaves the order of the others.

The recursive functions of the heap are first shown to exist, and then used by their
equations (`RecursionDefines`).

### CWaitableObject and CUdpServer

`WaitableObject_proofs` proves `WaitTypeOK`, `CountIsWaiting` (by cardinalities of finite sets)
and, from it, `OwedSeesFlag`: the last to leave resets the flag, so whoever is still owed it
is still counted. `UdpServer_proofs` proves `UdpTypeOK`, `AtMostOneLateDatagram`, `NoSocketLeft`,
`GivenOnce` and `GivenInOrder` from an invariant about where each datagram is (`ApartInv`,
`SortedInv`, `InOrderInv`). `NoSocketLeft`, for which each place that fails or destroys must close
the socket, and only when no thread is in its loop, follows from `SocketInv`, the step of the
life at which the socket is open.

### CAssembler

`Assembler_proofs` proves `SizeIsTotal`, and that the block list refines `ByteStream`
(`AssemblerIsStream`), for any fragments. Everything goes through `Depths`, the number of
bytes before each block, and `Lies`: byte *j* of block *k* is byte `d[k - 1] + j` of the
stream. A list has one `Depths`, a stream that lies in a list is the only one
(`LiesUnique`), and `FlattenSeq` of the list is that stream (`FlatLies`); so what is said of
streams becomes a statement about positions. A copy out of one block, a run of whole
blocks, and what is left of a cut block are pieces of the stream (`PieceOfBlock`,
`FlatSublist`, `TrimmedIsAfter`). `Peek` then joins adjacent pieces, once it is shown that the
first search ends in the block that has the first byte and the second in the one that
has the last, in that order (`PeekBlocks`), and that none of the unsigned differences wraps.

The refinement is under `PeeksFit`: no caller asks `Peek` for an end beyond the range of
unsigned. `assembler.cpp:74` does not check it, and the refinement is false without it. The
callers in the library peek at offset 0 only. `SizeIsTotal` does not need it.

### CMessaging and CTcpMessaging

`Messaging_proofs` proves `TypeOK`, `IntactPrefix` and `NothingHeldBack` for any messages,
base, length bytes, number of tries, transmissions and chunks, and that each step of
`Messaging` is a step of `MessageChannel` or none (`MessagingIsChannel`). The length field is shown
to survive being written with divisions and read with multiplications (`LengthSurvives`,
through `DivisionByFactors`). The invariant is that of a stream of frames: what the receiver
holds and what is on the wire are, together, whole frames of the messages still to be
received followed by the beginning of the frame being sent (`InTransit`), until a send has
failed half way; afterwards they begin with whole frames followed by the beginning of
the one that was broken off (`PastFailure`), and whatever the receiver makes of the rest,
`sent` is behind it. Since the frame of a message says its length, a stream splits into
frames in one way (`Splits`), so the receiver takes the frame that was sent.

This is under `MessagesFit`: a message with its header and trailer has a length below the range of
unsigned. `sendMessage` does not check it, and the sum of `Messaging.cpp:142` wraps otherwise.

`TcpMessaging` adds only steps that `Messaging` does not see (`TcpIsMessaging`), so all of it
holds of `CTcpMessaging` too (`TcpMessagingCorrect`); `SocketsAccounted` is proved beside it.

### CTcpServer

`TcpServer_proofs` proves `TypeOK`, `MutexHeld`, `IteratorsValid`, `ListedIsOpen` and
`CondemnedAreListed` for any number of threads, descriptors and connections, from
`ServerAssumption`. Here `IInv` adds what the two lists hold at each step of the loop
(`Lists`: `close_list` is empty when `select` is reached, so a handle is on it at most
three times), the locals of each thread (`Locals`), and `NewSocket`: a descriptor
`accept` has just returned is new to the list or that of an entry closed or about
to be marked so. Without `NewSocket`, `Insert` could not be shown to keep `ListedIsOpen`.

The same module carries the invariant through construction and destruction:
a step of `TcpServerLife` is one of `TcpServer`, by `InvStep`, or leaves its state alone, or
ends the server thread, or is the destructor, which needs that the thread has ended and no
call is running.

`RecvIsReady` and `OnlyEndedDropped` are proved, as they are run, for callers that only send
(`Calls \subseteq {"send"}`): a connection closed by a call is a different one at the same
descriptor the next moment. `Served` adds to `IInv` that each descriptor of the list is one
connection (`OneDescriptor`), that what `select` found ready stays so until it is read
(`ReadsReady`), and that what is on `close_list` has ended (`ToCloseEnded`).

### Induction over data

The library's induction theorems take an operator and cannot be used here. `DataLemmas`
states induction of sets instead (a set with 0 and with the successor of each of its
members has every natural; course-of-values likewise), and from it that a recursive
definition of a function has a solution: `IterationDefines` for `f[i]` from `f[i - 1]`,
`RecursionDefines` for arguments of a lower rank. With them what `FlattenSeq`, `Depth`,
`Power`, `LengthIn` and the heap compute is proved for every input.

### What is only model-checked

Liveness: `CallsReturn`, `DestructorEnds`, `DataDelivered`, `EndIsNoticed`, `BroadcastReleases`,
`SignalReleases`, `TimedWaitEnds`, `SendReturns`, `DatagramReceived`, and the fairness in
`ImplementsChannel`. Fairness speaks of ENABLED, which is out of the prover's reach.

Properties that are proved for every value of the constants and that a run would only
repeat are not checked by one: `FreedIsUnreferenced`, `MutexHeld`, `FreeIsComplement`,
`WaitTypeOK`, `CountIsWaiting`, `UdpTypeOK`, `NoSocketLeft`. The inductive invariants were
checked with TLC before they were proved.

## Deviations seen in the models without a run of their own

No passing property contradicts them. They are reachable in the modules at the lines named,
but for those marked *not modelled*, which were seen in the code.

- `Timer.cpp:372`: a late signal leads to `top()` of an empty queue (`EmptyTop`).
- `Timer.cpp:351`: a wait can be entered without the mutex `WaitableObject.h:79` asks for.
- `Timer.cpp:18, 31`: the exit flag is true before the thread has run, so an early
  destructor takes it for gone (`UseAfterDestroy`).
- `Timer.cpp:292`: a full table aborts where line 275 has it return `INVALID_TIMER_HANDLE`.
- `Timer.cpp:428`: "No more expired timers" need not be so. A cell NULLed in place blocks
  those below it: create timers 0 and 1 with 3 ms, restart 1, create 2 with 1 ms. The heap
  is then 0, NULL, 1, 2, and timer 2 is served only after timer 0. `OrderedUntilCancelled` is
  all that can be promised.
- `Timer.cpp:416`: with one-shot timers a stopped or deleted timer can call back more than once, and
  a timer can have two live cells. The service thread, about to call a one-shot timer back, sets it
  to suspended without looking whether it was restarted since it expired; the restarted cell stays
  queued, and no later call cancels it because the state no longer says active. With
  `AutoResets = {TRUE, FALSE}` TLC finds `AtMostOneLateCall` and `OneLiveCell` violated.
- `Timer.cpp:424`: a timer restarted, or deleted and created anew, after it was found expired (387) is
  called back all the same, long before the interval it was given has passed: callers hold the
  other mutex. `NeverEarly` is what remains.
- `Timer.cpp:436`: the sleep computed from the reading at 375 begins at the reading of
  `WaitableObject.h:115`, so a timer is served late by the time between the two.
- `Timer.cpp:534`: the comparator tests a cell and then follows it, while a caller with the other
  mutex may set it to `NULL` (159, 195, 235) in between (*not modelled*: the heap functions are atomic).
- `Timer.cpp:475` (*not modelled*): `DumpTimersQueue` reads the size before it takes the mutex, has room for 100
  cells of a queue that may hold more, and dereferences cancelled cells (497).
- `Timer.cpp:424`: one callback can begin after `DeleteTimer` has returned.
- `WaitableObject.h:90`: a flag still set from an earlier signal, or for another waiter, lets a
  spurious wake-up pass for a signal: one `Signal` can release two.
- `assembler.cpp:74`: offset+size wraps, and a range that is not there is accepted.
- `Messaging.cpp:142`: the sum wraps, and a message that is not there is taken
  (`TakeMissing`); `159`: a bad trailer leaves complete messages waiting for the next
  chunk while `processChunk` returns false (`BadTrailer`).
- `Messaging.cpp:95`: an empty message cannot be sent, and leaves its header behind.
- `tcp_messaging.cpp:75`: a connect while connected overwrites the socket, which stays open for
  ever; one with a bad address returns false and leaves the old connection in use (70). Part
  of a message that was sent over a connection corrupts what is sent over the next.
- `tcp_server.cpp:292`: a connection accepted at a descriptor whose closed entry is still
  listed is not added, because `map::insert` does nothing (`Insert`); it inherits the mark and
  is dropped without being closed. The comment at 290 says "add it to the list of sockets".
- `tcp_server.cpp:318`: with `WideSize` a failed `recv` goes to the data callback with
  a length of 2^32-1 (`RecvError`); `329`: without a connection callback the end of a
  connection is ignored for ever (`CloseEnded`).
- `tcp_server.cpp:165`: connections ended by the other side are never closed, and the
  descriptors run out; `172`: `select` may wait on for a connection closed meanwhile.
- `tcp_server.cpp:529`: accepted sockets are blocking, and a client that stays and does not read holds
  up its sender (`HeldUp`). If that is the data callback, the server thread serves nobody.
- `tcp_server.cpp:316`: when `select` has failed with `EBADF` the read set still has every client, and
  `recv` blocks on one that has sent nothing: with calls that close, `RecvIsReady` is false.
- `tcp_server.cpp:421`: a descriptor of `FD_SETSIZE` or more does not fit the sets (*not modelled*).
- `tcp_server.cpp:529`: `SendToClient` can send to another client's connection, between
  `Find` and `Send`; `556`: a cancelled server thread may leave the mutex locked (`Cancelled`),
  and then calls and the destructor block (`DiedWithMutex`).
- `tcp_server.cpp:343` (*not modelled*): the destructor neither ends nor awaits the server thread, which
  may still use the list and the mutex. `StopSeverThread` (556) returns before the thread has
  ended, and `testing/Tcp_Messaging_test.cpp` destroys the server right after it.
- `udp_server.cpp:210, 236`: `start` "does not return until the socket is shutdown", and "that's
  how we stop the receive", but the loop is `while(1)` (234):
  a closed socket makes it spin (*not modelled*: the application destroys the server when its threads have ended).
- `udp_server.cpp:264`: `StopServerThread` cancels the newest thread only, does not wait, and a
  datagram may be given afterwards; `205`: the callback is stored before its user pointer, with
  no lock, while a thread may be calling it; `117`: `SendToClient` prints "Cannot send data" and sends.

## Not modelled

`IsTimerActive`, `getMsgSize` and `DumpValidTimers` only read, and the macros of `TRACE.h` only
print. `timespec2ms` is used nowhere but in messages. `CUdpServer::SendToClient` passes its bytes to
the socket and touches nothing else. Memory is assumed to be available except for cells.
What happens after undefined behaviour (destroying a server under its thread, a dump of
cancelled cells, a handle the class did not give out) is described above and not modelled.
The unit tests were read for what they expect; googletest is vendored.

## What could follow

All components of the library are modelled, and every safety property of a passing run is
proved. What remains is liveness, which stays with TLC, and the two hypotheses under which
the timer's and the server's finer properties hold: what can still be promised of one-shot
timers, and of a server whose callers also close.
