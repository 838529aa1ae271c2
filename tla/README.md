# async_nostd in TLA+

A verification project for `async_nostd`, a `no_std` HTTP and WebSocket server
with its own threads, executor, scheduler, IO registry and allocator. Modules are
translated from the source; `PROJECT.json` maps every definition to the lines it
stands for and lists runs, mutants, findings, hazards and theorems. Source paths
here are relative to the repository root.

## The system

`main` opens a listening socket, spawns `accept_loop` as a task, and turns itself
and `worker_count` cloned threads into workers. A worker takes a handle from the
schedule and polls its task; when there is none it waits in `ppoll` for sockets or
for an eventfd that every wake signals.

| Component | State | Operations | Talks to |
|---|---|---|---|
| executor `crates/executor/lib.rs` | none of its own (a counter nobody reads) | `start_workers`, `worker_loop` | takes handles, polls tasks, calls `ppoll_and_schedule` |
| IO registry `crates/runtime/io_registry.rs`, `ppoll_and_schedule` in `crates/runtime/lib.rs` | `IO_REG`: entries (fd, events, wakers); the eventfd | `register_fd_waker`, `unregister_fd`, `signal_eventfd`, `ppoll_and_schedule` | wakes handles; read and written by all workers |
| scheduler, ready stack `crates/runtime/scheduler.rs` | `SCHEDULE_HEAD`, `FREELIST_HEAD`, `FREELIST_COUNT`, nodes | `wake_handle`, `take_scheduled_task`, `alloc_node`, `free_node` | lock-free between all workers |
| scheduler, task slots (same file) | `SLOTS` (generation, inner lock, future), `FREE_SLOTS`, `NEXT_SLOT` | `spawn`, `poll_task_safe` | two locks, one atomic |
| net futures `crates/net/lib.rs` | `fd`, `registered` of each future | `poll` of accept, recv, send | non-blocking socket calls, `register_fd_waker` |
| accept loop `src/main.rs` | none | accept, spawn, wake twice | scheduler |
| HTTP, WebSocket `crates/http/lib.rs`, `crates/websocket/lib.rs` | the handler's progress, unread bytes, fragments | read, route, answer, handshake, frame loop, close | net futures, `unregister_fd` |
| allocator `crates/runtime/allocator.rs` | `HEAP_START`, `HEAP_CUR`, `HEAP_END` | `alloc` | every allocation of every thread |
| parsing, crypto `crates/utils/*.rs` | none; `sha1` its five words and schedule | frames, headers, `sha1`, `base64_encode` | called by the WebSocket handler |
| start-up `crates/runtime/lib.rs`, `config.rs` | constants | argument parsing, number formatting | calls `main` |
| system calls `crates/syscall/lib.rs`, pty | none | wrappers and a stub | |

Hard behaviours are the races between workers: on the registry (a snapshot is
polled and its result applied later), on the eventfd (one blocking read clears the
signals of many wakes), on the two lock-free lists, on a slot whose task ends while
a stale handle is being polled; and the limits of slots, freelist, heap and
descriptors. Inside one connection they are the cuts of the byte stream: a request or
a frame in several segments, several frames in one, short writes, a peer that leaves
or resets in the middle, and socket flags switched for the handshake.

What must hold: no wake-up is lost; a suspended task is reachable by
some wake; an entry of the registry never outlives its socket; a slot is held by one task; the
schedule is a stack; blocks do not overlap; clients are accepted, read and closed; a
client receives exactly the answers it is owed, in order; bytes are decoded to what
was sent.

## Modules

| Module | Models |
|---|---|
| `Reactor` | workers, schedule as a sequence, eventfd, registry, `ppoll_and_schedule`, futures, accept loop, control of the handlers |
| `TaskSlots` | `spawn` and `poll_task_safe` with both locks, generations and the free list of slots |
| `Treiber` | the schedule and the node freelist, one action per atomic operation |
| `TaskStack` | abstract: an atomic stack of handles; `Treiber` implements it |
| `BumpAllocator` | `alloc`, its unsynchronised initialisation and its compare_exchange loop |
| `Connection` | one connection: `handle_http_connection`, `accept_and_run`, `send_ws_payload` over a stream cut anywhere, partial writes, a peer that leaves |
| `Parsing` | the functions on frames and headers, on bytes |
| `Arguments` | numbers, addresses and the program's arguments |
| `Crypto` | `sha1` (a step per loop iteration) and `base64_encode` |
| `FrameStream` | the receive buffer of `accept_and_run` on bytes; puts `Parsing` to its inputs |
| `PureFunctions` | `FrameStream` together with `Arguments` and `Crypto`, which it puts to their inputs |
| `ReactorProofs` | theorems and proofs about `Reactor` |
| `TaskSlotsProofs` | the same about `TaskSlots` |
| `TreiberProofs` | the same about `Treiber` and its refinement of `TaskStack` |
| `BumpAllocatorProofs` | the same about `BumpAllocator` |
| `SequenceLaws` | induction, recursive functions and `FlattenSeq`, for the proofs about streams and loops |
| `ConnectionProofs` | theorems about `Connection` and lemmas on its streams and scripts |
| `FrameStreamProofs` | theorems and proofs about `FrameStream` and the functions of `Parsing` |
| `PureFunctionsProofs` | theorems and proofs about the functions of `Arguments` and `Crypto` |
| `MC*` | instances for TLC |

Operators whose comment begins with "Fault:" are not part of a specification. Each
is a changed form of the definition that follows it and shows, in the mutants of
`PROJECT.json`, that a property notices such a change in the code.

### Reactor

A worker's `pc` names the place in `worker_loop` it has reached: `take` before
`take_scheduled_task`; `check`, `lock` and `poll` in `poll_task_safe`; `register`,
`unregister`, `refresh`, `close` inside a poll; `wake` and `signal` inside
`wake_handle`; `snapshot`, `ppoll`, `drain`, `scan` in `ppoll_and_schedule`. Steps
are cut at shared accesses: one lock region, one system call or one push per step.
`regEvents` and `regWaiters` are `IO_REG`, `evt` is the eventfd's counter (zero or
positive: a read always resets it), `registered` the flag of each task's current
future. A task's name stands for its handle. `slot` is the slot the handle names and
`latest` the task last spawned into each slot, which is what the generation tells:
a handle passes the check until its slot is given to another task. The worker then
locks the slot and polls whatever task is in it (`polled`) with the waker of the handle
it took (`cur`), so that slots and descriptors are reused under stale handles as in the
code. A handler is a `phase` and the `replies` it still has to send: an answered
request closes, a failed handshake closes, a successful one sends a welcome and
enters the frame loop, where each chunk asks for 0 to `MaxReplies` sends and a close
frame may end it. Clients connect, send, read and go at any time.

Abstractions: the handshake's temporary blocking mode is one step, as nothing is in the
send buffer yet; byte contents and partial writes are a choice of how many sends follow;
`spawn`, and a handler's close with the release of its slot, are one step each and slots
suffice (`TaskSlots` has the steps and the full table); the stack is a sequence, which
`Treiber` implements only without recycling between several threads (`treiber_aba`); a
send to a dead connection fails (that it may raise `SIGPIPE` is in `Connection`); the
eventfd can be created; a worker count that `clone` does not reach is a smaller
`Workers`; `ppoll`'s list is scanned in any order.

### TaskSlots

`accept_loop` is the only spawner and holds the lock of its own slot while it runs,
so it is one process; the other workers poll. What a handler does is abstracted to
Ready or Pending, with or without a new waker. A full table ends the spawner
(`spc = "dead"`), as the panic handler exits the calling thread. Memory ordering is
sequentially consistent here and in `Treiber`.

### Treiber and TaskStack

Node addresses are numbers, the allocator hands each out once, `next` and `handle`
are functions on nodes, and each load, store and `compare_exchange` is a step.
`schedSeq` and `freeSeq` are history variables: the nodes pushed and not popped.
The refinement maps a push and a pop to their successful exchange.
`FREELIST_COUNT` wraps at `CountSpan`. `freed` counts pushes less pops of the freelist,
which says how long it is also where ABA has damaged it.

### BumpAllocator

Each load and store of the three heap words is a step; `mmap` may fail or return a
new region; a null result ends the thread. `workers` records that `start_workers`
has run, which `main` reaches only after its own first allocation. Addresses wrap
at `WordSpan`, so that `checked_add` has something to catch. `AllocatorAssumption`
asks only for a heap that lies below the end of the address space.

### Connection

`pc` is the place in the handler: `request` and `extra` are the two reads of
`handle_http_connection`, `handshake` the send loop of `accept_and_run` with
`O_NONBLOCK` cleared, `send` any `SendFuture` (with `sending` the messages still to
send and `off` the units of the first that are gone), `frames` the read of the frame
loop, `parse` its inner `while let`. A future that returns `Pending` is a step that
is not enabled; `Reactor` shows how it is woken.

Bytes are counted in units. A request is a kind and a length with three marks: where
its route can be told, where its key header begins and where the key's line ends; what
the handler makes of the first `g` units is `Route(g)`. A frame's payload is its
number, so an echo names the fragments it is made of. `Parsing` and `FrameStream` look
at the bytes themselves.

The client is a conforming one: it sends frames only after it has sent its request and
read a good 101 answer. Its frames follow no further order: continuations without a
message, control frames between fragments and a new message inside a fragmented one all
occur. When the request was answered before all of it had been read, from its first
segment or because it is longer than both reads (`~InStep`), the frame loop receives the
rest of it and every later byte out of step (`RecvLate`): it parses them as any frame
and answers it (`StrayFrame`, at most `MaxStray` times), waits, or panics on a length
that wraps (`StrayPanic`). It may leave in order (`left`), by a reset (`reset`: an error
is pending), and after either a write meets a dead connection (`pipe`). The disposition
of `SIGPIPE` is inherited and never changed by the program: where it is the default,
such a write ends the process (`killed`).

`whole`, `stray` and `cut` are history variables. `stray` counts the frames parsed out of
step. `cut` records a short write of a message
that is sent with a single `SendFuture` (a ping, a pong, the fallback of the
handshake): the rest of it is dropped, and no well-formedness is claimed from there
on, nor from the first stray frame on. A page or 404 is assumed to fit the empty send
buffer (`ConnectionAssumption`). The fallback of the handshake for `wrote == 0` is not a
branch of its own: `sendto` does not return 0 for a length that is not 0.

### Parsing, Arguments, Crypto, FrameStream, PureFunctions

Bytes are numbers. The two long forms of a frame length have `ExtBytes` and `LongBytes`
bytes instead of 2 and 8, and a `usize` has `LongBytes` bytes and wraps as in a release
build, so that every boundary is reached by short buffers. In `FrameStream` the initial
state chooses an input: a stream of frames, which chunks of any size bring into
`buf_acc`, any bytes at all (`AnyBytes`), which come the same way and may make the
parser panic (`pc = "dead"`: the panic handler exits the thread), or the argument of one
of the functions of `Parsing`, whose property compares it with a reference definition in
that state. `PureFunctions` adds the inputs of `Arguments` and `Crypto` and the steps of
`sha1`. The references are RFC 6455's framing (`WireBytes`), the text of a request
(`RequestText`), the characters a user meant (`Text`), the bits of a byte string
(`Bits`), and accept values computed independently. `sha1` is a state machine with one
step per schedule word, round and chunk, on 16-bit halves as TLC's integers have 32 bits
with a sign.

`FrameStreamAssumption` says which inputs are meant: frames of a conforming client and
announced lengths below half of a `usize` (RFC 6455 demands a clear top bit; larger ones
are among `AnyBytes`, which is any set of byte strings), and requests in which the name
that is looked for stands only in front of its values, which have neither CR nor colon
(`PlainRequests`). `find_header_value` looks for the bytes of the name anywhere and
skips colons, so a name inside another line's value, or a value that begins with a
colon, is taken otherwise; a key is base64 and has none. `PureFunctionsAssumption` does
the same for the other functions: a word has at most 8 bytes, a number fits a `usize`, a
source is a byte string, and an argument is numbers joined by dots with perhaps
something else behind them, the third one a port below 65536 (`Meant`). Larger numbers
wrap in the code. The bitwise operations of `sha1` are written out bit by bit
(`Common`).

## Runs

All figures are distinct states.

| Run | Bounds | Shows |
|---|---|---|
| `reactor` (2.2 million) | 2 workers, 2 connections on 1 descriptor and 1 slot, 2 segments, 2 sends, full send buffers | `TypeOK`, `NoStrandedWork`, `Watched`, `RegistryNamesSlot`, `WakesBounded` |
| `reactor_one` (406 thousand) | 1 worker, 2 connections, 2 descriptors and slots, fairness | `NotForgotten`, `InputIsRead`, `ClientIsServed`, `ConnectionEnds` |
| `reactor_stale` | 2 workers, 1 connection | violates `NotForgotten` |
| `reactor_events` | 1 worker, 1 connection, full send buffer | violates `WaitsForItsEvent` |
| `slots` (902 thousand) | 3 workers, 2 connection slots, 4 spawns, fairness | `TypeOK`, `SlotConservation`, `ClaimsEmptySlot`, `OwnHandlePasses`, `SlotsReleased` |
| `slots_foreign` | 2 workers, 1 connection slot, 2 spawns | violates `NoForeignPoll` |
| `treiber` (39 thousand) | 1 waker, 1 taker, freelist of 2, 5 wakes, fairness | `TypeOK`, `MemoryIsStack`, `FreelistBounded`, `ImplementsTaskStack`, `OperationsEnd` |
| `treiber_aba` | 2 threads in both roles, freelist of 2, 3 wakes | violates `MemoryIsStack` |
| `alloc` (516 thousand) | 3 threads, 5 allocations, 11 bytes of heap, 48 addresses | `BlocksDisjoint`, `BlocksInHeap`, `HeapMappedOnce` |
| `connection` (1.28 million) | requests of 5, 8 and 10 units, reads of 6 and 3, 3 frames, 2 stray frames, send buffer of 3, 2 handshake iterations, fairness | `TypeOK`, `NonBlockingFutures`, `WholeRequestAnswered`, `StreamWellFormed`, `NothingLeftBehind`, `ClosesAfterAnswer`, `FramesAnswered`, `ConnectionEnds` |
| `connection_split` | the same without frames | violates `RequestUnderstood` |
| `bytes` (81 thousand) | streams of up to 4 frames, any bytes up to 5 and announced lengths up to the largest `usize`, payloads to 300 bytes, length fields of 1 and 3 bytes, every beginning of a request, numbers and argument lists at their limits, keys of 0 to 84 bytes | `DecodesWhatWasSent`, `AnyBytesParsed`, `ServerFramesValid`, `LegalLengthsWait`, `KeyOfPrefix`, `NumbersReadBack`, `ListensWhereAsked`, `AcceptsAsTheStandard`, `Base64Faithful` |

Bounds. Two workers are what the registry and eventfd races need, one to act and one to
be late; the invariants that hold are proved for any number. Two connections on one
descriptor, with one slot beside the accept loop's, make the reuse of both happen; two
segments and two sends let a frame loop read, send, wait for room and read again. Slots:
two connection slots and four spawns reuse each slot, three workers leave one with a
stale handle while another finishes and a third frees; the table has as many slots as a
handle's mask can name. Treiber: five wakes with a freelist of two recycle nodes and
overflow the freelist; three suffice for the ABA and two takers for the race on its
count. The heap is small enough to run out and holds an aligned block after an unaligned
one. Connection: a request of 5 units fits the first read, one of 8 needs both, one of
10 leaves a unit behind; two stray frames are a fragmented message; three frames are a
message in two fragments with a control frame or another message between them; a send
buffer of 3 units cannot take two echoes of 2, so writes are split and wait. Bytes:
payloads of 125, 126, 255 and 256 bytes are the edges of the length forms, legal lengths
reach half of a `usize`, others stand on both sides of the one where the sum wraps, and
the keys end on both sides of the byte where SHA-1's padding takes another chunk.

Symmetry is used in `reactor` only, on workers and connections,
where no property is temporal. Deadlock is checked in the Reactor, Treiber, Connection
and `bytes` runs (a finished connection, stream or function stutters). In Reactor, a
Reactor worker can always leave `ppoll` with an error and go round again, so a deadlock
would be workers stuck on locks and reads. It is off for `slots` (workers whose handles
are all used up are not followed into `ppoll`) and `alloc` (threads may have ended).

Fairness. Every thread that can take a step does so eventually: the kernel schedules
all threads. In `Reactor`, `Ppoll` is strongly fair in addition: a worker that
retries after an interrupted `ppoll` and finds something ready is not interrupted
for ever. Spin locks have no fairness of their own, and clients have none: they need
never send, read or leave. `Treiber` asks for progress only inside a call, so a
thread that has begun `wake_handle` or `take_scheduled_task` goes on. `Connection`
asks that a handler that can go on does, and that the reset that answers bytes to a
departed client arrives. `Reactor` shows when the code gives the first: with one worker
and as long as no send buffer fills (`OneWorkerForgetsNone`, proved). With several
workers (`reactor_stale`, `slots_foreign`), or once a `SendFuture` has had to wait
(`reactor_events`), the wake-up of a suspended handler can be lost and it stays
suspended, also when its client leaves. `FramesAnswered` and `ConnectionEnds` are
therefore stated for behaviours in which the send buffer is never full, and of one
worker: nothing is claimed of the others. Clients are not assumed to read or to leave.

### What the violations show

* `reactor_stale`: two workers return from `ppoll` with the same fd. The first takes
  the entry, the task runs and registers again in a new future; the second takes that
  entry on the strength of its old revents, the task finds nothing, has `registered`
  set and suspends with no waker anywhere. In the trace the task is `accept_loop`, so
  the server stops accepting. With one worker the property holds (`reactor_one`).
* `reactor_events`: `register_fd_waker` keeps the events of an existing entry, so a
  task that first registered for input and now waits to send waits for input.
* `slots_foreign`: the generation is checked under `SLOTS`, the task polled under its
  own lock, and the slot can be reused in between.
* `treiber_aba`: the freelist recycles a node between another thread's load of
  `head.next` and its `compare_exchange`. Without recycling, or with one thread that
  wakes and one that takes, the stack is correct for any number of wakes
  (`ScheduleIntact`): recycling between several threads is the only cause.
* `connection_split`: the second read of a request happens only when the first
  returned exactly 2048 bytes, so a shorter first segment is routed as if it were the
  whole request: a known route gets a 404, an upgrade is closed for want of its key or
  gets an accept value made from half of it. A request that is there in full when it is
  first read is answered correctly (`WholeRequestAnswered`).

Three further configurations, beside the runs of `PROJECT.json`, are for the same
questions from another side:

* `ReactorForeign.cfg` (`MCReactor`) is what `slots_foreign` does to the registry, and
  violates `RegistryNamesOwner`. A worker that has served a connection and closed it takes
  its second wake and passes the check; another worker accepts a client on the same
  descriptor and in the same slot; the first then polls the new task with the dead handle's
  waker and registers its socket with it. What wakes this waker wakes nobody. That the
  registry leads to the right slot does hold (`RegistryNamesSlot`).
* `TreiberCap.cfg` (`MCTreiber`) violates `FreelistCapped`: two workers pass the check of
  `FREELIST_COUNT` before either has counted its push, and the freelist has a node more
  than `FREELIST_MAX`, against the "256 cap" of `README.md:114` and the "Maximum freelist
  size" of `crates/runtime/config.rs:6`.
* `TreiberTakers.cfg` (`MCTreiber`, 1.46 million states) passes: with two takers the excess
  is one node (`FreelistBounded`), as `FreelistStaysSmall` proves for any number.

## Proofs

`ReactorProofs`, for all sets of workers, connections and descriptors, from
`ReactorAssumption` (the constants are distinct, the bounds are naturals):

* `TypeCorrect`, `RegistrySound`: `RegistryNamesSlot` is not inductive. It needs
  that the worker in a poll holds the lock of the slot, that no two workers do, and
  that a worker about to close polls a live connection (`Control`); that live
  connections have distinct open sockets and an fd between `unregister_fd` and
  `close` has no entry (`Ownership`); and that a live task is the last one spawned into
  its slot and a worker polls a task in the slot of the handle it took, whichever task
  that is (`Placement`). `IndInv` is the conjunction of these with `TypeOK`
  and `RegistryNamesSlot`; one lemma per conjunct, with one step per action.
* `NoLostWakeup`: `NoStrandedWork` is inductive with the types. A worker becomes a
  waiting one only when it has seen the schedule empty; a push leaves its own worker
  in `signal`; a read of the eventfd leaves the reader on its way to `take`.
* `RegistryWatched`: a worker that blocks in `ppoll` has just taken its list; an entry
  added later comes from a worker that is running and will take a list in its turn, so
  the last one to block has all entries.

Its second part, from the same assumption and `IndInv`, is about tokens. A token of a
task is one of its wakes, with its place: a position in the schedule, a poll, a waker in
`IO_REG`, or an entry in the list a worker is waking.

* `WakesDoNotMultiply`: a cardinality cannot be followed through a step by the prover, so
  each action has a lemma (`...Carries`) that gives two functions: one takes every token
  after the step to the token before it that it comes from, the other takes it back. A set
  with such functions into a finite set is no larger (`Carried`). Only `Accept` makes
  tokens, two for a task that has none, so the invariant (`FewTokens`) also says that a
  task that is not accepted yet has none.
* `OneWorkerForgetsNone`, under `OneWorker` (`worker_count` 0) and `~SendBuffersFill`.
  `NotForgotten` is inductive with `OneInv`: the worker's list in `ppoll` is the registry
  itself, what it found ready is still ready when it takes the entries (`ReadyOf`), futures
  wait for input only (`SendsNeverBlock`), and a future that has registered has its waker
  in the registry or its input at hand (`WaitersKnown`), so a poll that ends in `Pending`
  without registering leaves a waker behind. `reactor_stale` breaks `ReadyOf` with a
  second worker, a full send buffer breaks `SendsNeverBlock`, and `NotForgotten` fails.

`TaskSlotsProofs`, for any number of workers, slots and spawns, from `SlotsAssumption`:
`TypeCorrect`, `SlotsConserved`, `SpawnsIntoEmptySlot` and `OwnHandleReaches`. The
invariant states conservation without counting: a slot is in at most one place and there
once (`OnePlace`), and in some place exactly when `NEXT_SLOT` has passed it (`SomePlace`).
A worker empties a slot only while it holds the slot's lock (`Locked`), so of two workers
with handles of one task only one goes on to free it. `OwnHandleReaches` has the
hypothesis `HandlesSuffice`: a handle's 32 bits tell the generations apart and its mask
names every slot. A program that spawns 2^32 times into one slot leaves it.

`BumpAllocatorProofs`, for all threads, layouts and heaps, from `AllocatorAssumption`:
`Disjoint`, `InHeap` and `MappedOnce`. The invariant says which heap words are stored
at each step of the initialisation and that only main runs until it is complete
(`Boot`), that a checked request fits (`Pending`), and that all blocks lie below
`HEAP_CUR` (`Below`); a successful exchange then places its block behind all others.

`TreiberProofs`, for any threads, handles and number of wakes, from `TreiberAssumption`
and, but for `FreelistStaysSmall`, the condition `NoAba`: nodes are never recycled
(`FREELIST_MAX = 0`), or at most one thread wakes and at most one takes. The server
itself runs outside this condition, and `treiber_aba` shows that it then fails.

* `TypeCorrect`, `ScheduleIntact`: `MemoryIsStack` speaks of the two lists only. The
  inductive `IInv` adds that a node between a pop and a push belongs to one thread and
  is in no list (`Owned`); that a thread about to push has linked its node to the head
  it has read (`Linked`); that the successor a thread has read before its exchange is
  still the successor of that node, because nobody writes the node in between (`Taking`,
  `Allocating`: the place where ABA would break the proof); that without recycling the
  freelist stays
  empty (`NoRecycling`); and that a fresh node exists for every thread that asks for one
  (`NodesLeft`, a bound on the cardinality of the asking threads). One lemma per action.
* `FreelistStaysSmall`, without `NoAba`, for any threads in any roles: `free_node` reads
  `FREELIST_COUNT`, pushes, and counts later, so the count lags behind by the threads
  between a push and its `fetch_add`; `alloc_node` may subtract in that time and take it
  below zero. `FreelistCounted` says that these are the only differences between the
  count and the length, and that the length with the threads about to push keeps to the
  bound: a taker that sees room is ahead of at most the other takers.
* `StackImplemented`: `Spec` implements `TaskStack` under the
  mapping of the `treiber` run. A push takes effect at its successful exchange, a take at
  its own or, for None, at the load of a null head; every other step is a stutter. It
  needs `IInv` and that the handles in nodes survive from their push to their reading
  (`HandlesKept`).

`ConnectionProofs`, for all lengths of requests, frames, messages and buffers, any number
of frames and any cutting of the bytes, from `ConnectionAssumption`: `TypeCorrect`,
`FuturesDoNotBlock`, `RequestsAnswered`, `StreamInOrder`, `NoFrameWaits` and
`AnswerBeforeClose`, from one invariant `IInv`:

* `Types` is `TypeOK` with the frames named: fragments, messages and units only speak of
  frames that are handled, so a frame that arrives changes nothing that is already owed.
* `Shape` ties the place in the handler to what it has left to send, `RequestStart` and
  `RequestInv` say what is in `buf` before the answer and that a request that came in
  full is routed by its whole text.
* `FragInv`: `frag_payload` holds exactly the pieces of the message that is unfinished
  after the handled frames, and is empty when there is none. With it a frame's replies in
  the code are the replies that the frames before it define (`Replies`).
* `Exact`: as long as the client is reachable, nothing was cut and no stray frame was
  parsed, what is sent is the
  stream of the messages that are done and a part of the next one, and done and left to
  send together are the script of the handled frames. `StreamWellFormed` alone says only
  that the output is a prefix and does not survive the next frame.
* `FramesDone`: the frame loop reads only when no whole frame is left.

`FragInv` and `Exact` are claimed while `stray = 0`. The exceptions of the three theorems
about the stream are what the code does: a single `sendto` whose short count is ignored,
and the rest of a request that is taken for frames.

The stream is a `FlattenSeq`, which is recursive. `SequenceLaws` proves the laws that
are needed: flattening a sequence with one more element at either end adds that element
there, and what is flattened so far is a prefix of the whole. The library's induction
rules take an operator, which the provers cannot instantiate; `SetInduction` states
induction for a set of numbers and follows from the well-foundedness of `<` on naturals.
`RecursionExists` builds, with it, a function that is defined by recursion over the
naturals, so that definitions like `Pow256` and `ValueOf` have their equations;
`LoopExists` does so for a loop over the characters of a string and `CourseExists` for a
loop that goes on with any smaller number, with `StrongInduction` to reason about it.

`FrameStreamProofs`, for any frames, payloads, chunk sizes, replies, lengths and requests
and any width of the length fields, from `ParsingAssumption` and `FrameStreamAssumption`:

* `FramesDecoded`: `DecodesWhatWasSent` is inductive with the types and with empty buffers
  for inputs that are not streams (`StreamInv`). What is still to be decoded, `buf_acc` and
  `rest`, is the wire form of the frames that are left. The work is in the parser: the
  bytes of a length read back as the length (induction over the bytes, each a division by
  a power of 256), the exclusive or of bytes undoes itself (bit by bit), a buffer that
  begins a frame tells its opcode, length and header size, so on any prefix of a frame the
  parser waits, and on a whole frame with anything behind it returns this frame and its
  size. The sum does not wrap, as a payload is shorter than half of a `usize` and a header
  is no longer than the other half.
* `ParserSurvives`: `AnyBytesParsed`, for any bytes, not only frames. The parser's result
  on any buffer is analysed by its header: it waits, returns a frame of at least two bytes
  that are in the buffer, or slices behind its end, and this exactly when the announced
  length and the header's size together wrap (`Wraps`).
* `RepliesAreFrames`, `LegalLengthsNeverWrap`: the two builders and the parser for all
  payloads and all legal lengths, at the forms' limits too.
* `KeysAreTheClients`: in a prefix of the request the name is found first in front of the
  first of its values (the lines stand at their starts; `PlainRequests` leaves no other
  place); the colon and the spaces are skipped, the end is the line's CR or the end of
  the prefix, and trimming a prefix of the value gives a prefix of the trimmed value.

`PureFunctionsProofs`, for every number of a `usize`, every byte string and every list of
arguments, from `PureFunctionsAssumption` as well. These functions run in one state, so
the theorems are lemmas about the functions put together:

* `NumbersComeBack`: the digit loop goes on with `n \div base`, so its digits stand for
  `n` by strong induction. As 256^8 is below 10^20 there are never more than 20. The
  index of `write_hex` wraps below zero for a number that fills the buffer and wraps back
  where it is used.
* `BytesEncoded`: for each character of a group, which bit of which byte each of its six
  bits is; a whole group has the 24 bits of its three bytes, the last one those that are
  there, then zeros, then as many '=' as bytes are missing.
* `ListensAsTold`: the text of an argument is one piece per number. `After` gives the
  state of `parse_cstring_ip` behind the `i`-th of them: the numbers so far if each is at
  most 255 and there are at most four, a refusal otherwise, and a refusal is final. An
  address is shorter than the 128 characters that are looked at.

Only model-checked: all liveness, which is outside the prover (`SlotsReleased`,
`OperationsEnd`, `FramesAnswered`, both `ConnectionEnds`, `InputIsRead`,
`ClientIsServed`), and one invariant, `AcceptsAsTheStandard`: it compares `sha1` with
accept values that were computed independently, which are examples.

## Not modelled

* The system-call wrappers (one instruction each; what the kernel does is modelled
  where it is used), `_start`, the disposition of `SIGCHLD`, the log file and logging,
  the pty stub.
* Failures of `create_listening_socket` (sequential, ending in `exit(1)`) and of
  `spawn_thread` (fewer workers).
* `EVENT_PENDING`, `close_eventfd`, `enqueue_task`, `wait_all`, `ConnectFuture`,
  `is_handle_scheduled` and `dump_scheduled`: no caller, or never read. Child reaping:
  the server forks nothing.
* An answer that does not fit the empty send buffer, and what a client reads of an answer
  that a reset overtakes.
* Weak memory: all modules are sequentially consistent.

## Plan

1. Done: `Reactor`, `TaskSlots`, `Treiber` with `TaskStack`, `BumpAllocator`,
   `Connection`, `Parsing`, `Arguments`, `Crypto`, `FrameStream`, `PureFunctions`, and
   the proofs above, which cover every safety invariant of every passing run but
   `AcceptsAsTheStandard`.
2. An abstract connection lifecycle that `Reactor` implements, and `Reactor` on
   `TaskStack`'s operations, so that `Treiber` and `Reactor` meet in one statement (it
   would hold without recycling only).
