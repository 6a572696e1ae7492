# svr_framework in TLA+

A verification project for `svr_framework`, a single-threaded C++ server
framework: a main loop, timers, RPC contexts with an asynchronous and a
coroutine mode, and a library of containers. The modules here are written from
the source; every definition that models code is listed with its lines in
`PROJECT.json` (`map`).

## 1. Inventory

| component | state | operations | interacts with |
|---|---|---|---|
| `TimeoutQueue` (common/timeout_queue) | ordered set of timers, index id -> deadline, id counter | `Add`, `Cancel`, `TimeOut`, `Exist`, `Clear` | runs the tasks of its owners, which call back into it |
| `ContextController` (core/context_controller) and contexts (core/context.h, context_mgr.h) | a `TimeoutQueue`, the cache seq_id -> `ClientContext`, the thread-local current `ServerContext` | `Pending`, `Awake`, `ProcTimeOut` | `PBService`, the coroutine library, user callbacks |
| `PBService` (pb/pb_service) | methods, transports, codecs, the packet memory that survives a crash | `Rpc`, `OnRecv`, `DealRequest`, `DealMethod`, `MethodFinish`, `DealResponse`, interceptors | the channel, the scheduler, the controller |
| `ServerCore` (core/server_core) | options (`max_deal_pkg_num` adapts), `stop_`, scheduler | `SvrInit`, `SvrProc`, `SvrTick`, `SvrNtfQuit`, `SvrStopReady` | drives everything |
| `TimeoutDecorator` (core/timeout_decorator) | a `TimeoutQueue`, events by id | `AddEvent`, `DelEvent`, `ProcTimeOut`, `DealEvent` | scheduler, coroutines |
| `SystemMgr` (core/system_mgr) | three lists of systems by priority, each in order of registration | `AddSystem`, `RemoveSystem`, `SystemInit/Tick/Proc/Finish` | the systems |
| `WaitGroup` (core/wait_group.h), `CoroMgr` | a counter; a pointer to the coroutine library | `Done`, `Wait` | - |
| `FreeLockQueue` (containers/queue_lock_free.h) | ring of slots with flags, two atomic indices | `Push`, `Pop`, `IsEmpty`, `IsFull` | several threads |
| memory pools (fixed, hash, protected) | list of cells in use, list of cells given back, two counters, in (shared) memory | `alloc`, `free`, `clear`, `init(check)`; keys on top in the hash pool | processes that restart |
| sets, maps, lists, LRU (containers/inner) | chained buckets, links, recency list over arrays | `insert`, `find`, `erase`, `active`, `disuse`, pushes and pops | - |
| ring buffers | start, end and used size, padding records | `push`, `pop`, `front`, overwriting | - |

What is hard in it:

* **Re-entrancy.** A timer's task, and every RPC callback, is user code in the
  middle of a loop of the framework, and may call back into that framework.
* **Raw pointers across suspension.** A parked call holds a pointer to the
  server context of its request; a coroutine keeps its client context on a
  stack that the wake-up unwinds.
* **Timeout against answer.** Both wake a call. Answers come late, twice, with
  any code (the framework's own "timed out" code included), or never.
* **Threads.** Only `FreeLockQueue` is used by several threads; it has no locks.
* **Crashes.** The pools and the note `OnRecv` keeps of the packet in hand live in
  shared memory and outlive the process, which may die between any two stores.
* **Links that serve twice.** A cell is on the list of use or on the free list
  through one and the same link, and moves from one to the other.
* **Width.** Timer ids, sequence numbers, flow control and the indices of the
  queue are fixed-width integers that wrap.

The complete list, each at its line, is `PROJECT.json` (`hazards`).

What makes each component correct:

* `TimeoutQueue`: set and index agree; nothing cancelled comes back; deadlines
  fire in order; `TimeOut` ends.
* contexts: the cache holds exactly the parked calls, each with its own timer;
  a callback runs once, on a live server context; no request is stranded; every
  call completes; every context is recycled.
* `FreeLockQueue`: no two threads on one slot; a bounded FIFO; `Push` ends.
* `ServerCore`: flow control stays within its range; a stopping server drains.
* pools and sets: every cell is free or in use and never both; a pool hands out
  no cell that is held, also after a crash in the middle of an operation (which
  holds but for four places, section 2); a key is found as long as it is held.
* ring buffers: a log of whole records, in order; overwriting drops the oldest.
* `PBService::OnRecv`: a packet is skipped only after a crash with it in hand, and
  no packet crashes the server for ever (which holds but for torn notes, and for
  packets outside the guard: section 2).
* `SystemMgr`: every pass calls every system, once, in order; none runs
  uninitialised.

## 2. Modules

| module | models |
|---|---|
| `TimeoutQueue` | one queue as a value, its member functions as operators |
| `TimeoutLoop` | a queue in use: `TimeOut` iterating, tasks and outside code calling `Add`, `Cancel`, `Clear` |
| `ContextController` | `Pending`, `Awake`, `Run`, the timer task, on the parked contexts |
| `RpcContext` | composes the controller with `PBService` and the phases of `SvrProc`: requests, calls, answers, timeouts |
| `CallLedger` | abstract: a call is issued, then closed once, by an answer or after its deadline |
| `FreeLockQueue` | the lock-free ring, one access to shared memory per step |
| `BoundedFifo` | abstract: a bounded queue with single-step operations |
| `ServerCore` | composes `RpcContext` with `SvrNtfQuit`, `SvrStopReady` and the scheduler in front of the requests: how a server stops |
| `FlowControl` | the time slices of `SvrProc` and the packet number that `AdjustParam` moves |
| `TimeoutDecorator` | composes a `TimeoutQueue` with the scheduler, the callbacks and their contexts: user timers served like requests |
| `SystemMgr` | the lists of systems and one pass over them, an iteration per step |
| `ServerLife` | composes `SystemMgr` with the phases of `ServerCore` and with `PBService::OnRecv`, over several processes |
| `UnfixedRingBuf`, `FixedRingBuf` | the byte ring and the ring of values |
| `RecordLog` | abstract: a log of records, appended to whole, losing the oldest first |
| `CellChains` | walking along a chain of cells, and the few operators on sequences the pools and containers need: six instances of each module meet in `Containers`, and every proof obligation carries all that they bring, so they extend no community module |
| `FixedMemPool`, `MemPools` | the pool as a value, its stores in program order; a user of it, crashes and recovery |
| `HashMemPool` | keys in a `FixedMemPool` |
| `MemSet`, `MemLRUSet`, `MemList` | the set of chained buckets as a value, the LRU set on top of it, the list |
| `KeyList` | abstract: a bounded list of keys and the answer to each call |
| `Containers` | a user of any one of the six structures, and what they all promise |
| `TimeoutQueueProofs`, `TimeoutLoopProofs`, `ServerCoreProofs`, `FlowControlProofs`, `TimeoutDecoratorProofs`, `FreeLockQueueProofs`, `ServerLifeProofs`, `ContainersProofs` | lemmas and theorems |
| `MC*` | instances for TLC |

Definitions marked "Mutant" are deliberately wrong variants of the definition
they precede. Nothing uses them: putting one in the place of the definition must
make the property that `PROJECT.json` (`mutants`) names fail.

### Timers: `TimeoutQueue`, `TimeoutLoop`

A queue is the record of the class's three members. The set and the
index are kept apart because the code keeps them in step by hand. `TimeOut`
removes a timer from both (and puts a periodic one back with a later deadline)
*before* it runs the task; `Fire` is that part, `TaskReturn` the return of the
task, and everything user code does in between is a step of its own. The id
width is the constant `IdSpace` (2^64 in the code), small enough in the runs
for the counter to wrap.

### Calls: `ContextController`, `RpcContext`

`frame` is the user code on the stack of the main loop: a service method or an
asynchronous callback. While it is there user code may issue a call (`Rpc`),
set an error (`SetError`) or return (`UserReturn`). `Rpc` contains all of
`Pending`: the timer that cannot be added, the seq_id that is taken, and the
context that is parked. `RecvResponse` is `DealResponse`, `Fire` the timer's
task; both contain all of `Awake` and `Run` up to the point where user code is
entered again. In coroutine mode parking removes the frame from the stack and
waking puts it back; in the asynchronous mode the frame stays (the handler goes
on) without a current context.

The channel needs no variable: any call ever issued may be answered at any
time, again and again, with any code in `RetCodes` and the wrong command, which
covers loss, duplication, delay and reordering. What is asked of user code is
written as guards (see the head of `RpcContext`).

### Stopping: `ServerCore`

The variables of `RpcContext` and four more: `stop` is `stop_`, `scheduler` whether
one is installed and told to stop, `queued` the requests it has accepted, `exited` whether the frame work has left its
main loop. `CoreRequest` and `CoreResponse` are the packets of a round, which
arrive only while `Receives` (server_core.cpp:198) holds: once `stop_` is set and
there is no scheduler the server reads no packet at all, so an answer that
has arrived is not seen and the call waits for its timer. `Exit` is the frame
work's, which is outside the repository and is taken to ask `SvrStopReady`
between two rounds. The scheduler is outside the repository too; it keeps what
it accepts, hands requests over in any order, and accepts none once it is told
to stop.

### Flow control: `FlowControl`

One action is one round of `SvrProc`, reduced to its four readings of the wall
clock, the packets it deals with, and `AdjustParam`. Options are 32-bit unsigned
integers and so is their arithmetic (`UIntSpace`), times have 64 bits
(`TimeSpace`). The readings are arbitrary: the clock is the real-time clock,
which can be set back, and the code subtracts unsigned numbers. `last` is a
history variable that holds what the last round measured.

### User timers: `TimeoutDecorator`

`Fire` is the lambda `AddEvent` puts in the queue: it files the callback under a
fresh event id and gives the scheduler a packet (`Submit`), or deals with the
event on the spot. `LoopOnce` is the scheduler handing a packet to `DealEvent`,
which refuses the event (`DealRefused`: callback gone, periodic timer deleted),
fails to spawn a coroutine for it (`DealSpawnFails`), or starts the callback
(`DealStarts`). The callback is user code on the
stack (`frame`); it may add and delete timers, wait for a call (`TaskWaits`,
`TaskResumes`) and end (`TaskReturn`, with `EventFinish`). `busy` counts, for
each gid, the packets begun and not answered with `OnResponse`, which is what a
scheduler that serialises by gid relies on; `deleted` is history.

### The lock-free ring: `FreeLockQueue`

Each action is one load, store, compare-exchange or copy of an item. Producers
and consumers are sets of threads with a program counter each. The weak
compare-exchange may fail at any time. `Pending` reads the abstract queue off
the ring: the claims between head and tail in order, each being the item in the
slot or, when that is still to be copied, the item its producer holds.
Sequentially consistent interleaving of accesses is justified in the module's
head comment.

### Processes and packets: `ServerLife`, `SystemMgr`

`phase` is what the main loop of the process is doing; "down" is no process. The
four passes over the systems share one representation (`pass`): where the two
loops are, whom they have called, and, as history, the systems that have been
there all the time. Between two calls the systems just called, and outside a pass
the server itself, register and remove systems (`UserCode`), but not in the list
the pass is iterating over: there the code's iterators would dangle.

A packet is in hand (`recv`) from `CheckPkgMem` to `ClearPkgMem`;
`shm_pkg_head_` is the file in /dev/shm, which `Dies` leaves alone. `check_key` says
whether `pkg_mem_check_key` is set: it is 0 by default, and then there is no note.
`mapped` says whether this process has the note: the mapping may fail
(`RegisterPkgMem`), which counts as a fault. Without the note `SamePkg` finds
nothing and `ClearPkgMem` does nothing.

A packet may be poison: whoever deals with it crashes, in `Decode` before the note
is written (`CrashInDecode`), in `OnRecv`, or in `LoopOnce` when a scheduler has queued
it. Apart from that the process may be killed at any step, fail to initialise or exit.
After a death in `OnRecv` the channel delivers the packet again, or has lost it.

The note has three fields, stored one by one and cleared by one assignment; a compiler
may order the stores as it likes. A kill in between (`KilledNoting`, `KilledClearing`)
leaves any mixture (`Blend`) of the old fields and the new. Two history variables go
with it: `suspects`, the heads in hand when processes died since the note was last written
or cleared to the end, and `torn`, that one of them died in the middle of that.

### Containers

`Containers` holds one structure at a time; `kind` says which, and the variables
of the others stay as they are. All of them are single-threaded.

*Rings.* A push of the byte ring is a call (`call`) with a program counter, since
`push_impl` pads, pops and calls itself again: each activation and each iteration
of its loops is a step. The bytes are modelled as bytes (flag, length,
payload), because whether a byte is payload or the flag of a padding record
is decided by position alone.

*Pools.* `AllocWrites`, `FreeWrites` and `ClearWrites` are the sequences of memory
states the stores of an operation produce, in program order; an operation is the
last, a crash leaves any of them. `damage` is history: what crashes have cost since the
pool was last cleared. Most lose cells, or the count of them ("lossy"). In four
places the pool is "torn": between the two stores that splice a cell in (after
the fourth of `alloc`, fixed_mem_pool.h:119-120) or out (after the first of `free`,
142-143), and inside `clear` when `raw_used_num` has been reset but not yet
`reclaim_list`, or not yet link 0 (213-219). What happens to a torn pool afterwards
is left to the same operators, which run on it as the code would; only `NeverHandedOutTwice`
and `RecoveryKeepsCells` promise nothing about it, and run `torn_pool` shows why. `clear`
mends it. The stores are taken to
reach the memory in program order, which holds for a process that dies (the
stores it has retired are in the page cache), when the compiler leaves them in
order. `Restart` is `ProtectedMemPool::init(check)`; a plain `FixedMemPool`
does nothing to its cells.

*Containers of keys.* Every call leaves its answer in `last`; `KeyList` says which
answers a list of keys gives, so that the refinement is about what callers see and
not only about what is stored. Iterating from `begin()` to `end()` gives the list.
`std::hash` of a number is the number, as in the library the code is built with.

## 3. Runs

| run | shows | bounds |
|---|---|---|
| `timer` | set and index agree, an id means one timer from `Add` to its end, firing order, `TimeOut` returns, due timers fire | 3 ids, clock to 3, delays 0-1, intervals 0-2: a periodic timer can be several periods late and ids wrap onto live timers |
| `rpc_async` | the invariants of the contexts, at-most-once completion, refinement of `CallLedger`: a call is closed by an answer or after its deadline, never before | 2 requests, 3 calls, 3 timer ids and seq_ids: one call per request plus one chained or duplicate |
| `quit` | coroutine mode, with yielding handlers: no request is stranded, exit leaves nobody waiting, readiness is stable, a server told to quit does exit, every request finishes | 2 requests, 2 calls, clock to 2; quitting and installing a scheduler are possible between any two rounds |
| `flow` | packet number, round budget and time slice in range; overload settles at `min_num`, idleness at `max_num`, unless the step that way is 0 | 4-bit options, clock readings that go back, backlog 4; limits 1 and 4 with steps up of 0 to 2 and down of 0, 1, 2 and 4: none, several whole ones, one and a remainder, one that overshoots; and limits that are equal |
| `events` | no event lost or kept, one answer per packet, nothing deleted runs, events are served, due timers get their callback | 2 timer ids, 4 events, clock to 3, failing spawns, with and without a scheduler: two events of one timer in flight, a late loop that catches up |
| `queue` | slots are owned (no data race, flags mark items), refinement of `BoundedFifo`, `Push` returns, accepted items arrive | 2 producers, 1 consumer, 3 slots, 3 items, 2 tries: the ring wraps and fills |
| `containers` | the rings are logs, the pool survives a crash that does not tear it, the containers of keys answer like a list, every cell and every byte is accounted for | byte ring of 11 bytes, records of 2 to 10: every length of tail; 3 slots; pool of 3 cells and one crash after any store; hash pool of 2 cells and 3 keys, LRU set of 3 cells and 4 keys, 2 buckets each, list of 3 cells: full, evicting, reusing cells in another bucket |
| `life` | passes complete and in order, nothing uninitialised runs; only suspects, or mixtures of them after a torn note, are skipped; the channel drains of every poison packet inside the guard | 2 systems, 2 packets out of six kinds, of which one has the head that a torn note of another leaves; one fault: a kill, a failed initialisation or mapping, an exit; crashes by poison are not counted; with and without a scheduler, a key, the mapping |
| `narrow_timer_id` | *violation*: ids wider than `ClientContext::timer_id` | 5 ids, 2 values in the context |
| `callback_leak` | *violation*: contexts with a callback are not recycled in coroutine mode | 2 requests, 3 calls |
| `events_refused` | *violation*: a scheduler that refuses loses the event | 3 events |
| `torn_pool` | *violation*: a crash in one of the four places makes the pool hand out a held cell | 2 cells, 1 crash |

Only `rpc_async` uses symmetry, and it checks no liveness. Deadlock is checked
in every run but `quit`, where the server exits and nothing follows. `MaxEvents`
and `MaxTime` bound the `events*` runs; as deadlock is checked there, a main loop
that stopped because of a bound would be seen.

**Fairness.** Timers: weak fairness of the steps of the main loop and of the
return of user code, since the process runs one thread that a frame work calls
in a loop. Calls and quitting: in addition strong fairness of `Tick`, `LoopBegin`,
`CoreSchedule` and `Exit`, since time passes between two rounds and every round
begins with `ProcTimeOut`, calls `LoopOnce`, and is followed by a look at
`SvrStopReady`. Nothing assumes that a peer answers or that a request arrives.
Handlers chain finitely many calls (the contexts of the run are used up); no
server drains while handlers go on making calls. User timers: strong fairness of
the rounds and of `LoopOnce` and `TaskResumes` for each event, for the same
reasons and because every call completes. Flow control: rounds go on. Queue: weak
fairness of each thread's next step inside `Push`, and of a consumer that keeps
calling `Pop`. Containers: a push that has begun goes on. Processes: whoever
supervises the server starts it again when it is down, its main loop goes round, and
`SvrProc` and the delivery of packets get their turn between kills (strong
fairness, since a kill or a crash by poison takes them away; kills and failed mappings are
bounded, crashes by poison are not). `TimeOutReturns` and `DueTimersFire` hold under a
condition on user code, stated in them: from some point on no task adds a timer
that is due at once (`AddsDue`), which would keep the loop going; the code does
not prevent it.

### Findings

* `narrow_timer_id` - timer ids are 64 bits "to avoid wraparound", the context
  keeps 32 of them.
* `callback_leak` - in coroutine mode the recycle function of a call with a
  callback is dropped.
* `events_refused` - `AddEvent` ignores that the scheduler refuses a packet.
* `torn_pool` - containers are said to live in shared memory, and `init(check)` takes
  them over; a pool whose process died in one of four places hands out held cells.

Observed while modelling, and visible as conditions of the models and theorems:

* `CheckOption` accepts options whose sums do not fit 32 bits, with which
  `AdjustParam` leaves the limits (`FitsUInt` in `FlowControl`), and a `min_num` of
  0, with which an overloaded server calls `LoopOnce(0)`, which means every packet.
  It accepts steps of 0 as well, which are the defaults (server_core.h:79-80): with them
  the packet number never moves that way, and `SettlesAtLimits` promises nothing.
* `SvrStopReady` does not ask the scheduler, so requests that it still holds are
  dropped by the exit; and a scheduler installed after `SvrNtfQuit` is not told to
  stop.
* After a crash between taking a cell and counting it `alloc` may run into its assert (`Asserts`); a
  cell given back in the moment of a crash may be lost for good.
* The repository's README (src/README.md:51) promises several consumers of
  `FreeLockQueue`; `Pop` stores the head without a compare-exchange, so two of them would
  take the same item. `IsFull` may report a full queue that has been drained between
  its two loads.
* A note torn by a kill, whose fields are those of two packets, or of one and zeroes, gets an
  innocent packet skipped if it has that head: the comment at pb_service.cpp:71 ("the same
  packet, so the last crash came of it") has these and the head of zeroes against it.
* `CheckPkgMem` cannot tell a head of zeroes from a cleared note and skips such a
  packet; another packet arriving first overwrites the note, and a request that
  has gone through the scheduler crashes outside the guard. The channel drains all
  the same, because a channel that loses or delivers the packet again meets the
  note, and the scheduler's memory dies with the process.
* Without a `pkg_mem_check_key`, which is the default (pb_service.h:52), nothing stops a
  packet that crashes `OnRecv` from being delivered to every new process, and with one
  nothing stops a packet that crashes `Decode`, which comes before the note (`Unstoppable`).
* A system registered behind `SystemInit` is never initialised (`late`).
* `HashMemPool::insert` refuses a key that is there already when the pool is full;
  its `init` tests the size of the block the wrong way round (hash_mem_pool.h:74).
* `BaseMemList::erase` of a position (base_mem_list.h:121) does not notice that the
  position has been given back, or to another value since.
* `BaseMemLRUSet::disuse` looks the oldest value up again after its callback.
* `WaitGroup::Wait` is documented to suspend in coroutine mode (wait_group.h:38); it
  reads the counter and returns.
* `EventFinish` asks for the scheduler anew: one that is installed while events
  are under way is answered for packets it never had (guard of
  `SetReqScheduler`).

## 4. Proofs

`TimeoutQueueProofs` proves what each operation of the queue preserves
(`QueueInv`: well typed and consistent) and what it does to the set of timers.
The provers do not reason about a set and a function kept in step unless the
removal by key (expire_time, seq_id) is first shown to remove exactly the timer
with that id (`EraseTimer`); that lemma is the heart of it.

`TimeoutLoopProofs`: `TimeoutQueueConsistent`, `NoResurrection`, `AddIsHarmless` and,
of these two, `IdsMeanOneTimer`, for all constants. `TimersFireInOrder` rests on
`NothingOvertaken`: whatever is left in the queue is due no earlier than the last
timer taken, which was due by now; a task that adds, or the re-arming of a
periodic timer, only puts timers behind that.

`ServerCoreProofs` first proves about `RpcContext`. The inductive invariant is the
conjunction of the runs' invariants with `TypeOK`, `CurrentIsServed` and
`StackDiscipline`; none is inductive alone (that an answer disarms only its own timer
needs that timer ids are distinct and remembered, hence `TimeoutArmed`, a part of
`ParkedCallsAreTimed`; that a wake-up finds a live server needs `AwaitedServerAlive`, a part of `RequestsStayReachable`, which needs
`StackDiscipline` when user code returns). The one hypothesis is
`IdSpace =< CtxTimerIdSpace`, which `narrow_timer_id` shows to be necessary.
Theorems: `CallsAndTimersAgree`, `RequestsAreServed`, `AsyncCallsAreFreed`,
`CallsCompleteAtMostOnce`, and `CallsAreALedger`, the refinement of `CallLedger` step
by step: the timer that leads to a parked call is the call's own
(`ParkedCallsAreTimed`), so a call that times out has reached its deadline.

Its second part is about `ServerCore`: every step of the core is a step of
`RpcContext` or leaves it alone (`CoreStepsAreSteps`), so `IInv` carries over; with
"exited only while ready and with no user code on the stack" it gives
`NobodyIsLeftWaiting` and `SafeToExitIsStable`. Same hypothesis on the ids.

`FlowControlProofs`: `PacketLimitsHold` and `RoundsAreBounded` for options whose
sums fit the integers (`FitsUInt`) and, for the
second, a `min_num` above 0; `LogicGetsItsTime` for all options.
Each has its own small invariant (`PacketInv`, `BudgetInv`, `TimeInv`): the
options `CheckOption` accepted do not change but for the packet number.

`TimeoutDecoratorProofs`: `DeletedStaysDeleted`, `NoEventIsLost` (with a
scheduler that refuses nothing; `events_refused` shows the need) and
`EveryPacketIsAnswered`. The invariant says that the events in flight are in
order of their ids, that a packet finds its callback, and that what is on the
stack has begun; `BusyInv` adds that the counter of a gid is the cardinality of
its set of running contexts, which is what one more answer or one less breaks.

`FreeLockQueueProofs`: `EverySlotHasOneOwner` and `RingIsABoundedFifo` (the
refinement of `BoundedFifo`, step by step), for any number of producers and any
size of ring. The argument follows versions, which never come back, and reads a
slot as the remainder of one: within a window of one ring's length no two
versions share a slot. `QInv` says that head and tail stay in such a window, that
each version between them has one writer or a finished item, and that no thread has
seen an index ahead of where it is; only `PushView` and `PopView` say what a thread's
stale reading of the other index is still good for. The hypothesis `OneConsumer` is
what the comment of the class says (queue_lock_free.h:24).

`ServerLifeProofs`: `OnlySuspectsAreSkipped`. The property relates what `OnRecv`
finds in shared memory to a crash several processes back; `NoteIsHonest` carries it
from there (the note is the packet in hand, or cleared, or names a packet a
process has died with, or, after a torn note, mixes the fields of such heads), and needs
`RecvInLoop`: with a packet in hand, the first of the channel, no pass
is under way, so a process dies there in one way only. A torn note may be torn again:
`BlendAgain` says that mixing mixtures gives nothing new, `SkippableMore` that more suspects
excuse no less, and `TearKeepsNote` puts them together for the two kills in question. No hypothesis but that "no
packet" is not a packet. `PassesCallEverybodyOnce` and `NobodyRunsUninitialised` are
about the passes over the systems: `PassInOrder` says that of the systems that
stay, those behind the position of the pass have been called, in order, and the others
not, and needs `RegisteredOnce` (nobody stands twice in the lists) when systems are
registered and taken out around it.

`ContainersProofs`, rings: `RingsAreLogs`, the safety half of what run `containers`
checks as `ImplementsLog` (liveness, that every push returns, is the rest of it), `RingsAreExact`
for `RecordsTile`, and `RefusalsAreRight` for `RefusedOnlyWhenNoRoom`: for any number of
slots above 0, any ring of more than 2 bytes, any values, and any records that are
sequences of numbers. A header is two bytes, as it is in the code up to a `MAX_SIZE` of
255. The provers do not compute remainders by a variable, so `Wrap` and `Wraps` first
say what they are for the sums that occur. Of the ring of values the invariant says that
`end` is where `start` and the number of values point.

Of the ring of bytes it says (`Laid`) that there is a layout `v` of it: places that only
grow, past the end of the ring too, the k-th record at `v[k]` and the next one to be stored at
`v[item_num]`, at most one lap further on than the first. Between one place and the next
lie a record and what may follow it at the end of the ring (`Spans`): nothing, a
padding, or the one byte that is too few for one. All the code computes with remainders,
the gap that `pop` skips, the walk of `find_start`, where free bytes are, whether records overlap,
comes down to sums and comparisons of places: `GapIs`, `NextIs`, `Sides`, `RecordsApart`.
`PoppedLaid`, `AppendLaid` and `PaddedLaid` say what each step makes of a layout;
`CallFits` says what holds at each place in `push_impl`, above all that it goes around the
end (`unwrap`) only with records on both sides, so that the pops there leave one. The log is
then what `front` reads along the layout.

That a refusal is right needs one more thing, `Tight`: the newest record has no padding
behind it, or else bytes that hold nothing would count as used. That is not an invariant: a
push pads the end of the ring first and stores afterwards. `RoomInv` says that it fails
only during a push that overwrites, which is never refused, or one that fits in front of `start`,
which must now succeed.

`ContainersProofs`, pool: `PoolStaysExact`, `CellsHaveOneHolder`, `RecoveryIsNeutral`,
for any number of cells above 0 and any number of crashes, each after any store of an
operation. `PoolInv`, as long as the pool is not torn (`Whole`): the memory is that of two
lists that share no cell, `u` of the cells in use, linked both ways, and `g` of those given
back, which bear the mark; the user holds cells of `u`; and as long as there was no
crash `held` is all of `u` and no cell is lost. What a crash can cost is thus that either list
is shorter than it might be. Of a torn pool the invariant keeps only that indices are indices
and counters numbers (`PoolStepTyped`), which is what `clear` needs to make it whole again. `AllocCuts`, `FreeCuts` and `ClearCuts` go through the memory store by
store; `RefillsOne` and `DrainsAll` do it for the two loops of the restart, and `RecoveredKeeps`
puts them together. Lists are functions on the integers with a length, not sequences, which the
provers follow far more easily.

`ContainersProofs`, containers of keys: `KeyCellsArePartitioned` and `KeysAreAList` (every
part of `ImplementsKeyList`), for any number of cells and buckets above 0 and any keys;
those of `HashMemPool` and `MemLRUSet` are numbers, as their hashes are in the code.
`ListInv`, `HashInv` and `LruInv` say that what is held now lies in the cells of a list
`u`, that the free cells are a list `g` sharing none with it, and, with buckets, that the
cells of `u` are shared out over one list per bucket by the key they hold (`Spread`), no
key twice. One lemma per operation then goes through its stores and says which sequence
is held afterwards (`LruInserts`: the key in front; `LruActivates`: the key moved there;
`LruDisuses`, by induction over the evictions: all but the last). `EnumeratesBoth` and
`FlattenedChains` add up the chains an iteration follows: they meet what is in use, and as
many cells as there are. That the key is found where it is, and nowhere else, is
`SpreadFinds`; without "no key twice" the erasure of one would leave another behind.

What a walk along a chain, a loop of the restart, an eviction of several or an iteration
over the buckets computes is a matter of induction. The library's induction theorems
cannot be used, but induction over a *set* can: `LeastNat` and `SetInduction` follow from
the well-foundedness of `<` on the naturals, and `f[n]` for a recursive function `f` is
then a matter of applying them to the set of the `n` for which the claim holds. That `f`
exists at all takes an induction too (`StepsExist`, `DisuseStepsExist`, `FlatteningExists`).

Only model-checked: liveness (`TimeOutReturns`, `DueTimersFire`, `QuitDrains`,
`EveryRequestFinishes`, `PushReturns`, `AcceptedItemsArrive`, `SettlesAtLimits`,
`FiledEventsAreServed`, `OverdueEventsBegin`, `ChannelDrains`, and the fairness in
`ImplementsLog`), which the provers cannot express.

## 5. Not modelled, and the plan

Not modelled: encoding, logging, statistics, name and type utilities, the
singleton and factory templates, the abstract interfaces, and the coroutine
library and protobuf themselves (outside the repository). `WaitGroup` is one
atomic counter.

Also left out of the modules above: the blocking style of coroutine mode
(`AsyncTask::blocking_fun`, which nothing in the repository sets), `OnProc`, which is
a subclass's, the interceptors beyond what they answer, the registries of transports,
services and contexts, broadcasts, the fences of `ProtectedMemPool` (`mprotect`),
sizes and alignment in bytes, and changes to the list of systems a pass is iterating
over (undefined behaviour).

Every safety property that a passing run checks is a theorem, the safety half of `ImplementsLog`
under the name `RingsAreLogs`. What remains worth doing is to model more: the interceptors, the
blocking style of coroutine mode, and the registries.
