# Verification of Shuttlesock

Shuttlesock is a C framework for servers: a master process, a manager process
it forks and a number of worker threads in the manager, each with a libev loop
and a Lua state, that run modules, publish events to each other's listeners and
talk over a hand-made IPC layer.  This directory holds TLA+ models of it, the
TLC configurations that check them on small instances and the proofs that TLAPS
checks for all instances.  Paths below are relative to the repository,
`src/src/ipc.c` is the file `src/ipc.c` of it.

Run a model with `tlc -config MCIpcRingSpsc.cfg MCIpcRing`, check the proofs
of a module with `tlapm IpcRingProofs.tla`; the modules with proofs are those
whose names end in `Proofs`.  `PROJECT.json` lists the runs, which line
of the code each definition stands for, the findings and the hazards.

## 1. Inventory

| Component | State | Operations | What makes it correct |
|---|---|---|---|
| IPC ring (`ipc.c`, `ipc.h`) | per process one ring in shared memory: three counters, a full flag, arrays of codes and pointers; an eventfd; per sender an output buffer and a retry timer | `shuso_ipc_send`, `ipc_send_direct`, `ipc_send_retry_cb`, `ipc_receive`, the notice coroutine | no slot is used twice, no message torn; what is accepted is handled exactly once, in order, in the end |
| IPC channel (`ipc.c`, `ipc_commands.c`) | handler table, automatic codes, one output buffer for all destinations | refusing stopped destinations, buffering for starting ones, proxying between master and workers, `shuso_ipc_send_workers` | a message reaches every addressee that can take it; no destination holds back another |
| Descriptor passing (`ipc.c`) | receivers in the Lua registry, a timer each, descriptors that came early | `shuso_ipc_send_fd`, `shuso_ipc_receive_fd_start`, `..._finish` | a descriptor ends with exactly one owner; a receiver ends once |
| Process lifecycle (`shuttlesock.c`, `core.c`, `ipc_commands.c`) | an atomic runstate per process, the threads of control, delayed stop events, timers | fork, spawn, stop, signals, SIGCHLD | start is announced when it is true; a stop in any process ends all of them, in order; a dead manager is noticed |
| Events (`event.c`, `event.lua`, `module.c`) | a listener array per event, firings in progress, delayed and paused ones | listen with priority, publish, cancel, pause, delay, resume | every listener runs once per event, in priority order, over all interruptions |
| IO coroutines (`io/`) | one operation per coroutine, iovec position, watcher, error | read/write/accept/connect/..., partial or complete | a complete transfer moves every byte once; a coroutine is resumed once per operation |
| Shared slab (`shared_slab.c`) | pages, slots, bitmaps, free lists behind a mutex in shared memory | allocate, free | no overlap, nothing lost, freed pages merge |
| Pool, buffers (`pool.c`, `buffer.c`) | levels of pages, chains of buffers | allocate, mark level, drain; append, take, unlink | drained exactly to the level; every buffer is freed by its own kind |
| Module system (`module.c`, `module.lua`) | registered modules, dependencies, contexts, indexes | add, freeze, finalize, initialize | each module is initialized once, after what it depends on |
| Configuration (`modules/config`) | settings, blocks, inheritance | parse, register, unregistered-setting check | a setting takes the value of the nearest block that has one |
| Server (`modules/server`) | hosts, bindings, listening sockets, accept coroutines, three startup coroutines and a shared count | open in the master, pass to the manager and on to the workers, accept, abort, stop | each worker has its own socket of each binding when `server:start` is published; an aborted startup can be stopped; a listener serves what connects |
| Lua state copying (`lua_utils.c`) | per copy a table of what has been copied | `luaS_gxcopy` and friends | the copy has the shape of the original, shared and cyclic parts included |
| Lua bridge (`modules/lua_bridge`) | Lua modules, IPC requests and responses, lazily made shared atomics | `ipc.lua` send, broadcast, answer; `lazy_atomics.c`; `io_lua.c` | a message is answered and its data released once; the counter of messages in transit returns to zero; an atomic's strings are freed once |
| Resolver (`resolver.c`, `core_lua_api.c`) | the sockets of c-ares and their watchers, requests with a coroutine or a function each | resolve, answer at once or later, clean up | one answer per request; sockets and watchers agree |
| Watchers (`watchers.c`, `core_lua_api.c`) | libev watchers in Lua userdata, two registry references each | set, start, stop, yield, fire, collect | what libev may call is alive; a watcher runs its own handler |
| System utilities, log | tables of constants | | nothing to check |

How they interact: everything runs in callbacks of a process's own libev loop.
Processes share memory (rings, runstates, slab) and write to each other's rings;
the eventfd of a ring wakes the loop, a coroutine of the IO layer reads it and
`ipc_receive` calls handlers, which publish events or change runstates.  The
stop protocol is built on events that are delayed and run again by timers, and
on IPC commands that are refused, buffered or lost depending on runstates that
change meanwhile.

Where it is hard: many writers and one reader on a ring without locks; a full
ring and its recovery; runstates written by two processes; messages to
processes that are not up yet or no longer up; a manager that dies at any point;
stop requests from several places at once; handlers that run inside the start
routine; short transfers and would-block at every call; references to the Lua
registry that outlive what they referred to; data in shared memory that one
process frees and another reads; startups that abort in three processes.
`PROJECT.json` lists these as hazards, each at its line.

## 2. Modules

| Module | Models | Checked in |
|---|---|---|
| `IpcChannel` | the promise of IPC: per sender exactly once, in order | refinement target of `IpcRing`; what `Lifecycle`, `LuaIpc` and `Server` build on |
| `IpcRing` | one ring, its writers and its reader, one atomic access per step | `MCIpcRing`, through `IpcRingInv` |
| `IpcRingInv` | the inductive invariants of the ring | the proofs, and `MCIpcRing` |
| `IpcRingProofs`, `IpcRingMpscProofs` | theorems about the ring, with one writer and with many, see section 6 | |
| `EventProofs`, `LifecycleProofs` | theorems about `Event` and `Lifecycle` | |
| `IoProofs` | theorems about `MCIo` with the modules it composes, and `FdPassing` | |
| `LuaDataProofs` | theorems about `LazyAtomics` and `LuaIpc` | |
| `MemoryProofs` | theorems about `Pool` and `Watcher` | |
| `ServicesProofs` | theorems about `Server` and `Resolver` | |
| `Lifecycle` | start and stop of master, manager and workers | `MCLifecycle` |
| `Event` | the listeners of one event and its firings, interrupted and resumed | `MCEvent`; the delayed stop events of `Lifecycle` behave as it says |
| `Io` | the IO coroutines over libev | `MCIo`, alone and under the next three |
| `LuaIo` | IO operations called from Lua | `MCIo` |
| `Listener` | a worker's accepting coroutine | `MCIo` |
| `FdPassing`, `Buffer` | descriptors sent between processes, and the buffer chain that queues them | `MCIo` |
| `SharedSlab` | the slab allocator in shared memory | `MCMemory` |
| `Pool` | the memory pool with its levels | `MCMemory` |
| `Watcher` | watchers of Lua code | `MCMemory` |
| `LazyAtomics` | values of changing type in shared memory | `MCLua` |
| `LuaIpc` | Lua messages and their answers | `MCLua` |
| `LuaCopy` | copying Lua values between states, packing them into messages | `MCLua` |
| `Server` | the startup and stop of the servers over three kinds of processes | `MCServices` |
| `Resolver` | hostname requests and the sockets of c-ares | `MCServices` |

`MCIo`, `MCMemory`, `MCLua` and `MCServices` hold several components side by
side; which one runs is chosen in the initial state, so their states add up and
do not multiply.

### IpcRing

The variables of the ring keep the names of `shuso_ipc_ringbuf_t`
(`next_read`, `next_write_reserve`, `next_write_release`, `full`, `code`,
`ptr`).  `notice` is the eventfd counter being non-zero.  Each writer has the
locals of `ipc_send_direct` (`windex`, `wread`, `wmsg`) and `pc`, the line it is
at; the reader has those of `ipc_receive`.  A message `<<w, k>>` is the k-th one
of writer w; its code and its pointer are two separate stores of the same pair,
so a reader that combines two messages is seen.  `Slot(i)` is the cast to
`uint8_t`, for a ring of `RingSize` slots instead of 256.  The 64-bit counters
are unbounded: 2^63 messages are out of reach of the program as well.

The code uses the default, sequentially consistent order of C11 atomics for the
counters, the flag and the arrays' elements, so interleaving single accesses is
faithful.  `Submit` is `shuso_ipc_send` (buffer behind what is buffered, or when
the destination is starting; else send), `CheckFull` ... `SendNotice` are
`ipc_reserve_write_index`, `ipc_send_direct` and `ipc_release_write_index`,
`Retry` is the timer.  `TakeNotice` ... `ClearFull` are the notice coroutine and
`ipc_receive`; `AssertLoad` and `AssertCompare` are its `assert`, of two loads.

`MaxSend` bounds the messages per writer.  `Window` is a client that lets so
many of its messages be unread (a request/response protocol has 1); with
`Window = MaxSend` there is no such limit.

### Lifecycle

`state` is the runstate in shared memory, `pc` where `shuso_run` or
`shuso_run_worker` of a process is.  `inbox` is what has reached the ring of a
process (the ring itself is taken at the promise of `IpcChannel`), `outbuf` is
`S->ipc.buf`.  The core events a process publishes are recorded in `published`.
Master is -2 and manager -1, as in `SHUTTLESOCK_MASTER` and
`SHUTTLESOCK_MANAGER`.

The actions in order of a run: `MasterRun`, `Fork`, `ManagerStarting`,
`ManagerRunning`, `InitializeWorkers`, `LocalStarted`, `SpawnWorker`,
`WorkersSpawned`, `WorkerStart`, `WorkerReport`; the IPC handlers
`ShutdownHandle`, `SignalHandle`, `ManagerProxyHandle`, `WorkerStartedHandle`,
`AllWorkersStartedHandle`; stopping with `Stop`, `ShutdownTimer`, `StopDelay`
(a delayed stop event runs again at the listener that delayed it), `BreakTimer`,
`Exit`, `WorkerShutdown`; death with `ManagerGone` and `Sigchild`.  `Faults`
names what else may happen: a worker that fails to initialize or to spawn, a
manager that is killed, one worker that is stopped on its own, Lua IPC messages
in transit that hold up a stop event, signals sent to the manager.

A stop event passes three listeners that may delay it: `core_*_try_stop`, which
waits for the processes below, `delay_stopping` of the server module, and
`lua_module_stop_process_event` (`LastStopListeners`, `LuaStopListener`; the delay
is `"try"`, `"server"` or `"lua"`).  Of the server module's startup, which `Server`
models, `Lifecycle` keeps that it has yet to end in some process
(`initializing`): `ServerStartup` ends it in all of them, and cannot come before
`manager.workers_started`.  Until then a process whose own part is over may pass the
listener, and before `workers_started` none is.

Abstractions.  A loop over the workers' states in one handler is one step; each
state it reads only moves forward, and a later look finds what it missed.
`pthread_join` of a STOPPED worker is part of that step: STOPPED is the last
thing the thread writes.  A master that fails before the fork and a manager whose
modules fail to initialize end at once and are left out, as are `set_log_fd`,
`reconfigure` (no effect on runstates) and the debugging build that runs workers
inside the manager.

### Event

`listeners` is the Lua list `event:add_listener` inserts into and the array
`shuso_module_finalize` copies it to; `number` records the order of
registration.  `stack` holds the calls of `fire_event` in progress: the
occurrence they belong to, the listener they are at, whether it is running, and
`cev.interrupt`.  `paused` and `delayed` are the `shuso_event_pause_t` and
`shuso_event_delay_t` structures, `interrupt_state` the table of the debugging
build (`SHUTTLESOCK_DEBUG_EVENTS`), `aborted` its `raise(SIGABRT)`.  `passed` and
`cancelled` are history.

`Publish`, `ResumePaused`, `ResumeDelayed` and `DelayTimer` push a firing;
`CallListener`, `ListenerReturns`, `InterruptingListenerReturns` and
`FireReturns` are its loop; `Cancel`, `Pause` and `Delay` are what the running
listener may do to it, if the event's interrupt handler permits (`Permits`; an
event without a handler permits nothing).  `Uses` says whether the event is fired
within and between its other firings (`nested`) and whether delays are resumed by
hand (`resume`).  A listener interrupts an event at most once per call, and a
pause or delay is resumed by hand at most once: the code does not enforce it, and
the API makes no sense of anything else.

### Io, LuaIo, Listener

`io` is `shuso_io_t`: opcode, watch type, whether the watcher is active, result,
error, what is left of the vector.  `at` says who has control: the coroutine's
handler, the system call (`shuso_io_ev_operation`) or the event loop.  `Start` is
`io_op_run_new`; `CallMoves`, `CallPlain`, `CallConnect`, `CallBlocks` and
`CallFails` are what the system may answer, each with what
`shuso_io_ev_operation` makes of it; `Event` is `shuso_io_ev_watcher_handler`,
with every set of events the loop may report.  A vector that is cut inside an
entry is copied: `CallNoMemory` is the copy that cannot be allocated, and since the
loop at `io.c:169` runs past the end of both vectors unless the first entry is the
one that was cut, its outcome is a choice, of a process that dies (`CallOverruns`) and
of one where nothing in use was overwritten.  Operations are taken in classes (a
buffer, a vector, accept, connect, close).  `xfer` is history: an entry of a vector
keeps its place in the whole, so a byte moved twice or skipped shows.

`LuaIo` adds `shuso_lua_io_data_t` and whether the Lua coroutine is running:
`LuaOp` is an `io:read` and its like, `lua_io_handler` hands over the result.
`Listener` runs `listener_accept_coro` on the same `Io`, with a backlog of
connections that may go away before they are accepted, errors of `accept`, and
`luaS_stop_worker_io_listener_coroutine` at any time.

### FdPassing, Buffer

The sender's coroutine runs on `Io`, its queue is the `Buffer` of the code (a
chain of links that is freed by the kind of each).  `wire` is the socket between
the two processes, `refs` the part of the Lua registry that holds receivers,
`slot` the one timer of `shuso_ipc_receive_fd_start` that all of them share.
`FdReceive` is the receiving coroutine, `Finish` is
`shuso_ipc_receive_fd_stop_generic`, reached by hand, by timeout or by the end of
the channel.  A number is given out again after it was released, so a timer or a
late descriptor that carries an old one shows.

### SharedSlab, Pool, Watcher

`SharedSlab` keeps the lists as the code does, by `next` and `prev` fields, with
the bitmap of small chunks inside the page.  A request takes the lock and looks
(`SlabAlloc`, `SlabFree`), then takes effect (`SlabTake`, `FreeChunk`, `FreeRun`),
so that a missing lock would show.  Sizes are scaled down: a page of 8 units, bytes of
2 bits and words of 2 bytes give a slot with a bitmap in the page, one exact slot
and a big one.  `Pool` is the build that counts used, wasted and free space.
In `Watcher` a Lua registry of numbered slots (`luaL_ref` gives the one released last
to the next), a stack of running Lua code and libev's active and pending watchers
are kept, so that a handler may set, start, stop or collect any watcher, its own
included.  A timer may be given another repeat by `set` or by assignment at any time;
`retimed` records that this was done to one that had fired and was not released yet.
`nilled` records that nil was assigned to a handler (`core_lua_api.c:622`): the slot is
released and the watcher keeps its number, so the properties claim nothing after it.

### LazyAtomics, LuaIpc, LuaCopy

In `LazyAtomics` every access to a field or to `typemix` is a step of its own
(`SetStores`, `SetAllocates`, `SetExchanges`, `SetFrees`, `SetUpdates`, `GetReads`,
`GetCopies`).  In `LuaIpc` the messages on their way are a set: `LuaSend`,
`LuaMessage`, `LuaUnpack`, `LuaResponse`, `LuaProxy`, `LuaProxyReceive`; `LuaCheck` is
the look of `ipc.lua` at the runstates before `LuaSend`, and `LuaRefuses` a
destination that has stopped in between.  `active` is `ipc_messages_active`, which
delays the stop of every process.  `LuaCopy` is the recursion of `gxcopy_any` and of
`pack_field` as functions over an object graph, with the cache of copied objects as
an argument that is handed on.  Three callers ignore that a copy failed (a preloader,
`lua_utils.c:899`; a package copied directly, 886-888; what `__gxcopy_save` returned):
`GoesOn` goes on there and, where values have been left on the stacks, marks the
session `astray`, of which nothing more is claimed.  A caller of `luaS_gxcopy` may go on
with a session in which a copy has failed, `failed`, with the same consequence.
`pack_scalar` puts an integer into a C int of `CIntBits` bits.

### Server, Resolver

`Server` has a program counter for the startup coroutine of each process, one
channel for each pair of processes, and the descriptors on their way.  Every
`ipc_try_send` may fail because a process is stopping; `ServerFaults` adds sockets that
cannot be opened, host data that cannot be allocated, listeners that cannot be
started, the 5 second timeout, hosts that cannot be resolved and a stop of any process
from the start of its loop on.  The manager begins when one of the workers' reports
that are still to be handled finds all of them running (`ServerReport`); a stop that
comes before may keep it from ever beginning, and then no process can stop
(`InitializingEnds`, section 5).  A stop is a request, the passing of `delay_stopping`, after which a worker closes
what it listens on (`ServerClosing`), and the end (`ServerStopped`).  `hosts` has the
parts of a binding's data in shared memory, of which `free_shared_host_data` frees
all but the name.  The increment of `done_count` and the look at it are two steps.  In
`Resolver` c-ares is external: it
opens and closes sockets through the callbacks of `resolver.c`, answers some requests
inside the call, and learns that time has passed only when a socket has an event.

## 3. Runs

| Run | Instance | Shows |
|---|---|---|
| `ring_spsc` | 1 writer, 2 slots, 5 messages, no window | the ring fills, is reset and wraps around twice: safety, refinement of `IpcChannel` and the invariant of the proofs |
| `ring_mpsc` | 2 writers, 2 slots, 3 messages each, window 1, fairness | all interleavings of two writers and the reader, with wrap-around: nothing torn, never full, and every accepted message is handled exactly once, in order |
| `life_safety` | 2 workers, 2 requests, every fault but `lua` and `signal` (`life_live` has them, and the proofs all) | who leaves when, what is announced, runstates only advance |
| `life_live` | 2 workers, 1 request, `spawn crash lua signal`, fairness | start completes; once all workers have started, a stop from anywhere stops everything and a stopping master comes to its end, unless the manager was killed while the server module started |
| `event` | 3 listeners, 2 occurrences, 2 delays, `nested resume`, fairness | listeners in order; none left out; no occurrence lost or owned twice; every occurrence ends |
| `memory` | 3 pages of 8 units, sizes of every slot and of several pages, 2 processes; a pool with 3 levels, 5 blocks; 2 watchers of every type, 1 coroutine | the slab never overlaps and its lists, bitmaps and counts agree; draining a pool keeps what is below the level and the counts; watchers in the loop are alive and run their own handler |
| `io` | vectors `<1>`, `<3>`, `<2,2>`; 3 operations; 3 connections; 3 descriptors, 2 registry slots, 3 receivers; fairness of the listener | a buffer's bytes are moved once, a coroutine that waits is watched, Lua hears once of each operation, descriptors are delivered once and in order, a listener serves what connects |
| `lua` | 2 processes and 4 operations on an atomic, in cleared memory and in memory that was used; master, manager, 2 workers and one message in total, of any of them to any, or to all; all graphs of 3 objects of `MCHeaps` and a coroutine | strings freed once, types sound, messages answered and released once, copies have the shape of the original |
| `services` | 2 servers, 2 workers, every fault, stops before and in the startup; 3 requests, 2 sockets; fairness | `server:start` comes when every worker listens, sockets have one owner and are closed, a startup that began ends and can be stopped; each hostname request is answered once |
| `ring_mpsc_full` (violation) | 2 writers, 2 slots, window 3 | with several writers a full ring loses messages |
| `life_forward` (violation) | 2 workers, `stop_one`, fairness | a manager does not stop its workers after one has stopped by itself |
| `event_resume` (violation) | 2 listeners, `resume`, debugging build | the timer of a delay resumed by hand fires the event again |

Why the bounds are enough.  Two slots are the smallest ring where the first and
the last slot differ; five messages (or six from two writers) pass the end of
the ring twice, with a full ring and a reset in between.  The behaviour of the
ring depends on an index only through its distance to other indexes and its
slot, so larger rings repeat the same cases; for one writer, and for any number
of writers whose windows fit into the ring, the proofs cover every size.  Two workers
are the fewest that can be in different states while the
manager looks at all of them; two requests suffice for a stop that meets another
stop.  `MaxInbox` only keeps the master, which asks every 0.1 s, from filling
the manager's ring faster than it is read.  Three listeners have a first, a middle
and a last one; two occurrences suffice for one to be fired inside, between or
after the firings of another.  Three pages are the fewest where a run in the
middle can join both neighbours.  A transfer of three units can stop at two
places; a vector of two entries of two can stop inside an entry and between
them.  Two registry slots for three receivers make a number be given out again.
Three objects suffice for a cycle, for an object shared by two others and for a
metatable that is shared; `LuaCopy` treats an object alike at any depth.
Deadlock is not checked: all of these systems stop when their clients do.

Assumptions of the instances.  An int has 2 bits (`CIntBits`), so that of the integers
in the graphs 1 fits and 2 does not.  The part of `memory` that is about watchers ends
when nil is assigned to a handler, since nothing is claimed after that.
`PoolDrain` is called with levels that exist.

Fairness.  Weak fairness of each thread (the operating system schedules it), of
each watcher callback (libev calls those that are ready) and of the retry timer
(it repeats every `IPC_SEND_RETRY_TIME`).  In `io` the event loop runs the listener's
coroutine and its calls return; in `lua` each process goes on with its loop; in
`services` the processes go on with their startup, and the loop goes on telling
c-ares of sockets that can be written to.  In `life_live` the server
module's startup, once begun, ends unless the manager is killed in it (`ManagerLost`):
`ServerStartEnds` and `ServerStopCompletes` of `Server` say so, if hosts resolve; the
repetition of a delay alone (`StillInitializing`) is not taken for progress.  No
fairness for clients that send,
connect or ask, for stop requests, signals, faults or crashes.  In `life_live` a stop
event delayed for Lua messages is not delayed for ever: `LuaAnswered` and
`LuaExactlyOnce` of `LuaIpc` say when that is true.  In `event` each listener that is
called again and again returns without delaying some time (strong fairness):
its reason for waiting goes away; who paused an event resumes it.

## 4. Findings

1. `ring_mpsc_full`: a second writer that reserved an index before `full` was set
   still holds it when the reader resets `next_write_reserve`; the index is
   handed out again and one message overwrites the other.
2. `life_forward`: `ret = ret && shuso_ipc_send(...)` in
   `shuso_ipc_send_workers` (`ipc.c:513`) sends nothing after the first refusal.
3. `event_resume`: `shuso_event_resume_delayed` (`event.c:410`) does not stop the
   timer of the delay, so the rest of the event is run once more when it fires;
   the debugging build aborts there ("cannot undelay", `event.c:206`).

The IPC layer keeps its promise as long as no ring is found full, and with one
writer up to the assertion at `ipc.c:598`; that is what the passing runs and the
proofs say.

## 5. Other claims of the code that the models refute

These definitions state what a comment, an assertion or a test says.  No run
lists them; naming one in the cfg shows the counterexample.

| Definition (cfg) | Claim | What happens |
|---|---|---|
| `ReserveMatchesRelease` (`MCIpcRingSpsc.cfg`) | assertion, `ipc.c:598` | the writer fills the ring between the end of the read loop and the test of `full`; the reset takes `next_write_reserve` below `next_write_release` |
| `FullIsCleared` (`MCIpcRingSpsc.cfg`, with `FairSpec`) | comment, `ipc.c:397` | a writer that compares with an old `next_read` marks a drained ring full and sends no notice; nobody clears the flag |
| `InitializingEnds` (`MCLifecycleLive.cfg`, with `Faults = {}`) | "still initializing", the reason `delay_stopping` gives, `server.lua:437` | every stop is put off until the server module's coroutines have ended; they wait for `manager.workers_started`, which `worker_started_handle` (`ipc_commands.c:122`) publishes only when all workers are RUNNING. A worker that is told to stop before the last report was handled never is again: nothing is initializing any more, and all processes wait for ever |
| `CopyInStep` (`MCLua.cfg`) | assertions, `lua_utils.c:907` and `1216` | `gxcopy_package_loaded` ignores a failed preloader (`lua_utils.c:899`) and calls `require` nevertheless, with values left on both stacks that its callers take for others |
| `AtomicStaleDataPresent` (`MCLua.cfg`) | comment, `lazy_atomics.c:178` | a string is replaced and freed between a getter's load of the pointer and its copy |
| `LuaUnpacksLive` (`MCLua.cfg`) | comment of `pack_field`, "save reference so that it doesn't get GC'd" | the answer is sent before the message is unpacked (`ipc_lua_api.c:342`), so the sender may free what the receiver reads |
| `WatcherYieldAsserts` (`MCMemory.cfg`) | assertion in `Lua_watcher_yield`, `core_lua_api.c:585` | a coroutine that yields to its watcher a second time passes the first assertion and fails the second, of the opposite |
| `ListenerNeverAborts` (`MCIo.cfg`) | comment "should never happer", `io_libev.c:90` | after a failed `accept` the error handler runs and the coroutine ends with its watcher active and nothing to wait for; the next connection aborts the worker |
| `IoVecComplete` (`MCIo.cfg`) | comment, `io.c:197` | a transfer that ends between two entries of the vector leaves nothing unaccounted for and is taken for complete, though entries are left |
| `PoolDrainRestores` (`MCMemory.cfg`) | test, `test/test.c:1234` | the blocks malloc'd after a level are not freed when there was none before it |

Further behaviours met while modelling, for which no document says what should
happen:

* Descriptor passing: after a failed send `io->error` stays set and no descriptor
  is sent any more; `shuso_ipc_send_fd` while the coroutine is blocked resumes it and
  loses the message in hand; all receivers share one timer slot; the end of the
  channel tests the key instead of the value and cancels no receiver
  (`ipc.c:351`).
* IO: a wait for writing is starved while the socket is also readable;
  `shuso_io_shutdown` runs the close operation; `op_partial` of Lua stays set after a
  refused call; a closed Lua io object is closed again by its collection; a listener
  stopped while it accepts publishes descriptor -1.  Once a vector has a temporary
  copy, an entry that is cut again is sent again from its beginning (`io.c:184-191`);
  when the copy cannot be allocated the result is -1 plus the bytes moved.
* Lua IPC: a direct send that is refused after the runstate was checked never
  releases its data, and the stop of every process is delayed for ever; proxied
  messages are cancelled as if they were packed data; data in shared memory is
  never freed itself; "others" and "other_workers" are affected by the precedence of
  `and` and `or`.
* Lazy atomics: `create` clears only `typemix` of its block, so the first set of a
  string, or the destroy, frees whatever address the slab's memory held before (the
  fault `"foreign"`); an empty string leaks; `create(value)` passes its arguments in
  the wrong order.
* Copying: a table whose copy failed stays in the cache of the session, unfinished;
  integers in messages lose what does not fit an int; userdata are not cached,
  upvalues shared by closures are copied
  apart, C closures are cached after their upvalues.
* Watchers: a handler set to nil leaves the old registry number behind, and the
  watcher may run the handler of another (without `~nilled` the properties
  `WatcherRunsOwn` and `WatcherHeld` are violated); a one-shot timer that is made to
  repeat after it fired is neither called again nor released until it is stopped
  (`retimed`); a one-shot timer that its own
  handler stops is stopped again through a reference that is gone; a restart in its
  own handler is undone; the handler's reference is not released by collection.
* Server: two workers that both read the full `done_count` start the servers
  twice; a host that cannot be resolved ends the manager's coroutine before
  `finish_server_startup`, and its stop is delayed for ever; so is that of a master
  whose manager is killed during the startup (`Orphaned` of `Lifecycle`); after an
  abort a listener may start in a worker that has passed `delay_stopping`, and is not
  stopped, and sockets stay open in the manager; the name of every host stays in
  shared memory (`server.c:245-252`), and when it cannot be allocated an address that
  is not of the slab is given to `shuso_shared_slab_free`, which refuses it.
* Resolver: retry loops test `rc == EINTR` instead of `errno`; a worker destroys its
  Lua state before it cleans up the resolver, whose pending requests then call
  into it; a request with a function that ends at once is read after it was freed;
  sockets are always watched for writing, a busy loop that is also what lets c-ares
  see timeouts.

## 6. Proofs

Every safety theorem has the form `Spec => []Inv`, proved from an inductive
invariant: the initial states have it, every action keeps it (one lemma per action
or group of actions) and it implies `Inv`.  The inductive invariants were found
with the help of TLC, which refutes a candidate sooner than a failed proof does.

Assumptions on the constants are the named `ASSUME`s of the modules, which TLC
evaluates in the runs: they give the constants their types and non-emptiness
(`RingAssumption`, `EventAssumption`, `LifecycleAssumption`, `IoAssumption`,
`KindsAssumption`, `AtomicAssumption`, `LuaIpcAssumption`, ...), and to the pool a
page that its header fits in and that begins aligned (`PoolAssumption`).  Two results
assume more, in their statements: one writer in the second part of `IpcRingProofs`,
and `Cardinality(Writers) * Window <= RingSize` with finitely many writers in
`IpcRingMpscProofs` (the clients together keep no more messages unread than the
ring has slots; without it messages are lost, run `ring_mpsc_full`).
The bounds `MaxSend`, `MaxOps`, `MaxRequests`, `MaxPublish` and so on are arbitrary
naturals in all of them.

`IpcRingProofs`, for any set of writers, any ring size, full or not:

* `TypeCorrect`: `Spec => []TypeOK`;
* `PointersAreStored`: `Spec => []PointerStored`, a handler is never called
  with a pointer nobody stored.  By itself "the reader has a pointer" is not
  inductive: it needs that a slot with a code has a pointer, which needs that a
  writer about to store the code has stored the pointer.  `StoredInv` is the
  conjunction with the types.  It survives a reset of the ring because pointers
  are never cleared.
* `DivMod`, `NextMultiple`, `SlotInjective`, `SlotPeriod`: two indexes less than
  `RingSize` apart have different slots, and an index and its successor by
  `RingSize` the same one.

`IpcRingProofs`, for one writer and every ring size:

* `SingleWriter`: `SingleWriterInv` is an invariant.  Order and integrity are
  facts about what the slots hold, so the invariant says what every slot holds:
  between `next_read` and `next_write_release` the messages in order, elsewhere
  nothing (`SlotsInv`).  Keeping it needs to know where the counters stand
  towards each other (`CountersInv`), where `next_write_reserve` is in each phase
  of a full ring and its reset (`ReserveInv`), what the threads hold
  (`ReaderInv`), that the output buffer continues the sequence (`OutbufInv`) and
  what has been handled (`HistoryInv`).  One lemma per action
  (`SubmitKeeps` ... `ClearFullKeeps`).
* `SingleWriterSafe`: hence `SlotIsFree`, `NotTorn` and `InOrder`.
* `SingleWriterRefines`: hence `Channel!Spec`.

`IpcRingMpscProofs`, for any number of writers whose windows fit:

* `ManyWriters`: `MultiInv` is an invariant.  The order in
  which the writers reserved their indexes is nowhere in the state, so the
  invariant says that there is one: a function `g` from indexes to messages
  (`OrderInv`) such that the indexes not handled yet hold each reserved message
  once and those of one writer in order (`LogInv`), every slot holds its message
  or nothing yet (`HoldsInv`), and what writers and reader have in hand is what `g`
  says (`FillInv`, `HandInv`).  A reservation extends `g`.
* `ManyWritersNeverFull`: the reserved indexes are as many as messages submitted and
  not handled (`LogRoom`, a count over an injection), hence at most `RingSize`, and
  the full flag, the buffer and the reset stay out of use.
* `ManyWritersSafe`, `ManyWritersRefine`: `SlotIsFree`, `NotTorn`, `InOrder`, and
  the channel of `IpcChannel`.

`EventProofs`, for any number of listeners, occurrences, pauses and delays, nested
or not: `EventTypeCorrect`, `EventListenersOrdered`,
`EventNextInOrder`, `EventOneOwner`.  The invariant `EventInv` says where an
occurrence goes on from: no frame, pause or delay is ahead of the listeners its
occurrence has got past (`NotAhead`) or, unless a delay was resumed by hand, behind
them (`NotBehind`); no two of them belong to one occurrence (`Disjoint`), and one
does unless it is finished (`Held`).

`LifecycleProofs`, for any number of workers, any faults and any number of requests:

* `RunInv` relates the runstates to where the threads are: what a thread has
  written at each place (`PlaceState`), which processes exist (`Nesting`), and
  that a stop event that got past its first listener found the processes below it
  gone (`WorkersLeft`, `ManagerLeft`).  Hence `LifecycleLeavesInOrder` and, since the
  same lemmas show that no step takes a runstate back, `LifecycleStatesAdvance`.
* `LifeInv` adds the messages and the events.  The news that all
  workers have started is counted, for each process, in the manager's buffer, in the
  ring and as a published event: the sum is at most 1, and 0 until the manager's
  flag is set, which is not before all workers have started (`NewsInv`).  Any other
  event is published in the step in which the thread or the runstate passes a
  point that it never comes back to (`OnceInv`).  Hence `LifecycleStartedMeansRunning`,
  `LifecycleEventsOnce` and `LifecycleTypeCorrect` (every command has a handler in the
  process it is sent to).

`IoProofs`, for all buffer lengths and vectors, any number of operations and each
coroutine of the program: `IoInvariant`, `IoBytesExact`,
`IoWatcherActive`, `LuaIoCompletesOnce`.  `IoInv` says for each kind of coroutine what
it waits for and whether the watcher is active (`Waiting`), where in the buffer an
operation is that is under way or will be retried (`Bytes`), what Lua holds
(`LuaInv`).  The lengths of a vector are added up by a recursive function; its sums
are characterised by a least counterexample (`PartialSumsExist`, `SumIs`,
`ReachedIs`), so what `io_iovec_update_on_incomplete_op` leaves of a vector is
proved for every vector.  The process that survives a copy past the end of a vector is
taken to have lost nothing by it; the one that dies is `"overrun"`.  The upper bound that
`IoTypeOK` has on results uses the model's bound on what a call moves.

`LuaDataProofs`, atomics for any number of processes and operations:

* `LazyAtomicSound`, whatever fresh memory holds.  A type that a process is about to
  store or has read has a field that was stored (`Stored`), and a set that still
  finds the counter it read has not been overtaken (`Counted`).
* `LazyAtomicStringsFreed`: a string in use has one owner, the value or a set that is
  about to free or exchange it (`Owned`), and one without an owner was lost as an
  empty string (`Accounted`).  What fresh memory held counts as a string the value owns
  until it is freed; from then on nothing is claimed, and that this does not happen in
  cleared memory is part of the theorem (`Spoilt`).

`LuaDataProofs`, messages for any number of workers and messages, with processes that
stop: `LuaMessagesExactlyOnce`.  The answers that came and those under way are no more
than the destinations (`Owed`), so the last answer finds nothing
behind it that refers to the data it releases; the counter of each heap is the
number of unreleased messages (`Accounts`).

`IoProofs`, descriptor passing for any number of descriptors, receivers and
timers: `FdsDelivered`.  `PassInv` says what the queue of messages holds when its
links are followed, where the sending coroutine is in it (`FdSendInv`), and
that what was received, what is on the wire and what is queued are together the
numbers 1, 2, ... in order (`FdThereInv`).  A timer that was not started over another
is the one in the slot, and its receiver is still registered (`FdTimerInv`).  Each
part is claimed until the fault has happened that the property names; without them
the queue holds one message and one timer runs at a time, so that what the property
says of the cancelling and the timeout of receivers is little.

`MemoryProofs`, watchers for any number of watchers, coroutines and handlers:
`WatcherReferences`, `WatcherHandlers`.  Numbers of the registry
are given out again, so the invariant has to say that no number is both free and
referred to, that no two references share one, and what each holds (`RegistryOK`,
`SelfOwned`, `HandlerOwned`); that what libev may call is alive and has both
references (`Callable`), and that what has them may be called, is in its last
callback or is a timer made to repeat after it fired (`Due`).  All of it is claimed
until nil is assigned to a handler (`NilOrSound`), and nothing is after that.

`MemoryProofs`, the pool for pages, headers, alignments and blocks of any size and any
number of levels: `PoolStaysIntact`.  `PoolInv` says that the blocks
lie apart in the pages and are the malloc'd ones (`Lie`) and that every page counts its
own (`Count`): the counters of the whole pool alone do not tell what a page takes with
it when it is removed.  A level that can still be drained to lies across no block, has
counted those in front of it, and those in use when it was marked are in front of it
(`Covers`); levels are ordered (`Before`), so that draining to one keeps those before it.
The drain frees blocks and pages by recursive functions, whose results are
characterised by a least counterexample (`HoldsFreed`, `HoldsRemoved`).

`ServicesProofs`, servers for any number of bindings and of workers, whatever fails,
times out or is stopped:
`ServerStartsSound`.  `ServerInv` follows a socket: asked for and
queued by the master (`AskInv`), with the manager (`SockInv`), on its way to or with
exactly one worker (`OwnInv`), answered for (`GiveInv`); the shared count is no
more than the workers that are complete and said so (`DoneInv`); what the end of each
coroutine leaves, the names of the hosts included, is `EndInv`.  A worker that got past
`delay_stopping` without an abort has finished its coroutine and starts no listener any
more (`ClosedInv`).  `AtInv` and `RouteInv` say where the three coroutines are
towards each other and which messages there are at all.

`ServicesProofs`, the resolver for any number of requests, tries and sockets:
`ResolverStaysSound`.  `ResolverInv` says that the list of sockets, the
watchers and the sockets c-ares has open are the same set and the list has no
duplicates (`Agree`), and what a request has when it is pending and when it is done
(`Asked`).  That c-ares closing all its sockets empties all three is shown for a list of
any length.

Only model-checked:

* liveness (`ImplementsFairChannel` and the liveness of `Lifecycle`, `Event`,
  `Listener`, `LuaIpc`, `Server` and `Resolver`): the prover does not handle fairness;
* `CopyIsExact` and `PackIsFaithful`: `LuaCopy` computes recursively over graphs of
  objects, with operators that call each other;
* `SlabNoOverlap` and `SlabConsistent`: addresses and bitmaps are computed with powers
  of two, which the SMT backend does not interpret (it does not find `2^k \in Nat`), and
  `SlabConsistent` follows linked lists to their ends.

## 7. Not modelled

* The module system and the configuration: sequential set-up in one process
  before any other exists, mostly handling of text and of Lua tables.
* One output buffer for several destinations, and the blocking of one by another.
* How the configuration becomes bindings, and how addresses are written.
* Timeouts of Lua receivers in `ipc.lua`; automatic IPC codes.
* A `shuso_resolve_hostname` that fails itself: its result is ignored
  (`core_lua_api.c:899`), and the coroutine that asked is not resumed.
* Loading of Lua modules, argument marshalling of the Lua API, `sbuf.c`, `instring`,
  logging, tables of system constants; `io_liburing.c`, which the build leaves out;
  vendored code.
* Library code is external and modelled by how it is used: libev, c-ares,
  `luaL_ref`, sockets.

## 8. Plan

Done: all modules of section 2 and their runs, the proofs of section 6.  Every
safety property of a passing run is proved but for the four above.  Left to do:

1. `SharedSlab` with its powers of two as a recursive function, so that
   `SlabNoOverlap` can be proved from an invariant about the free runs and the local
   links of the lists.
2. The output buffer that serves all destinations (`ipc.c:560`), as a composition of
   `IpcRing` instances.
