# A verification of MeMo-Tracer

MeMo-Tracer is zsim, a Pin-based simulator of multicores, with the MeMo models of the
front end, the issue stage and the caches in place of zsim's cores. These modules model its
concurrent core in TLA+, check it with TLC on small instances, and prove the parts that are
proved for all instances with TLAPS. Paths are relative to the repository's root.

## The system

Several processes run under Pin. Each of their threads executes analysis code that simulates
it on a *context* (a simulated core). Time passes in *phases*: in the bound half every
thread runs some thousands of cycles on its own, and the last one to arrive at the barrier
runs the end-of-phase actions, which include the weave half, where recorded events are
simulated in order. All state below is in a shared heap; everything is protected by futex
locks, above all by `schedLock`.

| Component | State | Operations | Interactions | What makes it hard | What makes it correct |
|---|---|---|---|---|---|
| Futex locks (`src/locks.h`) | one word: 0 free, 1 held, 2 held with waiters | lock, timed lock, unlock | every component | two-step unlock, spurious wakes, time-outs | exclusion, no lost wake-up |
| Phase barrier (`src/barrier.h`) | run list, scan index, counters, state and futex word of each context | join, leave, sync, (wake, end phase) | called by the scheduler with `schedLock` held; calls back `callback()` | wakes race the unlock; rejoins move slots; cleanup and shuffle | each member runs once a phase, no more than `parallelThreads` at a time, no phase ends early or never |
| Scheduler (`src/scheduler.h`, `.cpp`) | a record per thread and per context; free list, OUT, run and sleep queues; fake leaves | start, join, sync, leave, finish, markForSleep, notifySleepEnd, callback | barrier, virtualisation, watchdog, Pin callbacks in `src/zsim.cpp` | locks dropped in the middle of an operation; handoffs across a phase end; sleepers; deaths | contexts and queues agree; nobody is lost or starves |
| Watchdog (`src/scheduler.cpp`) | last phase seen | break stalls, move time, clean up dead processes | calls leave, finish, callback for others | acts on threads that act themselves | no deadlock on sleep; never leaves for the wrong thread |
| Futex matching (`src/scheduler.cpp`, `src/virt/timeout.cpp`) | allowed and unmatched wake-ups | wake start, wake end, wait woken, join | joins delayed until the woken have joined | polling with the lock released, time-outs | counters never wrap; every wake matched or given up |
| Event queue and end-of-phase actions (`src/event_queue.h`, `src/zsim.cpp`) | events by phase | insert, tick | fast-forward, statistics, heartbeats | insert races the phase counter; lock order with `ffLock` | every event fires in its phase |
| Process tree, fast-forward, termination (`src/process_tree.*`, `src/zsim.cpp`, `src/zsim_harness.cpp`) | processes started and ended, fast-forward counts, flags | start, end, enter, exit, terminate | control thread, harness, barrier | synced mode changes with the number of processes | counts never drift; all exit |
| Weave (`src/contention_sim.*`, `src/timing_event.*`, `src/prio_queue.h`) | a priority queue and a clock for each domain | enqueue, run, cross | recorders, caches, memory | domains at different cycles; crossings; slab reuse | causal order, no event lost or run twice |
| Coherence (`src/coherence_ctrls.*`, `src/cache.*`, `src/filter_cache.h`) | MESI state, sharers, two locks a level | access, invalidate, evict | parents, children | accesses drop the child's lock | one writer, inclusion, no deadlock |
| Replacement (`src/repl_policies.h`, `src/part_repl_policies.h`, ...) | order of the lines | update, rank | arrays | partitions | a valid candidate each time |
| Core models and recorders (`src/MeMo/`, `src/*core_recorder.*`) | clocks, reservation of stages, gaps | basic block, load, store, join, leave | caches, weave | clock skew between bound and weave | cycles never go back |
| Memory (`src/ddr_mem.*`, `src/mem_ctrls.*`, `src/weave_md1_mem.h`) | bank states, request queues | enqueue, schedule, refresh | weave | timing constraints | constraints hold, no request starves |
| Virtualisation (`src/virt/`) | per-thread patch state, clocks, ports | pre- and post-patch | scheduler | retried and interrupted calls | the caller sees simulated time |
| Heap (`src/galloc.*`, `src/slab_alloc.h`) | slabs, live elements | alloc, free | events | reuse while live | no double use |

`PROJECT.json` lists these and the remaining parts with their status, and the forty hazards that are hardest to test, with the properties that would catch each;
the faults met on the way are listed below under the findings. Beside them: the decoder and TAGE feed the
core models, the hierarchy is built from a configuration, the harness launches and reaps the processes, and statistics charge
the cores' work to processes.

## Modules

| Module | Models | Notes |
|---|---|---|
| `Mutex` | what a lock promises | abstract |
| `FutexLock` | `futex_lock`, `futex_lock_nospin`, `futex_trylock_nospin_timeout`, `futex_unlock` | one step an atomic instruction or system call |
| `PhaseBarrier` | what the barrier promises | abstract |
| `Barrier`, `BarrierProofs` | `barrier.h` | one step a shared access |
| `Scheduler`, `SchedulerProofs` | `scheduler.h`, `scheduler.cpp`, the hooks of `zsim.cpp` | one step a critical section of `schedLock` |
| `FutexMatching`, `FutexMatchingProofs` | futex wakes and waits in `scheduler.cpp`, `virt/timeout.cpp` | one step a critical section or call |
| `Processes`, `ProcessesProofs` | `process_tree.*`, `event_queue.h`, fast-forward and termination in `zsim.cpp` | one step between lock operations |
| `Threads` | function pointers, system call hooks, signals, forks and FFI in `zsim.cpp`, `virt/virt.cpp`, `virt/timeout.cpp` | one step a callback |
| `Harness` | `zsim_harness.cpp` | main loop and signal handler interleave step by step (theorem in `ProcessesProofs`) |
| `AdaptiveEvent` | `AdaptiveEvent` in `event_queue.h` | one step an end of phase |
| `Coherence`, `CoherenceProofs` | `coherence_ctrls.*`, `cache.*`, `filter_cache.h`, `SimpleMemory` | one step between lock operations |
| `Weave`, `WeaveProofs` | `contention_sim.*`, `timing_event.*`, `ooo_core_recorder.*` | bound: one step an access; weave: one step an event |
| `PrioQueue` | `prio_queue.h` | against a sorted multiset |
| `Slabs` | `slab_alloc.h`, the life of an event in `timing_event.h` | one step an atomic access |
| `CoreRecorder`, `TimingCache` | the files of these names; no core of this repository uses the recorder `CoreRecorder` any more | one step an access or an event (theorem about `CoreRecorder` in `WeaveProofs`) |
| `DDRMemory`, `MemClock` | `ddr_mem.*` | one step a request or a tick; the translation of cycles |
| `CacheArrays`, `Replacement` | `cache_arrays.*`, `IdealLRUArray`; LRU, NRU, LFU of `repl_policies.h` | one step an access or a miss |
| `Partitioning` | `utility_monitor.*`, `monitor.*`, `lookahead.*` | algorithms against their definitions |
| `WayPart`, `IdealPart`, `Vantage` | the partitionings of `part_repl_policies.h` and `ideal_arrays.h` | one step a miss |
| `Hashing` | `hash.cpp` | symbolic: an output bit is a set of (input bit, matrix bit) |
| `IssueModel` | `MeMo/IssueModel.cpp`, `legos.h` | one step a uop |
| `CoreModels` | `MeMo/FetchModel.cpp`, `MeMo/CacheModel.cpp` | one step a basic block or a phase |
| `Slices` | instruction counts and dumps in `zsim.cpp` and the models | one step an instrumentation call |
| `Decoder` | `decoder.cpp` | one step an instruction, then a cycle's decode |
| `Tage` | `tage.*`, `mybitset.h` | one step a branch |
| `Hierarchy`, `BankBuild` | `init.cpp` | one step a stage |
| `Clocks`, `Ports`, `Cpus` | `virt/time.cpp`, `virt/ports.cpp`, `virt/cpu.cpp`, `cpuenum.h` | one step a hook or a host call (theorem about `Ports` in `ProcessesProofs`) |
| `Statistics` | `process_stats.cpp`, `proc_stats.cpp`, `hdf5_stats.cpp` | one step a charge, a move or a dump |
| `Parts`, `MC...` | instances for TLC | `Parts` also has the blocks, configurations and banks its parts are checked with |

**FutexLock.** `lock` is the word; `pc` says where each thread is. `TryCas`/`TryFail` are the
spins, `Exchange` the swap to 2, `FutexWait` the system call (atomic in the kernel: it
compares and sleeps), `WaitInterrupted` a time-out or a signal, `ReExchange` what a thread
does when it comes back. `UnlockDec`, `UnlockStore`, `UnlockWake` are the unlock.

**Barrier.** `schedLock` is a variable that says who is inside; the caller's steps are the
operations (`JoinOffline`, `JoinLeftAhead`, `JoinLeftPassed`, `Leave`, `LeaveWaiting`,
`Sync`), and then `TryWakeNext`, the scan (`ScanWaiting`, `ScanSkip`, `CasWord`, `Wake`,
`ScanDone`), the end of a phase, the cleanup pass and the shuffle run step by step under the
lock, against the waiters, who test and sleep on their futex words without it. The run list
is a sequence of its live part; `JoinAborts` and the failing compare-and-swap are the
assertion and the panic. With `Kills`, a thread may die anywhere in the barrier and its
context be taken out by somebody else, as `processCleanup` does.

**Scheduler.** Variables carry the names of the fields. Differences: the free list and the OUT
queue are sets, so any of their elements may be the front; the run queue is a set with, for
each thread, those before it (`ahead`); `wakeIn` is `wakeupPhase - curPhase`, since only
the difference matters; `quantum` is `curPhase` modulo the quantum. The barrier is seen from
outside (`bar`): a context is out of it, running, or done with its phase. That is
`PhaseBarrier` with `parallelThreads` no less than the number of cores, which is the
configuration's default; a joining context then runs at once. `pc` follows a thread through `zsim.cpp`:
it joins, runs, syncs, waits for a core, enters a system call with a fake or a real leave,
comes back, finishes. `wd` is what the watchdog remembers while it has released the lock.
Assertions are state predicates (`JoinAssertion`, ...): a handler whose assertion does not
hold cannot go on, and `AssertionFails` ends the simulation. Constants switch the
faults on: `Stalls` (system calls that last until the watchdog acts), `Mortal` (processes
that may die at any time) and `BackToBack` (system calls without instrumentation between them).
FUTEX_WAKE of a thread's word is always called with `schedLock` held, so a thread never sees
a stale wake: `WaitReturns` needs the word to be 0.

**FutexMatching.** Who wakes, who has been woken and must yet join, and the two counters of `scheduler.cpp`. The waker's join
polls with the lock released; wakes from outside the simulation, failing calls and the two-second time-out come at any moment. The count of a wake is an
int (`Asks`; UINT_MAX is -1): `WakeStart` casts and caps it, as `notifyFutexWakeStart` does, and `WakeEnd` takes the lesser of the call's result and the int, and casts that, as
`PostPatchFutex` does. The assertions of the waker's join are told apart by what `fail` says: the one on what it has woken (343) fails for exactly the calls that asked for more than an int holds.

**Processes.** `proc` holds each process's threads, fast-forward flags and control thread, `sim` the locks, the event queue, the
counters and the phase. `ffLock` and the queue's `qLock` are taken and released in the code's order, so a toggle that inserts an event,
a tick that runs callbacks and an exit at the end of a phase meet in every order. A process that exits leaves its locks and its pending events in the shared heap
(`Gone`), where nobody will see to them. `Stuck` names what the code cannot get out of: the circle of two control threads and a tick, and an exit in the middle of something others wait for. **Threads** is the view from one process: what
each thread's function pointers, system call marks and FFI state say against its state in the scheduler. **Harness** has
the children, the table `childInfo`, `SIGCHLD`, and the heap that all wait for.

**Coherence.** Each thread's nested calls are a stack of frames; a cache's two locks (`bcc` towards its parent, `tcc` towards its children) are taken in the code's order, and an access drops the child's lock while it waits for the parent's. The caches hold no data in the code;
`fresh` is a ghost that says which copies would hold the last write. A line address is a process's mask and a virtual address (`Proc`, `Virt`); a filter entry holds a virtual address, and `FilterMatches`
compares it under the mask of the process whose thread runs the invalidation (`Process`), which is the one that issued the access at the bottom of its stack. So an eviction by another process's access does not find the
entry; the ghost `left` marks it.

**Weave.** The event graph is recorded access by access: an event's children are a function to the delays on the way (`kids`; a `DelayEvent` runs with
its parent), and `outs` are the crossings it will call. Cores start the weave phase one after the other (each adds its tapering event), then each simulation thread takes
the first event of a domain and tells all its children at once (each hears it once, so their order is of no account). A crossing whose source is not done reads the other domain's clock, looks
again, and requeues itself, in steps of its own; the end of the phase shifts each core's clock. **Slabs** looks at the memory of the same events, **PrioQueue** at the queue.

**The remaining modules** are sequential components with a long life: their hazard is what a long sequence of calls leaves behind. Each states a property that
compares the state with a ghost record of the calls: the victim with a true order of use (`Replacement`, in which an access may also hit the address of a line that was invalidated), the commands with
the device's constraints, but tRRD between banks, over the log of all commands (`DDRMemory`, whose ring of the last activations is reordered in place as the code does it), the uops with the data flow of the instruction (`Decoder`), the work charged with
the work done (`Statistics`), the hierarchy built with what the configuration says (`Hierarchy`), and so on. `Parts` puts them side by side: a
behaviour is one component's, and `part` says whose.

## Runs

| Run | Instance | What it shows |
|---|---|---|
| `lock` | 3 threads, fair | `MutualExclusion`, `NoLostWakeup`, `SomeoneGetsIn`; it implements `Mutex` |
| `barrier_kills` | 4 contexts, 2 at a time, with deaths | exact counts and run list, parallelism, work conservation, no lost wake-up, no assertion fails but join's slot assertion |
| `barrier_live` | 3 contexts, one at a time, no deaths, fair | rejoins find their slots, no join ends a phase, it implements `PhaseBarrier`, and every waiter gets to run |
| `sched` | 3 threads, 2 cores, one thread pinned, quantum 2, sleeps up to 2 | no assertion of join, sync, leave, deschedule, callback and their helpers fails (that of `finishFakeLeave`, `scheduler.cpp:392`, is not among them); contexts, queues, handoffs and sleepers are exact; phases wait for whoever runs in them |
| `sched_live` | 3 threads, 1 core, fair | nobody is overtaken in the queue, no starvation, and sleepers wake with nobody running |
| `sched_faults` | 2 threads, 2 cores, both may use core 0, all faults | contexts and lists stay exact, even on the way to an assertion |
| `sched_stall_race` | | *violated*: the finding below |
| `coherence` | 3 cores (one of them an instruction cache), two and three levels, 1 line a cache, 2 addresses of 2 processes with the same virtual address, 2 accesses at a time | no assertion or panic, one writer, exact directories, inclusion, no stale filter entry but those left by another process's invalidation, no write lost that the caches saw, no deadlock |
| `weave` | 2 cores, 2 domains, 1 or 2 threads, 2 phases, 2 accesses, fair | no assertion fails, every event is queued no later than it is due and none is lost, the tapering holds with one domain a thread, every weave phase ends |
| `weave_taper` | the same without the exception | *violated*: the finding below |
| `slabs` | 1 event and 1 crossing, 2 threads | *violated*: the finding below |
| `parts` | each component by itself, the processes (two instances) and the harness fair | one property a family: `ProcessesExact`, `MatchingExact`, `TimingExact`, `ModelsExact`, `ArraysExact`; and `ProcessesGoOn`: unless the processes are `Stuck`, a phase's end is got over, and from termination on everybody ends |

The bounds. Three threads are the least for a lock to have an owner, a sleeper and a
thread that overtakes it; the proofs cover the rest. In the barrier, a same-phase rejoin needs two members that
have passed and one that has not; the cleanup pass comes every second phase instead of
every 32nd. In the scheduler, two cores and three threads, one pinned to the last core, reach every branch:
a steal from the OUT queue, a handoff after which the thread finds another core
(the path the code calls untested). Queued threads keep the cores of their masks busy, so the queue never
holds more than one thread there; a queue of two needs three threads on one core, which is
`sched_live`. Threads that run anywhere are alike, hence the symmetry in `sched`. A quantum of two phases separates phases with and without a
tick; sleeps of one and two phases order the sleep queue.

In `weave` one access may cross a domain and the second follows it or not; the second phase is explored with the second core idle, and with one access if the first core has stopped (`SecondPhaseAlone`),
since what crosses phases is a core's own chain, its clock and the events left in the queues. The bounds of `Parts.tla` are the least at
which each part meets its limits: queues of 2 and a ring of 2 activations (`DDRMemory`, 4 requests) and a window of 3 (`IssueModel`) fill up; the ring of 4 blocks of 2 cycles (`PrioQueue`) turns several times; two MSHRs and three
requests (`TimingCache`); 8 for 2^32 and 2 for 256, so that scores and timestamps wrap (`Replacement`, `Vantage`); two processes, one that toggles
fast-forward and one that restarts, with every mode of synced fast-forward (`Processes`, part "processes"), and two that are both toggled in and out of it twice, in one phase (part "control": the least for the deadlock of two
control threads, which the run reaches); wakes of 0, 2, 5 and -1 with a cap of 3 and ints from -8 to 7, so that counts are cast, capped and left alone (`FutexMatching`); slices of 3 instructions in blocks of 1 or 2 (`Slices`); three cores where CPUID's field
holds 2 (`Cpus`). `Configurations` has every way three groups of caches can name each other as children.

Fairness. A thread inside a lock or barrier operation goes on (weak fairness of its steps):
the host schedules it. In `sched_live` threads that have a core do sync again and
again (strong fairness of `Sync`: a phase is a fixed number of simulated cycles, and whatever a
thread does between system calls adds to them), calls without a real leave return, joins and handoffs
go on, and the watchdog acts when everyone is out. A real leave may last for ever and a sleep need not
be interrupted. In `weave` each simulation thread goes on. In `parts` the end of a phase, the watchdog, the threads' own steps, restarts by
the harness, the return of a toggler's calls, and the harness's loop, handler and children go on; nothing is asked of a program: it need not
end, toggle or make calls, and a child that hangs hangs.

What is excepted from `ProcessesGoOn` is for ever: in `ControlDeadlock` the end of the phase waits in `callback()`, with `qLock` held, for a control thread that waits for `ffLock`, and whoever has `ffLock` waits for `qLock`; in
`CutShort` the process that would answer, unlock or finish the phase has exited. Everything else that could stop a phase, or keep a process from ending, is what the property is about.

In `coherence` every core may change its thread between accesses (`ContextSwitch` flushes its filter), so that a core runs first one process and then the other.

### Findings

* The watchdog breaks a stall in two critical sections; a thread that comes back in between
  fails `join()`'s assertion (`sched_stall_race`).
* With several domains for a simulation thread, a core may find its phase untapered (`weave_taper`): the threads simulate
  events at the limit of the phase, which is where the tapering event is; with one domain each they stop before.

* The two halves of a crossing count as two elements of a slab that was given one: slabs are freed while events in them are to
  run (`slabs`). The check of `SlabsExact` in `parts` excepts it.

### Other behaviour worth knowing

What follows was met while modelling. Most contradict no document; where one would break a property, the module names
the condition and the property excepts it and nothing else.

* Barrier: `join()` reads a `lastIdx` nobody set if the context's thread was killed waiting for its first phase (`barrier.h:137`);
  `RejoinFindsItsSlot` fails with `Kills = TRUE`, so it is checked and proved without deaths. Process cleanup can also fail assertions of
  `finish()` and of `sync()`; the comment above `processCleanup` says it is not race-free. `sched_faults` has these behaviours, ending in `AssertionFails`.
* Matching: the assertion at `scheduler.cpp:343` fails when a program asks for UINT_MAX wakes, which the comment at 307 says programs do: the count is capped for the allowance, but as an int it is -1, the lesser of it and
  the result is -1, and that is cast to what no cap admits (`timeout.cpp:189`, `216`). `Asserted` in `FutexMatching` says so, and that nothing else fails it. (A build with `-DNASSERT`, `SConstruct:253`, drops the assertion; the waker then adds to the
  allowance and polls for wakes that never come. That is not modelled: `fail` ends the behaviour.) The assertion at 346 fails after wakes from outside; a failing wake keeps its allowance
  (`timeout.cpp:203`); and 256 calls of 16M wakes at once, in flight or failed, would wrap the allowance (`ConstantsFit` assumes fewer).
* Filter caches: an invalidation run by a thread of another process does not find the entry (the FIXME of `filter_cache.h:168`), so a core may go on hitting a line its cache has lost. `SingleWriter` excepts the entries so left, and
  `CopiesFresh` does not see stores that hit them.
* Memory: tRRD, declared at `ddr_mem.h:230` from an activation to any other, is kept between those of one bank only (`ddr_mem.cpp:484`, `568`); `CommandsLegal` states the rule as the code keeps it. An activation earlier than all
  in the window goes to the ring's oldest place, and the ring is then no longer in order (`ddr_mem.h:92-97`): the run reaches this, and all it does is that the next activation waits longer than it must.
* Event queue: an event inserted between `tick()` and `numPhases++` panics later (`event_queue.h:114`). `AdaptiveEvent` for FFI ignores that several threads may count (`zsim.cpp:307`).
* Fast-forward: `notifyEnd` leaves it without `ffLock`, which `zsim.h:125` says is taken in all entries and exits; an exit with
  a `SyncEvent` pending, or while a thread of the process holds `ffLock` or ends a phase, stops the simulation (`CutShort`); two control threads toggling at once deadlock (`ControlDeadlock`: `ffLock` and `qLock`); both are reached in `parts` and named by the property that excepts them; forking under
  "Multiprocess" wraps the count of synced processes (`process_tree.h:113`). A fork does not repeat `FFIInit`; process 0 with restarts waits for itself.
* Threads: `SimThreadStart` checks `tid > MAX_THREADS`; `AbortsKnown` in `Threads` lists the sequences of calls that fail assertions of the hooks.
* Harness: a child dead before its entry in `childInfo` panics; children reaped in the loop are neither restarted nor checked; if process 0 dies
  before the heap is ready the others wait for ever; `secsStalled` outlives fast-forward.
* Slices: the last slice is lost if a whole slice has run since the last cut (`zsim.cpp:983`), and its statistics lack the pending block;
  termination dumps no last slice; `assert(instrs == total_pcount)` fails after a deschedule, a fast-forward or with a second thread.
* Core models: up to width + 1 uops issue and retire in a cycle (`legos.h`, `IssueModel.cpp:181`); loads and stores of `IssueModel` are never filled in, and some of its state is
  uninitialised; predicated-off stores still access the cache (`CacheModel.cpp:215`, against `:128`); `contextSwitch` keeps `branchPc` (`FetchModel.cpp:109`); `loadAddrs[256]` is not checked.
* Decoder: a store of an immediate depends on whatever wrote its temporary last; a third source in a chain is lost; `cmov` from memory never writes its register; string
  compares load the first operand twice; `xchg` without the LOCK prefix has two fences after it; the fifth complex instruction makes the rest unlimited.
* TAGE: `mybitset::set` sets the bit whatever the value, so the index ignores the history (`tage.cpp:273`); never-allocated entries hit on tag 0.
* Arrays and partitions: LRU scores are compared in 32 bits; NRU over-counts young lines; `IdealLRUPart` writes behind
  `partInfo`; lookahead hands out too many buckets, so `WayPart` aborts; miss curves share an entry; `InstrDataPartMapper` returns 2 of 2; `ProxyReplPolicy` passes a null controller.
* Start-up: a loop of caches beside the tree is never seen and dereferences null (`init.cpp:411`); a core group may be named like the last-level cache;
  the default type "Simple" cannot be built above the terminal caches; `SetAssoc` with `IdealLRUPart` is accepted and panics at the first miss.
* Clocks: processes of a domain take its offset again from each other; entering fast-forward ahead of the host sets clocks back; at exactly the end of
  a phase RDTSC goes back one phase (`zsim.cpp:1379`); an absolute `clock_nanosleep` on `CLOCK_MONOTONIC` uses the realtime offset.
* Ports: a thread killed inside `bind()` keeps the domain's lock; translations outlive their sockets.
* Statistics: the second process to leave a core in a phase is not charged (`proc_stats.cpp:172`, with a FIXME); phase 0 is never read; a slice dump updates without `schedLock`;
  nested regular aggregates may bleed past the one spare record (`hdf5_stats.cpp:72`).
* CPUID leaf 4 is capped by the number of cores, not of the process's (`zsim.cpp:1350`).

## Theorems

For every set of threads and number of spins, `FutexLock` proves `TypeCorrect`,
`LockIsExclusive`, `WakeupIsNeverLost` and `FutexLockImplementsMutex`. The invariant
says that the word is non-zero exactly while a thread is in the critical section or before
its store, that it is 2 as long as a thread sleeps and no wake is on its way, and that at
most one thread owns it.

For every set of contexts, `parallelThreads`, and cleanup period, `BarrierProofs` proves
`TypeCorrect` (counters do not wrap), `RunListIsExact`, `CountsAreExact`,
`ParallelismIsBounded`, `AlwaysWorkConserving`, `WakeupIsNeverLost` and
`AssertionsHold`, with and without deaths, and, without deaths, `RejoinIsSafe` and
`JoinEndsNoPhase`. The inductive invariant adds to these what holds in the middle of an operation:
who holds `schedLock`, which futex word and state each label of a waiter implies, the range of the scan index at each step
of the scan and of the cleanup pass, that the run list holds each member in exactly one slot, and that
`lastIdx` names the slot of each context that has been woken. It is proved one conjunct at
a time (`LockStep`, `WordStep`, `ListStep`, `SlotStep`, `JoinStep`, `ScanStep`,
`CountStep`, `TypeStep`), over lemmas on what a move, a swap, or a removal does to the list and
to the sizes of the sets of contexts in each state. Assumptions: the constants' (`ASSUME` in the modules), nothing else.

`Implements` proves, without deaths, that the barrier implements `PhaseBarrier` (its steps; the run checks the liveness): each critical section maps to a step of
one member, a scan's wake to its start, `EndPhase` to the end of the phase, and everything else (compare-and-swap, wake, cleanup, shuffle, waiters) to a stutter.
A member that waits is pending exactly while its slot is ahead of the scan, so the mapping needs one more invariant than the properties: whoever
runs has been passed by the scan (`RanInv`), so that nobody is pending or done again within a phase. A member that dies waiting and is joined again breaks it, hence the condition.

`SchedulerProofs` is about any number of threads, processes and cores, any non-empty masks, any quantum and lengths of sleep. Unconditionally, with
stalls, deaths and repeated calls, and even after a failed assertion, `TypeCorrect`, `ContextsAreExact` and `WorkIsConserved` hold.
Their invariant `AInv` adds that each queue is what the threads' states say, that `ahead` is a strict total order on the run queue (so it has a first element for each context: finite sets have minimal elements),
that the sleep queue has no repeats, and that a thread the scheduler does not know is in no queue. It is proved one operation at a time over
lemmas on what `schedThread`, `schedContext`, `schedTick` and the removal from a sequence do; an operation that drops `schedLock` is several actions, and
each of them keeps it, which is why handoffs can cross anything.

Under `NoFaults` (no stalls, no deaths, no calls without a join between them; the findings and `sched_faults` show what happens otherwise) `NothingAborts`,
`RunnersHoldTheirCores`, `WaitersAreNeverLost`, `SleepersAreOrdered`, `PhasesWaitForRunners` and `NobodyOvertakes` hold as well. Their
invariant adds `BInv`: for each place a thread can be in its calls, its state, its futex word and its context (`Placed`); that a thread on a core is there with the barrier (`RunnersOnCores`);
that a handoff is a promise to one thread that waits, by one that will come to `deschedule()`, and nobody waits without a place in the queue or a promise
(`PromisesKept`); and that the sleep queue is in the order of deadlines, all of them ahead (`SleepersDue`). None of the three stands alone: the assertion of `deschedule()` needs
the promises, the promises need the places of both threads, and the end of a phase, which moves sleepers and makes promises, needs that whoever executes holds it up.

`AdaptiveEvent` proves `EventFiresInTime` (`FiresInTime` of `AdaptiveEvent`, which the run `parts` checks): for all targets and rates, as long as the
counter grows no faster than the given rate, an event never fires before its target nor is passed by, it overshoots by less than a phase unless the target was that near
when it was inserted, and after its first look it fires in the very phase that reaches the target. The
invariant adds that the phases to the next look, at the highest rate, do not reach beyond the target. `WeaveProofs` proves
`EventsRunOnTheirCycle` (about `MemClock`) for all frequencies with a memory cycle longer than two system cycles (the constructor's condition): an
event queued for a memory cycle that is not past runs in a system cycle that translates back to it, which is the
assertion of `tick()`.

`CoherenceProofs` is about any tree of caches, any numbers of lines and addresses and any number of threads at once. `Panicless`,
`Directories` and `Writers` prove `NeverPanics`, `DirectoryExact` and `SingleWriter`; the run `coherence` checks them on three cores. Their
invariant `IInv` (`Invariance`) is a claim about each frame of each thread's calls, whatever processes the lines are of:

* *Locks* (`Locked`, `Once`). An access that has begun holds `tcc` of its cache, and `bcc` as long as it works there or waits for an invalidation below; while
  it waits for an access above, `bcc` is free. An invalidation holds `bcc` from `startInv` on. No thread holds a lock for two of its frames, and a lock has one holder.
* *Directories* (`DirOK`). A directory and the lines it is about change in one step, so it is exact at all times, and not only when nobody works on the cache:
  sharers, exclusive bit, inclusion, and at most one sharer if one may write.
* *What a frame relies on.* A cache that waits without its `bcc` may lose its line or its right to write to an invalidation, and nothing else: `ReqOK` lists what its
  state can have become, which is what `CheckForMESIRace` expects. A frame that holds the cache relies on the line itself (`OwnOK`), an eviction on its
  victim being in the array and the new line not (`VictimOK`), an invalidation on there being something to invalidate (`InvOK`).
* *Induced writebacks* (`WritebackOK`). A writeback on its way up belongs to the line of the last frame, which that cache has exclusively and no child has any more.
* *Filters* (`FilterOK`). The entry of a core that does nothing never allows more than its cache, unless it was left by an invalidation that did not match it.

Every step then changes few lines of one or two caches, in one of three ways: the owner's (`OthersSeeOwn`, `BelowOwn`: an insertion, a refill), a serving parent's (`OthersSeeServe`,
`BelowServe`) or an invalidation's (`OthersSeeLoss`, `BelowLoss`); these lemmas say that the frames of the other threads and the ones below in the same
thread keep what they rely on. `SingleWriter` follows from `DirOK` along the tree: the paths from two leaves to the root
meet in a cache whose directory would have to name a child on each path (`OnePath`, `Apart`). The only assumptions besides the constants' types are that
the caches are finitely many and that there are no loops, as `init.cpp:342-416` makes sure (one parent a group, one last-level cache, everything reached from it).

`NobodyDeadlocks` proves `NoDeadlock`. `IInv` says which locks a frame holds; `HInv` adds the converse, that whoever holds a lock has a frame that needs it.
So in a circle of threads that wait for each other everybody waits to enter a cache (`Entering`): the lock of a child that `endAccess` takes back
is free (`ChildFree`), and who holds a filter's lock waits for nothing. Who waits to invalidate a cache waits for an access there that invalidates further down (`WaitsBelow`);
who waits to look up a line waits for an invalidation (`WaitsForInval`); who waits for `tcc` waits for an access that has gone further up (`WaitsAbove`). Finitely many caches without loops end both chains.

`WritesAreNeverLost` proves `CopiesFresh`. What is stale where is the invariant `FInv`, over `IInv` and `HInv`: a stale valid copy has a child that answers for it (`FreshAt`), and stale memory
has the root. A cache answers (`Answers`) if it has the line exclusively and either has it modified, or is itself stale (so that the question goes on further down), or a thread is bringing it the write from an
invalidation below (`Induced`). So following the answers down from a stale copy ends at a modified line or an induced writeback (`FreshEverywhere`). An invalidation
that finishes moves the answer up by one cache; its `bcc` makes sure that only one thread brings something there (`OnlyInducer`); a cache with no exclusive child is fresh (`NoChildFresh`), so what
it grants or puts is. `PutsOK` is needed beside it: a put that reaches the directory finds the cache modified if the line is dirty, and the child unmodified if it is clean, which is what `CheckForMESIRace` turning
a PUTX into a PUTS is for.

`ProcessesProofs` proves `ProcessesAreExact` (`ProcessesExact` of `Processes`, part of what `parts` checks) for any set of processes with process 0 in it, any modes
of fast-forward, restarts, togglers and phases. The counters (`Counters`) are sizes of sets of processes, and each action moves one process in or out of them; what makes that inductive is who may act:
a process under way in fast-forward holds `ffLock`, and only the end of the process takes it out meanwhile (`Locks`); a phase that ends finds nobody running, and after termination nobody runs or ends
another phase, the watchdog included, since what it has seen is older (`Ends`); a process that has exited holds nothing any more, and its locks and events count as nobody's; a process that has not started has changed nothing, so that a start counts it once (`Lives`); and no event is left behind, but one inserted
between `tick()` and the increment (`Events`). The exception of `CountsExact` had to be weaker in the invariant than in the property: what a process not made yet would say of "Multiprocess" does not matter (`Skewed`).
`Dumped` says that process 0 has started and nobody starts or restarts once it has dumped the statistics.

Its last two sections are about `Harness` and `Ports`, of which it has an instance each. `HarnessIsExact` (`HarnessExact`) holds for any `Last`, `Restarts` and `StallLimit` (natural numbers), wherever the signal handler
interrupts the main loop. Its invariant `HInv` adds that processes are launched in order (`Launches`: so that only the child between `fork()` and the record of it is unknown), that a process says how it ends before it does
(`Fates`: so that one reaped without a word is a missed one, which "all children are done" excepts), and that the stall counted is no longer than the time without a phase, of which the sleep that has just ended is
not counted yet (`Stalls`). `PortsAreExact` (`PortsExact`) holds for any sockets, port numbers above 0 and domains. Its invariant `PortInv` says that who is between the two halves of a bind holds its domain's lock and
asks the host for the number's translation, if it has one (`Binding`); that a socket bound to a number of its own is found in both tables (`Found`); and that no real port is bound twice (`RealApart`, what the host guarantees):
so a second bind of a number asks for the same real port, and fails.

`FutexMatchingProofs` proves `WakesAreMatched` (`MatchingExact`) for any finite set of threads, any counts, cap and width of an int, as long as all allowances together fit a word (`ConstantsFit`). The two sums are cardinalities (`Total` counts pairs of a thread and one of its wakes), since a
sum by recursion would need induction: `TotalFollows` says what one term's change does to a sum, `TotalBounds` that it is monotonic. The invariant adds what the two ends of a call have made of its count
(`Honest`): before the end the allowance is the cast and capped count, after it the woken are the cast of the lesser int, and a caller that asked for more than an int holds never gets past its join. So what the wakers count is within what is allowed,
thread by thread, and the assertions of a waker's join follow from the sums (`WakeJoinKeeps`, which shows both that the one on the woken fails for such a caller and that it fails for no other); that each failed call has left its
allowance once (`LeaksFew`) bounds the whole, so nothing wraps; a waiter's join finds an allowance left because it is itself one of those that return (`WaitJoinKeeps`).

`WeaveProofs` is about any numbers of cores, domains, threads, phases, accesses and events, any way to give the domains to the threads, and any delays. `EventsAreDue` proves
`EveryEventIsDue`: no event is lost, queued twice, or left waiting for a parent that is done, however the threads interleave. The inductive invariant `Structure` (`WeaveSound`) says four things, as long as no assertion has failed:

* *The graph* (`Graph`). Edges lead to live events, an event counts its live parents, and a crossing that was not called has one event that will call it, any other none.
* *The queues* (`Waiting`, with the crossings that threads are running as a parameter). An entry is of a live event of that domain that waits for nobody and is not being run, no event has two, and whatever
  waits for nobody and is not being run has one.
* *The threads* (`ThreadsWell`). A thread's queues hold its own domains, and the crossing it runs is a live one of the domain it took: so no two threads run the same one (`CrossersApart`), which is what makes requeueing it safe.
* *The count* of threads that are done (`Counted`), so that outside the weave phase nobody runs anything.

Each operation of the model (`AddEvent`, `AddChild`, `Cross`, `EnqueueSynced`, `EnqueueCrossing`, `Done`, `Enqueue`) keeps the first two (`GoodAdd`, `GoodSynced`, `GoodIssue`, `GoodCross`, `GoodDone`, `GoodAgain`), and each action is a few of them in a row. An access is seven
of them, and cutting an edge for a crossing leaves its child without a parent for a moment, which is why the invariant is stated of a heap in between as well. `Spoils` says that a heap that failed an assertion stays so: what an action did first is known to have gone well when its result has.

Its last section is about `CoreRecorder` (with an instance of it). `RecorderIsExact` (`RecorderExact`) holds for any phase length above 0 and any latencies, gaps and contention: each cycle of contention delays the core
once, however many phases its events take and whether or not the thread leaves and comes back, the clock counts what the core does besides, the halted cycles are right, and no assertion of the recorder fails. The invariant
`Books` gives the events of the chain the cycles at which they would start without contention (`IsChain`: each starts when the one before it ends, the last ends at the last response, and none expects to start later than the
contention met so far allows). The first starts late by exactly what was added since the join, so a core event shows at its start what was added before it (`Started`); and what a core that runs appends at the end of
the bound phase starts after the phase, so its chain never runs out (`InWeave`).

Only model-checked: liveness (the prover has no ENABLED); `NeverFails` and `NotLate` of `Weave`, whose invariant needs the times of events besides (the clocks of domains, the chain of each core's issue events and the slack between them); and the other parts, most of which compare a recursive algorithm with its definition. `MatchingExact` and `ProcessesExact` are, in `parts`, the properties of several components: the theorems are about
`FutexMatching`, and `Processes`, `Harness` and `Ports`, alone; `RecorderExact` is one of those in `TimingExact`.

## Plan

1. Proofs: `NeverFails` for `Weave`; then `NotLate`, which needs that what leads to the source of a crossing starts no earlier than the clock that was read; the other sequential parts whose properties need no recursion (`Cpus`, `Slabs`).
2. `Coherence` with prefetches, several banks and `nonInclusiveHack`; `Weave` with three domains.
3. `Threads` composed with `Scheduler` instead of its callers' view of it.

## Not modelled

* `dlmalloc.h.c` is vendored; `galloc` hands out its memory.
* Patching the vDSO is never reached, since `Trace()` returns for code outside the main executable.
* `init.cpp` builds `DDRMemory` only: `MD1Memory` and the simple and weave memories beside it are never reached (`SimpleMemory` stands for the memory under `Coherence`). Technology
  tables, latencies and ports are data.
* Random and profiling replacement, text statistics, trace files, file names (`fs.cpp`), debugger attachment, command lines, the parser of configurations, the scripts:
  formatting, I/O, or without state.
