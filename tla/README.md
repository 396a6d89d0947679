# Witcher in TLA+

Witcher tests key-value stores on non-volatile memory for crash consistency.
This directory holds a TLA+ model of its pipeline, from the tracing run-time to
the verdict on a crash image, and of the parts of the vendored PMDK that the
tested programs rely on to survive a crash. TLC checks the models on small
instances; TLAPS proves the central results for instances of every size.

Sources are named relative to `src/`. `PROJECT.json` maps every definition to
the lines it models.

## 1. The system

| Part | Source | State and concurrency |
|---|---|---|
| Tracing run-time | `giri/runtime/Giri/Tracing.cpp` | entry and value caches mapped from files, one mutex, signal handlers |
| Searches in a trace | `giri/lib/Giri/TraceFile.cpp` | records say which block ran, not which execution of it |
| PDG and PPDG passes | `giri/lib/Witcher/` | a graph per TX: accesses to persistent memory (PM) and their data and control dependences |
| PM trace pass | `giri/lib/Witcher/WitcherPMTrace.cpp` | sequential; reads values in step with the run-time's writer |
| Trace operations | `replay/mem/` | stores (8-byte chunks), flushes, fences, TX borders; a flag per store: clear, flushing, fenced |
| Beliefs | `replay/engines/witcher/witcherppdg.py`, `witcherbeliefdatabase.py` | PM objects in an ordered list, a graph of what must persist before what, a set of critical objects |
| Simulated cache | `witchercache.py`, `binaryfile.py` | stores per cacheline, pool file |
| Crash manager | `witchercrashmanager.py`, `witcherparallelcrashmanager.py` | candidates "persist p, leave v volatile"; one process per TX |
| Crash validator | `witchercrashvalidator.py` and its variants | crash images, executions with a timeout, memoised oracles, result maps |
| Parallel engine, thread pool | `witcherparallelengine.py`, `witcherutils/WitcherParallelUtils.py` | a command per TX; server thread behind a socket, workers, queue, barrier, condition |
| Full and Yat engines | `witcherparallelfull/`, `yat/` | number all crash states of a TX and split them into budgets |
| PMDK TX engine | `witchertx/` | crash points from undo-log coverage |
| Trace checker | `mem/witchertrace.py`, `witchertc/` | performance and logging defects of a trace |
| libpmem, libpmemobj | `pmdk-1.8/src/libpmem/`, `libpmemobj/` | redo and undo logs in lanes, transactions, persistent lists, a lock-free search tree |
| Block translation table | `pmdk-1.8/src/libpmemblk/btt.c` | lanes, map, flog, recovery, layout on first write |

A run of the tester traces the program, builds one PPDG per TX and a PM trace,
infers beliefs from the PPDGs, and starts one crash manager per TX. Each
manager replays the trace through a simulated cache and, at each fence of its
TX, builds the crash images that violate a belief and has them validated: the
program recovers from the image, and its output is compared with those of runs
without a crash. The other engines choose the images differently.

## 2. Modules

The tester:

| Module | Models | State | Actions |
|---|---|---|---|
| `Tracing` | the run-time under a program of several threads | windows of the two files, mutex, stacks of blocks, memory | one per call that the pass inserts, and the instruction; exit, signal, the closing steps |
| `TraceFile` | the searches of `TraceFile.cpp` | a running program and its trace | the program's; the searches are operators over the trace |
| `DependenceGraph` | `WitcherPDG`, `WitcherPPDG` | caches of control dependences, work list, graph | next access, one step of the slice, contraction |
| `PMTrace` | `WitcherPMTrace.cpp`, `StoreValueReader.h` | where the value file is mapped, position in both files, the output | `mmapValues`, one per entry |
| `MemoryOperations` | `mem/` | none | operations, traces, flags |
| `PMObjectList` | `PMObjectList` | the list, the search bounds, the merge position | `insert`, `Search`, `MergeLeft`, `MergeRight`, `find`, `FindProbe`, `FindEnds` |
| `BeliefDatabase` | `WitcherGraph`, `WitcherBeliefDatabase` | the DiGraph, edges to do, search queue, beliefs | `init_edges`, one action per edge and per node searched |
| `PersistentMemory` | abstract: what hardware promises | completed operations, pending and durable stores, last image | `Execute`, `Evict`, `Crash` |
| `WitcherCache` | `witchercache.py`, `binaryfile.py`, image building | `cacheline_dict`, `flushed`, `file`, `image` | one operator per method |
| `CacheReplay` | any driver of the cache | the trace position | `Accept`, `AcceptFence`, `WriteBackAll`, `BuildImage` |
| `CrashManager` | the manager of one TX | loop position `pc`, loop counters, candidate lists, plans, what was tested | one action per loop iteration of `get_crash_candidates_from_tx`, `run_before_target`, `run_try_traget`, `verify_crash_candidates`, `validate`, `bring_back_potential_candidates`; `epilogue` |
| `CrashValidator` | all validators (one program, memcached, redis, several threads, PMDK transactions) | runs, cached oracles, result maps | `check_consistency`, `get_oracles`, `compare_to_oracles` |
| `FullEngine` | the exhaustive engine, the cache and permutator of Yat | counts per TX, budgets, the unit being run | counting replay, planning, one step per operation of a unit |
| `TxEngine` | `CrashPointGenerator`, `WitcherTxCache`, `WitcherTxCrashManager` | stack of transactions, logs, crash points, pool file | one per operation of both passes |
| `TraceChecker` | `WitcherTrace`, `WitcherTCEngine` | atomic writes, TX ranges, logs, reports | one per entry and per operation |
| `TaskPool` | abstract: what a pool promises | a state per task, the wait | submit, start, finish, wait, return |
| `ThreadPool` | `WitcherParallelUtils.py` | queue, unfinished count, server and worker positions, barrier, stop flags | one per blocking or shared access of server and workers |
| `ParallelEngine` | `run` and `epilogue` of the engine on the pool | tasks sent, results present, results collected | the client's steps, interleaved with the pool's |

PMDK:

| Module | Models | State | Actions |
|---|---|---|---|
| `PMem` | stores, flush instructions, drains of libpmem | per line: current contents, what a crash may leave, what the next fence rules out | operators |
| `RedoLog` | `memops.c`, `ulog.c` | log, extension, merge entries, words | collect, merge, extend, store, process, clear, crash, recover |
| `UndoLog` | `ulog.c`, `memops.c`, `tx.c`, `lane.c` | chain of logs, generation numbers, words | snapshot, commit, abort, crash, recover, append a log of the caller |
| `TxRanges` | `pmemobj_tx_add_common`, allocation and locks of `tx.c` | tree of ranges, snapshots, actions, locks | one per loop iteration, the calls of a transaction |
| `ObjLists` | `list.c`, locks of `sync.c`, `lane.c` | rings, lanes, locks with run ids | the steps of a call between two shared accesses; crash; recovery of a lane |
| `AtomicLists` | abstract: sequences changed by atomic calls | lists, calls | start, take effect, fail, return, crash |
| `Critnib` | `critnib.c` | nodes, leaves, lists of what is to be reused | one per access that readers and writers share |
| `BTT` | one arena of `btt.c` | map, flog, data, lanes, read tracking, map locks | one per access of the media or of shared memory; failing access; crash; recovery |
| `AtomicBlocks` | abstract: atomic blocks | values, calls | start, read, write, refuse, return, crash |
| `BTTLayout` | division into arenas and first write of `btt.c` | media of the arenas, the mutex, lanes | one per written piece; failure; crash |

`MC*` modules give the constants their values for TLC. The modules with `Proofs`
or `Listing` in their name hold the inductive invariants that are only used in a
proof, and the theorems.

How state corresponds where it is not one to one:

- A cacheline's `stores_list` is only appended to in trace order and filtered,
  so it is modelled as the set of its ids, ordered by id. A line that is absent
  from `cacheline_dict` is the empty set.
- Memory is a small set of cells. The file and an image give, per cell, the id
  of the store its contents come from (0: initial), which is the finest thing
  any property could tell apart.
- The PM object of a trace operation is given in `CrashManager`.
  `BeliefDatabase` computes beliefs from a graph whose nodes have their object,
  and `PMObjectList` shows that the lookup of an access returns that object.
  The three meet in the object and in the belief record `[critical, hb]`.
- Values that a behaviour only reads (trace, TX, beliefs, PPDG file, program,
  test) are variables that are chosen in `Init` and never change.
- In `TraceFile` every record carries the execution it belongs to. The searches
  do not see it; the properties compare their answers with it.
- A checksum stands for what it was computed from: a log is valid exactly when
  its contents are the ones it was computed from.
- In PMDK models a line persists as a whole. What persists piecewise (the
  entries of a log, its header, a flog entry) has several lines or a torn form.
- `ObjLists` starts from what `RedoLog` shows: a log takes effect when it is
  durable, completely or not at all. A thread works on its own objects only,
  as the documentation of the library asks of a caller.
- A compare-and-exchange that fails is instrumented like one that succeeds:
  `Tracing` records it as a store of what the memory held.
- `lost` of `BTT` is a history variable: the map entry of a write could not be
  written although its flog entry was, and later, a crash followed. Until the
  crash the arena is in error and refuses writes, and the properties hold; after
  it the recovery completes the write that was reported as failed, and nothing is
  promised.
- `FullEngine` divides as the code does, through a float: `Quotient` is exact
  below the constant `FloatExact` (2^53) and any number `Rounded` gives above.
- The OID that the list functions fill in is a local of `pmemobj_list_insert_new`
  or the parameter of `pmemobj_list_remove`, never a word of the pool: it takes
  no entry of the redo log in `ObjLists`.
- The tested program of `CrashValidator` is a map of one key that recovers to
  any state, breaks off anywhere or never ends.

## 3. Runs

Several runs put components side by side. A behaviour of such a run is about one
situation of one component, which the variable `part` names; the variables of
the other components keep their first value.

| Run | Shows | Bounds |
|---|---|---|
| `crash_manager` | each violating pair is listed once; no candidate with both stores fenced is examined; the plans tested are exactly the reference's; images obey `PersistentMemory`; the inductive invariant; the manager ends | TXs of four to six operations and one that is too long, three sets of beliefs, operations before the TX and stores left between TXs; some TXs exceed a give-up limit; a candidate survives a fence, is brought back and is tested again |
| `parallel_engine` | each task runs once; the wait returns after all of them; the epilogue misses no result; sleepers are woken; shutdown ends | three workers and three tasks: a worker can wait in the barrier while one polls and one executes, and can take two tasks while others take none |
| `beliefs` | the list is the overlap classes of what was inserted, for every order; lookups are exact; the beliefs are those of a definition from the file's lines; all loops end | up to four objects in six addresses: one range can swallow three objects, and the binary searches take more than one step; all files of three lines over a store and three loads, one of which may have size 0: cycles, double edges, chains through empty loads |
| `engines` | on a trace that is only replayed, lines hold exactly the unfenced stores, the file is what the fenced ones wrote, and the cache implements `PersistentMemory`; counting and testing replay of the exhaustive engine agree and a plan is tested as asked; crash points of the TX engine are the reference's and all tested; images are possible ones; the trace checker reports exactly what it should; a verdict is exactly "no allowed effect explains the output" | every trace of four operations over two lines with overlapping stores: partial flushes, two write-backs of one line and crossing overlaps all occur; TXs of five operations, alone or behind another TX, four plans, budgets of three; transactions that follow each other or nest, with logs and stores in all orders; tests of three or four operations with two images; traces across words and lines |
| `tracing` | records are complete and in order at exit and at a signal; the PM trace is what the program did, values included where the value file is mapped at a multiple of the window or lies within one; searches find the right execution; the PPDG has exactly the dependences of the device's accesses | two threads with two or three instructions each, or one with four; windows of three records and three bytes, so that both are crossed; the value file mapped at 0 and at 1; recursion up to 36 records; conditionals and loops with all uses of operands |
| `libpmemobj` | redo and undo operations take effect whole or not at all, through crashes in recovery; logs are given back; ranges are saved once, restored on abort, flushed on commit; lists stay rings, implement `AtomicLists` and do not get stuck; a lookup without a lock answers what was true during it | see the comments of `MCLibpmemobj`: two or three words, logs that just fit and that need extensions, up to three crashes; five units; four objects, two threads, one crash or one failure; keys of two slices, up to three removes during a lookup |
| `block_device` | every block has one owner; no reader is disturbed; the table implements `AtomicBlocks`; calls return unless they meet the slot of a read that has given up; a namespace is laid out once and completely | two lanes, two blocks, up to five calls, one crash, one failing access or both; one to three arenas of six sizes with four sizes of blocks |
| `lost_wakeup` (violation) | the wait may never return | two workers, one task |
| `find_le_current` (violation) | `critnib_find_le` may answer a key that never was the greatest | two inserts during a lookup |
| `redo_fenced` (violation) | with `clwb` a redo operation may take effect in part | two words, one crash |
| `user_buffers` (violation) | recovery frees a log that the caller appended | one appended log, one crash |
| `waits_for_readers` (violation) | a write waits for a block that nobody reads | two lanes, five calls on one block |

Deadlock checking is off where the modelled program ends (a manager that is
done, a pool that has exited, an analysis that has finished) or where a bound on
calls, operations or crashes is used up. What must not get stuck has a property
of its own (`ListsNotStuck`, `CallsReturn`, `QuitEnds`, `Termination`,
`LoopsEnd`).

**Fairness.** `CrashManager` and the analysis of `BeliefDatabase` are
sequential programs: weak fairness of their next step says that the process is
not suspended for ever. `PMObjectList` has it for the steps of a loop only, as
nobody has to call the list. In `ParallelEngine` each thread has weak fairness
of its own step, in `block_device` each lane has it of the steps of a call: the
operating system runs every runnable thread. Commands are assumed to end. No
strong fairness is assumed; `CallsReturn` holds although a lane may lose a lock
to another, because the calls of a run are finitely many.

**Disagreements between code and its own statements** (`findings`):

- `lost_wakeup`: the server puts the `None`s that send the workers into the
  barrier, and waits on the condition afterwards, without a predicate. If all
  workers notify first, the wait is never answered. `SleeperWoken` of
  `parallel_engine` shows the other case: a server that sleeps before the last
  worker notifies is woken.
- `find_le_current`: a lookup passes an empty slot, two keys are inserted, and
  it answers the smaller. The comments of `critnib.c` say that a read is
  consistent with a state during it. `LookupsCurrent` states what does hold:
  `critnib_get` is current, and what `find_le` answers was in the tree. A stale
  `find_successor` can also read a slot again and find it `NULL`, which it then
  dereferences (`critnib.c:580-588`); the comment at `critnib.c:93-94` says that
  a stale read "won't crash". The property is about answers and leaves this out.
- `redo_fenced`: `ulog_process` flushes without a fence, and the clearing of the
  log is fenced together with the changed words. Where a flush needs a fence
  (`clwb`, `clflushopt`) a crash may keep the cleared header and lose a word,
  while `memops.c` promises "all of them or none". `RedoAtomic` shows atomicity
  for flushes that are ordered with the stores, and for `clwb` that recovery
  applies nothing but what the interrupted operation logged.
- `user_buffers`: which logs of the chain are the caller's matters only if the
  volatile context says that there are any. After a crash it does not, and the
  recovery frees them, against the comment of `ulog.h`. `LogsAccounted` shows
  that without a crash none of them is freed, and that the library's own are.
- `waits_for_readers`: a read whose second look at the map shows a zeroed or
  marked block returns without clearing its slot of the read tracking table. A
  write that gets this block waits until the lane reads again. `CallsReturn`
  excepts exactly this wait.

**Limits of the code met while modelling.** The models keep these as they are,
and the properties say under which condition the promise holds:

- Undo log: its recovery copies without a fence before the log is invalidated;
  a crash in the middle of it is modelled for `clflush` only.
- Undo log: a log that the caller appends after the library has allocated one
  may free a log in use (`AppendLate`).
- Transactions: a snapshot that fails under the no-abort flag leaves its range
  in the tree, and a later call for the same bytes saves nothing. Objects without
  a header may be adjacent: a range that grows to the left then no longer starts
  at the object allocated in the transaction, and freeing it does not cancel the
  allocation as `tx.c:1816-1818` says. The assert at `tx.c:365` fails when the
  locks held cover all of a saved block. A `pmemobj_tx_alloc` that fails is not
  modelled.
- Lists: some calls take the lock before the lane and others after it. With
  more threads than lanes they can wait for each other; the runs have a lane
  per thread. A thread whose primary lane is not below `nlanes` never gets
  another one.
- Block table: an info block is written as a whole in the model; one that is
  torn has a wrong checksum and makes `btt_init` lay the namespace out again.
  `write_layout` zeroes the map of an arena at an offset that leaves out the
  arena's own (`btt.c:1182`), so that the maps of later arenas are not zeroed;
  a missing last copy of the info block is accepted.
- Tracing: the reader of the values finds the border of a window by address, the
  writer by offset. They agree if the file is mapped at a multiple of the window
  or lies within one. A page-aligned mapping need not be: for the others
  `PMTraceFaithful` promises everything but the values.
- Searches: the record with index 0 is never examined by a search backwards,
  indirect calls are not recorded, and an exit inside a recursive call trips an
  assert of `TraceFile`. A value whose block is not found is kept in `BuggyValues`
  and not looked for again; in the model every search is the first.
- Slicing: `findExecForcers` writes the answers for all blocks of a function to
  the cache entry of the block it was asked about (`WitcherPDG.cpp:109`), and
  `Witcher.h:97` documents another result. `PpdgExact` takes what this flag
  decides as the code gives it.
- Beliefs: the asserts on the last two objects of `find`
  (`witcherbeliefdatabase.py:56-63`) fail for a store without a node that
  straddles the border of an object; whether they are reached depends on where
  the binary search meets the object.
- Full engine: a plan that asks for more than there is leaves a unit that dies,
  draws for ever or waits; `PlansFit` excludes it by its premise, and so it does
  2^53 and more crash states. The division of `get_stores_from_target` also goes
  through a float and is exact in the model.
- TX engine: two crash points at one operation break the assert that all were
  tried; nested begins clear the lists of the outer transaction; a cell that is
  stored to inside and outside of transactions gets stale. `CrashPointsExact`
  allows these three and would not notice a change in them.
- Validator: images of the last TX have nothing left to run and pass; servers
  and oracle runs have no timeout, and an oracle that broke off is cached.

## 4. Proofs

| Theorem | Module |
|---|---|
| `BlocksAlwaysOwned`: every block of the table has one owner | `BTTProofs` |
| `DeviceIsAtomic`: `BTT` implements `AtomicBlocks` | `BTTProofs` |
| `BeliefsAlwaysExact`: the beliefs are those of the reference | `BeliefDatabaseProofs` |
| `Safety`: the cache and the file hold what they should (`CacheExact`) | `CacheReplayProofs` |
| `Refinement`: `CacheReplay` implements `PersistentMemory` | `CacheReplayProofs` |
| `Invariance`: `IInv` is an invariant of `CrashManager` | `CrashManagerProofs` |
| `Safety`: type, `CandidatesExact`, `CandidatesOrdered`, `NotBothFenced`, `PlanRealisesBelief`, `TestedExact` | `CrashManagerProofs` |
| `Refinement`: `CrashManager` implements `PersistentMemory` | `CrashManagerProofs` |
| `PlansAlwaysFit`: the budgets of a plan fit | `FullEngineProofs` |
| `PoolAlwaysConsistent`, `EpilogueAlwaysComplete` | `ParallelEngineProofs` |
| `PoolImplementsTaskPool`: the engine on the pool implements `TaskPool` | `ParallelEngineProofs` |

Those of cache and manager hold for every set of lines, cells and objects, every
trace that satisfies `IsTrace`, every target TX and belief, and every limit; those of
the pool for every number of workers and tasks; that of the engine for every
number of crash states below `FloatExact`, plan and `BUDGET`; that of the beliefs
for every finite graph; those of the block table for every number of lanes,
blocks, map locks, calls, faults and crashes. The assumptions are the `ASSUME`s
of the modules: traces are well formed, a TX range starts and ends with its border
operations, beliefs are about objects, there is a worker, a budget is not zero,
an arena has at least as many blocks as lanes. `CacheReplayProofs` states its
assumption in the theorems, because a run puts the module beside others.

Most leaves of `BTTProofs` and `BeliefDatabaseProofs` are first-order, so these
modules make Zenon the default (`USE Zenon`) and name SMT where a leaf needs
arithmetic, functions or records.

**The cache** (`WitcherCacheProofs`, lemmas per method). `CacheInv` adds to the
checked invariants that flags are ordered in a line and that only issued stores
are marked. They need each other: the file is a prefix of what was fenced only
because lines hold exactly the unfenced stores and because, in a line, an earlier
store is never behind a later one. The same ordering makes an image closed under
"earlier in the same line", which is what `PersistentMemory` demands of a crash.
The refinement maps `pending` to the flushing and `durable` to the fenced stores;
a write-back of everything is an eviction.

**The crash manager.** That the tested plans are exact cannot be shown from
`TestedExact` alone: between two fences nothing in it says where a candidate
is. `IInv` adds

- `PhaseInv`: where the replay is, and which lists are empty there;
- `ListingInv`: the pairs listed so far, for the two nested loops;
- `FlushedAsTraced`: in the TX, the flag of a store is what the trace alone
  says of it;
- `CandidatesOrdered` and `WaitingInv`: no candidate is lost while its v may
  be volatile, and none that waits has both stores fenced;
- `FenceInv`: in the middle of a fence, the plans are those of the processed
  candidates.

The early return of `verify_crash_candidates` is where these meet: by the
order, everything behind the first later candidate is later too, so the
processed candidates are all that ran before the fence.
`CrashManagerListing` proves the steps that build the list and
`CrashManagerProofs` the replay.

**The beliefs** (`BeliefDatabaseProofs`). `BeliefInv` follows the three loops: the
graph stands for the lines read so far, the beliefs for the edges analysed so
far, and of the search it says that it has met only loads that depend on its
start, and has expanded whatever has left its queue. When the queue is empty the
loads met are closed under dependence, hence all: no induction over paths is
needed.

**The block table** (`BTTProofs`). That blocks have one owner is not inductive: it
does not say which lane is where in a write, nor what the flog on the media holds.
`BTTInv` has a part per mechanism: where calls are (`CallsInv`), that a lane
under a map lock knows the entry the map has (`LocksInv`), that of a flog pair
the current one is found on the media and written next to (`FlogInv`), that
mapped blocks and free blocks differ but for an update in force (`OwnersInv`),
that the arena is in error once a map entry is lost (`ErrorInv`), that a lane that
has passed the slot of a reader does not write what it reads (`ReadersInv`) and
that what is mapped holds data (`DataInv`). The refinement maps the blocks to what
the map says, and to what the flog will make of it while recovery is not done:
a write takes effect when its map entry is written, or at the crash.

**The budgets.** `BudgetsFit` reduces the division of a plan to facts about
integer division (`Division`, `Monotone`, `Distributes`): a share is never
larger than its interval, and the rest fits behind the last one.

**The pool** (`ParallelEngineProofs`). `PoolInv` says where every task is
(in a message, queued, with one worker, or finished), that the `None`s stand
behind all tasks, and that there is one per worker. A worker that took one waits in
the barrier until all did, so none takes two; when all have arrived no task is
queued or running. That gives the epilogue, the exact count of unfinished
entries, and, action by action, the refinement of `TaskPool` (`Simulation`).

**Model-checked only.** Liveness (`Termination`, `LoopsEnd`, `SleeperWoken`,
`QuitEnds`, `CallsReturn`) needs fairness, which the prover does not handle.
What recursive searches compute (object list, `TraceFile`, `DependenceGraph`,
`TraceChecker`, the arenas of `BTTLayout`) needs induction over data. `TxEngine`,
`CrashValidator`, the replays of `FullEngine`, the models of libpmemobj and the
tracer have no proofs.

## 5. Not modelled

- libpmemobj: the allocator (`palloc.c`, `heap.c`, `bucket.c`, `recycler.c`),
  of which the models use that a reservation is published by the redo log;
  rwlocks and condition variables; the opening of pools; nested transactions.
- libpmemlog, libpmempool, librpmem, libvmem, libpmem2, the tools and the
  tests of PMDK: neither the tester nor the tested programs use them.
- Benchmarks and `third_party/`: the programs under test. They are the input
  that the tester judges; `CrashValidator` models them by what they may do.
- The PMDK trace handler, which replays what library calls wrote: file I/O over
  the formats of heap and logs.
- `Giri.cpp` (a slicer that Witcher does not run), `TraceSplit` and the
  printers, the libc string functions in the tracer.
- Printers and analyzers of results, scripts, parsing, logging, pickling,
  directories, starting and killing servers.
- The sequential and multi-threaded drivers: older forms of the parallel one.
- The splitting of messages on the socket: one `recv` is one message.
- The frequency `count` of belief edges, which nothing reads.

The map names 10 400 lines: 2 500 of the 7 900 of `replay/`, 2 900 of the 15 900
of `giri/`, 4 900 of PMDK. What is left of `replay/` are the printers, the older
drivers and the trace handler, of `giri/` the slicer that Witcher does not run, the
tools and the printing; most lines under `src/` are vendored libraries, tools and
key-value stores, which are inputs of the tester. The next step with the largest
gain is the allocator of libpmemobj: reservation, publication and the rebuilding
of its volatile state at boot.
