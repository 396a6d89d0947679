---------------------------- MODULE MCLibpmemobj ----------------------------
(***************************************************************************)
(* What the transactions and the lists of libpmemobj rest on, checked side *)
(* by side: the redo log, the undo log, the ranges, the lists with their   *)
(* locks and lanes, and the tree for lookups, each in the situations that  *)
(* matter for it.  A behaviour belongs to one situation, which the         *)
(* variable part names; the variables of the other modules keep the value  *)
(* they start with.  Parts are the situations that a run is about.         *)
(***************************************************************************)
EXTENDS Naturals, FiniteSets, TLC

CONSTANTS u1, u2, u3, w1, w2, NoEntry, NoCall, Parts

VARIABLES part,
          pc, pm, before, after, crashes,           \* of the logs
          shadow, merge, next, k, todo, nops,       \* of the redo log
          chain, curr, total, any_user_buffer, new, applied, flags, from, saved, gen0, freed, txs,
          stage, data, heap, ranges, undo, actions, first_snapshot, tx_locks, args, r,
          less_equal, nprev, adds, failures, rollback, flush, flushed,
          mem, log, stored, mutex, run_id, lane_locks, next_lane_idx, info, owner, lpc, call, result,
          wait, held, obj, opening, calls, lcrashes, lfailures,
          nib, wpc, w, rpc, rd, during, overlap, inserts, removes

logVars == <<pc, pm, after, crashes>>
redoVars == <<shadow, merge, next, k, todo, nops>>
undoVars == <<chain, curr, total, any_user_buffer, new, applied, flags, from, saved, gen0, freed>>
rangeVars == <<stage, data, heap, ranges, undo, actions, first_snapshot, tx_locks, args, r,
               less_equal, nprev, adds, failures, rollback, flush, flushed>>
listVars == <<mem, log, stored, mutex, run_id, lane_locks, next_lane_idx, info, owner, lpc, call,
              result, wait, held, obj, opening, calls, lcrashes, lfailures>>
nibVars == <<nib, wpc, w, rpc, rd, during, overlap, inserts, removes>>
txVars == <<before, txs, logVars, redoVars, undoVars, rangeVars>>
vars == <<part, txVars, listVars, nibVars>>

\* The variables of the modules that a behaviour is not about.
NoLog == pc = 0 /\ pm = 0 /\ after = 0 /\ crashes = 0
NoRedo == shadow = 0 /\ merge = 0 /\ next = 0 /\ k = 0 /\ todo = 0 /\ nops = 0
NoUndo ==
    /\ chain = 0 /\ curr = 0 /\ total = 0 /\ any_user_buffer = 0 /\ new = 0 /\ applied = 0
    /\ flags = 0 /\ from = 0 /\ saved = 0 /\ gen0 = 0 /\ freed = 0
NoRanges ==
    /\ stage = 0 /\ data = 0 /\ heap = 0 /\ ranges = 0 /\ undo = 0 /\ actions = 0 /\ first_snapshot = 0
    /\ tx_locks = 0 /\ args = 0 /\ r = 0 /\ less_equal = 0 /\ nprev = 0 /\ adds = 0 /\ failures = 0
    /\ rollback = 0 /\ flush = 0 /\ flushed = 0
NoLists ==
    /\ mem = 0 /\ log = 0 /\ stored = 0 /\ mutex = 0 /\ run_id = 0 /\ lane_locks = 0
    /\ next_lane_idx = 0 /\ info = 0 /\ owner = 0 /\ lpc = 0 /\ call = 0 /\ result = 0 /\ wait = 0
    /\ held = 0 /\ obj = 0 /\ opening = 0 /\ calls = 0 /\ lcrashes = 0 /\ lfailures = 0
NoCritnib ==
    /\ nib = 0 /\ wpc = 0 /\ w = 0 /\ rpc = 0 /\ rd = 0 /\ during = 0 /\ overlap = 0 /\ inserts = 0
    /\ removes = 0
NoTx == before = 0 /\ txs = 0 /\ NoLog /\ NoRedo /\ NoUndo /\ NoRanges
-----------------------------------------------------------------------------
\* Redo log: two words, changes of all types that interfere, a log that just
\* fits its base, that needs the extension and that fills it.
RedoChanges == {[off |-> w1, type |-> "SET", value |-> 1], [off |-> w1, type |-> "OR", value |-> 2],
                [off |-> w1, type |-> "AND", value |-> 2], [off |-> w2, type |-> "SET", value |-> 3]}

RedoTwice == INSTANCE RedoLog WITH
    Words <- {w1, w2}, Changes <- RedoChanges, BaseCapacity <- 2, NextCapacity <- 1, OP_MERGE_SEARCH <- 2,
    MaxChanges <- 3, MaxOperations <- 2, MaxCrashes <- 1, FlushKind <- "clflush"

\* ... and crashes during recovery.
RedoAgain == INSTANCE RedoLog WITH
    Words <- {w1, w2}, Changes <- RedoChanges, BaseCapacity <- 2, NextCapacity <- 1, OP_MERGE_SEARCH <- 2,
    MaxChanges <- 3, MaxOperations <- 1, MaxCrashes <- 3, FlushKind <- "clflush"

\* ... with flushes that only a fence orders.
RedoFenced == INSTANCE RedoLog WITH
    Words <- {w1, w2}, Changes <- RedoChanges, BaseCapacity <- 2, NextCapacity <- 1, OP_MERGE_SEARCH <- 2,
    MaxChanges <- 2, MaxOperations <- 1, MaxCrashes <- 1, FlushKind <- "clwb"

\* Undo log: snapshots that need further logs, and crashes during recovery.
UndoAgain == INSTANCE UndoLog WITH
    Words <- {u1, u2, u3}, Logs <- 1..3, UserBuffers <- {}, FirstSlots <- 1, AppendLate <- FALSE,
    MaxTransactions <- 2, MaxCrashes <- 2, FlushKind <- "clflush"

\* ... with flushes that only a fence orders.
UndoFenced == INSTANCE UndoLog WITH
    Words <- {u1, u2, u3}, Logs <- 1..3, UserBuffers <- {}, FirstSlots <- 2, AppendLate <- FALSE,
    MaxTransactions <- 2, MaxCrashes <- 1, FlushKind <- "clwb"

\* ... with a log of the caller, and a crash.
UndoUser == INSTANCE UndoLog WITH
    Words <- {u1, u2, u3}, Logs <- 1..3, UserBuffers <- {3}, FirstSlots <- 1, AppendLate <- FALSE,
    MaxTransactions <- 2, MaxCrashes <- 1, FlushKind <- "clwb"

\* Ranges: one object and ranges with flags that differ; two objects with a
\* lock in one of them, and snapshots that fail.
Block(o, s) == [off |-> o, size |-> s]

RangesFlushed == INSTANCE TxRanges WITH
    Units <- 0..2, Objects <- {Block(0, 3)}, Allocated <- {Block(0, 3)}, Locks <- {},
    Flags <- {{}, {"NO_FLUSH"}}, MaxTransactions <- 1, MaxAdds <- 3, MaxFailures <- 0

RangesFail == INSTANCE TxRanges WITH
    Units <- 0..4, Objects <- {Block(0, 3), Block(4, 1)}, Allocated <- {Block(0, 3)}, Locks <- {1},
    Flags <- {{}}, MaxTransactions <- 1, MaxAdds <- 3, MaxFailures <- 1

RangesUnsaved == INSTANCE TxRanges WITH
    Units <- 0..4, Objects <- {Block(0, 3), Block(4, 1)}, Allocated <- {Block(0, 3)}, Locks <- {1},
    Flags <- {{}, {"NO_SNAPSHOT"}}, MaxTransactions <- 1, MaxAdds <- 2, MaxFailures <- 1

\* ... two objects without headers, side by side.
RangesAdjacent == INSTANCE TxRanges WITH
    Units <- 0..3, Objects <- {Block(0, 2), Block(2, 2)}, Allocated <- {}, Locks <- {},
    Flags <- {{}, {"NO_FLUSH"}}, MaxTransactions <- 1, MaxAdds <- 2, MaxFailures <- 0

\* Lists: one thread with every way to divide up to four objects between two
\* lists, and a crash.
Divided == {[h \in {1, 2} |-> IF h = 1 THEN [n \in 1..i |-> n] ELSE [n \in 1..j |-> n + i]]
            : <<i, j>> \in {p \in (0..4) \X (0..4) : p[1] + p[2] <= 4}}

ListsAlone == INSTANCE ObjLists WITH
    pc <- lpc, crashes <- lcrashes, failures <- lfailures,
    Threads <- {1}, NoThread <- 0, Heads <- {1, 2}, FieldOf <- [h \in {1, 2} |-> 1],
    Elems <- 1..4, Owned <- [e \in 1..4 |-> 1], Starts <- Divided,
    nlanes <- 2, LANE_JUMP <- 2, LANE_PRIMARY_ATTEMPTS <- 1, NoLane <- 99, Befores <- {TRUE, FALSE},
    MaxCalls <- 1, MaxCrashes <- 1, MaxFailures <- 0

\* ... two threads, whose objects are on two lists of the same field.
ListsShared == INSTANCE ObjLists WITH
    pc <- lpc, crashes <- lcrashes, failures <- lfailures,
    Threads <- {1, 2}, NoThread <- 0, Heads <- {1, 2}, FieldOf <- [h \in {1, 2} |-> 1],
    Elems <- 1..3, Owned <- [e \in 1..2 |-> e], Starts <- {<<<<1>>, <<2>>>>},
    nlanes <- 2, LANE_JUMP <- 2, LANE_PRIMARY_ATTEMPTS <- 1, NoLane <- 99, Befores <- {TRUE},
    MaxCalls <- 2, MaxCrashes <- 1, MaxFailures <- 0

\* ... of two fields, with locks that cannot be initialised and no memory.
ListsFail == INSTANCE ObjLists WITH
    pc <- lpc, crashes <- lcrashes, failures <- lfailures,
    Threads <- {1, 2}, NoThread <- 0, Heads <- {1, 2}, FieldOf <- [h \in {1, 2} |-> h],
    Elems <- 1..3, Owned <- [e \in {1} |-> 1], Starts <- {<<<<1>>, <<>>>>},
    nlanes <- 2, LANE_JUMP <- 2, LANE_PRIMARY_ATTEMPTS <- 1, NoLane <- 99, Befores <- {FALSE},
    MaxCalls <- 2, MaxCrashes <- 0, MaxFailures <- 1

\* Tree: two nodes below the root; leaves and nodes are reused while a reader
\* is under way.
CritnibReuse == INSTANCE Critnib WITH
    c <- nib, SLNODES <- 3, DELETED_LIFE <- 2, MaxNodes <- 3, MaxLeaves <- 5, Starts <- {{0, 1, 3, 4}},
    Keys <- {1, 4}, Questions <- {4}, Lookups <- {"get", "find_le"}, MaxInserts <- 1, MaxRemoves <- 3

\* ... a reader that removes and inserts overtake without its starting again,
\* and memory that runs out.
CritnibOvertaken == INSTANCE Critnib WITH
    c <- nib, SLNODES <- 3, DELETED_LIFE <- 3, MaxNodes <- 2, MaxLeaves <- 5, Starts <- {{}, {3, 8}, {0, 1, 8}},
    Keys <- {1, 3, 4}, Questions <- {4}, Lookups <- {"get", "find_le"}, MaxInserts <- 2, MaxRemoves <- 1

ASSUME PartsAssumption ==
    /\ ListsAlone!ListsAssumption /\ ListsShared!ListsAssumption /\ ListsFail!ListsAssumption
    /\ CritnibReuse!CritnibAssumption /\ CritnibOvertaken!CritnibAssumption
    /\ RedoTwice!RedoAssumption /\ RedoAgain!RedoAssumption /\ RedoFenced!RedoAssumption
    /\ UndoAgain!UndoAssumption /\ UndoFenced!UndoAssumption /\ UndoUser!UndoAssumption
    /\ RangesFlushed!TxAssumption /\ RangesFail!TxAssumption /\ RangesUnsaved!TxAssumption
    /\ RangesAdjacent!TxAssumption

IsRedo == part \in {"redo twice", "redo again", "redo fenced"}
IsUndo == part \in {"undo again", "undo fenced", "undo user"}
IsRanges == part \in {"ranges fail", "ranges unsaved"}

IsCritnib == part \in {"critnib reuse", "critnib overtaken"}

Inits ==
    \/ /\ \/ /\ part \in {"redo twice", "redo again", "redo fenced"} /\ RedoTwice!Init
             /\ txs = 0 /\ NoUndo /\ NoRanges
          \/ part = "undo again" /\ UndoAgain!Init /\ NoRedo /\ NoRanges
          \/ part = "undo fenced" /\ UndoFenced!Init /\ NoRedo /\ NoRanges
          \/ part = "undo user" /\ UndoUser!Init /\ NoRedo /\ NoRanges
          \/ /\ \/ part = "ranges flushed" /\ RangesFlushed!Init
                \/ part \in {"ranges fail", "ranges unsaved"} /\ RangesFail!Init
                \/ part = "ranges adjacent" /\ RangesAdjacent!Init
             /\ NoLog /\ NoRedo /\ NoUndo
       /\ NoLists /\ NoCritnib
    \/ /\ \/ part = "lists alone" /\ ListsAlone!Init
          \/ part = "lists shared" /\ ListsShared!Init
          \/ part = "lists fail" /\ ListsFail!Init
       /\ NoTx /\ NoCritnib
    \/ /\ \/ part = "critnib reuse" /\ CritnibReuse!Init
          \/ part = "critnib overtaken" /\ CritnibOvertaken!Init
       /\ NoTx /\ NoLists

Init == part \in Parts /\ Inits

NextRedo ==
    /\ \/ part = "redo twice" /\ RedoTwice!Next
       \/ part = "redo again" /\ RedoAgain!Next
       \/ part = "redo fenced" /\ RedoFenced!Next
    /\ UNCHANGED <<part, txs, undoVars, rangeVars, listVars, nibVars>>

NextUndo ==
    /\ \/ part = "undo again" /\ UndoAgain!Next
       \/ part = "undo fenced" /\ UndoFenced!Next
       \/ part = "undo user" /\ UndoUser!Next
    /\ UNCHANGED <<part, redoVars, rangeVars, listVars, nibVars>>

NextRanges ==
    /\ \/ part = "ranges flushed" /\ RangesFlushed!Next
       \/ part = "ranges fail" /\ RangesFail!Next
       \/ part = "ranges unsaved" /\ RangesUnsaved!Next
       \/ part = "ranges adjacent" /\ RangesAdjacent!Next
    /\ UNCHANGED <<part, logVars, redoVars, undoVars, listVars, nibVars>>

NextLists ==
    /\ \/ part = "lists alone" /\ ListsAlone!Next
       \/ part = "lists shared" /\ ListsShared!Next
       \/ part = "lists fail" /\ ListsFail!Next
    /\ UNCHANGED <<part, txVars, nibVars>>

NextCritnib ==
    /\ \/ part = "critnib reuse" /\ CritnibReuse!Next
       \/ part = "critnib overtaken" /\ CritnibOvertaken!Next
    /\ UNCHANGED <<part, txVars, listVars>>

Next == NextRedo \/ NextUndo \/ NextRanges \/ NextLists \/ NextCritnib

Spec == Init /\ [][Next]_vars

Symmetry == Permutations({u1, u2, u3})
-----------------------------------------------------------------------------
\* All changes of a redo operation or none, where flushes are ordered as those
\* of clflush are: whenever no operation is under way the words are, durably, as
\* one left them, and an operation that returned has made all its changes
\* (ulog_store, ulog_process).  ulog_recover applies the entries of the
\* interrupted operation, and none that an earlier log or the former contents
\* of an extension left behind; this holds with clwb too.
RedoAtomic ==
    /\ IsRedo => RedoTwice!TypeOK /\ RedoTwice!OnlyLoggedApplied
    /\ part \in {"redo twice", "redo again"} => RedoTwice!AllOrNothing

\* What memops.c says of an operation: all of its modifications happen or none,
\* with the clwb that pmem_init_funcs picks where the processor has it.
RedoFencedAtomic == part = "redo fenced" => RedoFenced!AllOrNothing

\* A transaction that ended, by itself or by a crash and the recovery, left
\* all of its changes or none: none unless its generation number was durable.
\* For whatever a crash would leave of a running transaction, the undo log on
\* the medium holds the old value of every word that differs from it
\* (ulog_entry_buf_create before the caller stores).
UndoAtomic ==
    /\ IsUndo => UndoAgain!AllOrNothing
    /\ part = "undo again" => UndoAgain!UndoComplete
    /\ part = "undo fenced" => UndoFenced!UndoComplete
    /\ part = "undo user" => UndoUser!UndoComplete

\* The chain of undo logs in memory is the one on the medium, in every part and
\* after a crash; in a pool that no crash has hit, at most one log is kept after
\* a transaction besides the first, and none that the caller provided, and only
\* logs that the library allocated are given back to the allocator
\* (ulog_clobber_data, ulog_free_next).
LogsAccounted ==
    /\ part = "undo again" => UndoAgain!TypeOK
    /\ part = "undo fenced" => UndoFenced!TypeOK
    /\ part = "undo user" => /\ UndoUser!TypeOK /\ UndoUser!LogsGivenBack
                             /\ crashes = 0 => UndoUser!NonUserFreed

\* What ulog.h says of the logs of the caller: they are not freed at the end,
\* also when it is recovery that finishes the operation.
UserBuffersKept == part = "undo user" => UndoUser!NonUserFreed

\* The ranges of the tree never overlap or leave the pool, none starts at a
\* block that can still be allocated, and pmemobj_tx_add_common saves no byte
\* twice: the order in which the undo log is applied does not matter.
SavedOnce ==
    /\ part = "ranges flushed" => RangesFlushed!TypeOK /\ RangesFlushed!SavedOnce
    /\ IsRanges => RangesFail!TypeOK /\ RangesFail!SavedOnce
    /\ part = "ranges adjacent" => RangesAdjacent!TypeOK /\ RangesAdjacent!SavedOnce

\* After an abort everything that a successful pmemobj_tx_add_range covered
\* is as it was when the transaction began, but tx_restore_range did not touch
\* the locks the transaction holds, even where they lie inside a range that was
\* saved while they were free; it finds something to restore in every entry
\* unless such locks cover all of it.  Where objects have headers between them,
\* a commit has flushed every range that was added without NO_FLUSH and every
\* object allocated: flags that differ are merged to a flush; and it allocates
\* and frees no object both: pmemobj_tx_free cancels the allocation.  (No call
\* has the flag NO_ABORT.)
EndsComplete ==
    /\ part = "ranges flushed" => /\ RangesFlushed!RolledBack /\ RangesFlushed!CommitFlushes
                                  /\ RangesFlushed!FreeCancels
    /\ IsRanges => /\ RangesFail!RolledBack /\ RangesFail!LocksKept /\ RangesFail!RestoresSome
                   /\ RangesFail!CommitFlushes /\ RangesFail!FreeCancels
    /\ part = "ranges adjacent" => RangesAdjacent!RolledBack

\* As recovery would leave them, at every moment of concurrent calls, the lists
\* are rings in both directions, of allocated objects, none on two lists of one
\* field (list_insert, list_remove, list_move with their redo logs).  No two
\* threads have one list or one lane at a time, whatever a crash left in the
\* word of a lock; a lane is taken if and only if a call has it (get_lane,
\* _get_value).
ListsIntact ==
    /\ part = "lists alone" => ListsAlone!TypeOK /\ ListsAlone!ListsIntact /\ ListsAlone!Exclusive
    /\ part = "lists shared" => ListsShared!TypeOK /\ ListsShared!ListsIntact /\ ListsShared!Exclusive
    /\ part = "lists fail" => ListsFail!TypeOK /\ ListsFail!ListsIntact /\ ListsFail!Exclusive

\* Some thread that is in a call can always go on: list_mutexes_lock takes the
\* locks of two lists in the order of their addresses, a lock that a crash left
\* taken, or that failed to be initialised, is initialised anew, and there is a
\* lane for every thread.
ListsNotStuck ==
    /\ part = "lists alone" => ListsAlone!NoDeadlock
    /\ part = "lists shared" => ListsShared!NoDeadlock
    /\ part = "lists fail" => ListsFail!NoDeadlock

\* The lists that recovery would leave behave like sequences which calls change
\* at one instant, all of a call or nothing: two lists of a move, the
\* allocation and the insert of pmemobj_list_insert_new.  Crashes change none.
ImplementsAtomicLists ==
    [][/\ part = "lists alone" => ListsAlone!AL!Next \/ UNCHANGED ListsAlone!AL!vars
       /\ part = "lists shared" => ListsShared!AL!Next \/ UNCHANGED ListsShared!AL!vars
       /\ part = "lists fail" => ListsFail!AL!Next \/ UNCHANGED ListsFail!AL!vars]_vars

\* What critnib_get returns without a lock was current at some time during the
\* call, though nodes and leaves are reused; critnib_find_le returns the value
\* of a key that was there and is not greater than the one asked for, and misses
\* no key that was there all the time unless a remove was under way.  Nothing is
\* reused while it is in the tree.  It says nothing of a
\* find_le that returns nothing because find_successor read a slot twice and
\* took the NULL of a concurrent remove for a node.
LookupsCurrent ==
    /\ part = "critnib reuse" => CritnibReuse!TreeOK
    /\ part = "critnib overtaken" => CritnibOvertaken!TreeOK
    /\ IsCritnib => CritnibReuse!GetCurrent /\ CritnibReuse!FindLeSound
=============================================================================
