------------------------------ MODULE TxRanges ------------------------------
(***************************************************************************)
(* What a transaction of libpmemobj (pmdk-1.8/src/libpmemobj/tx.c) keeps   *)
(* track of: the tree of ranges that were added or allocated, the log of   *)
(* snapshots, the actions to publish on commit, and the locks it holds.    *)
(*                                                                         *)
(* The pool is a row of units (bytes) that hold 0 or 1; a unit that is a   *)
(* lock is 1 while the lock is held.  The loop of pmemobj_tx_add_common    *)
(* takes one step per iteration.                                           *)
(***************************************************************************)
EXTENDS Naturals, Sequences, FiniteSetsExt, SequencesExt

CONSTANTS Units,         \* the offsets of the pool
          Objects,       \* what can be allocated: the [off, size] of every block
          Allocated,     \* the objects that exist before the transaction
          Locks,         \* the units that are locks
          Flags,         \* the sets of flags that calls are made with
          MaxTransactions,
          MaxAdds,       \* calls of pmemobj_tx_add_range in all
          MaxFailures    \* calls that fail for lack of memory

\* What is assumed of the constants.
TxAssumption ==
    /\ Units \subseteq Nat
    /\ Objects \subseteq [off : Units, size : Nat \ {0}]
    /\ Allocated \subseteq Objects /\ Locks \subseteq Units
    /\ Flags \subseteq SUBSET {"NO_FLUSH", "NO_SNAPSHOT", "NO_ABORT"}
    /\ {MaxTransactions, MaxAdds, MaxFailures} \subseteq Nat

VARIABLES stage, data,
          heap,            \* per object: allocated, free or reserved
          ranges,          \* tx->ranges: [off, size, flags]
          undo,            \* the snapshots: [off, size, saved]
          actions, first_snapshot, tx_locks,
          args, r, less_equal, nprev,   \* of pmemobj_tx_add_common
          txs, adds, failures,
          before,          \* the data when the transaction began
          rollback,        \* the units a caller was promised to have rolled back
          flush,           \* the units it was promised to have flushed on commit
          flushed          \* the units that commit did flush

addVars == <<args, r, less_equal, nprev>>
counters == <<txs, adds, failures>>
promises == <<before, rollback, flush, flushed>>
vars == <<stage, data, heap, ranges, undo, actions, first_snapshot, tx_locks, addVars,
          counters, promises>>

End(x) == x.off + x.size
UnitsOf(x) == {u \in Units : x.off <= u /\ u < End(x)}
Bytes(S) == UNION {UnitsOf(x) : x \in S}
Idle == stage = "WORK" /\ args = {}
NoRange == [off |-> 0, size |-> 0]

\* Mutant: what lies before the block is counted.
Max2First(a, b) == a

Max2(a, b) == IF a > b THEN a ELSE b

Init ==
    /\ stage = "NONE" /\ data = [u \in Units |-> 0]
    /\ heap = [o \in Objects |-> IF o \in Allocated THEN "allocated" ELSE "free"]
    /\ ranges = {} /\ undo = <<>> /\ actions = <<>> /\ first_snapshot = TRUE /\ tx_locks = {}
    /\ args = {} /\ r = NoRange /\ less_equal = TRUE /\ nprev = {}
    /\ txs = 0 /\ adds = 0 /\ failures = 0
    /\ before = data /\ rollback = {} /\ flush = {} /\ flushed = {}

pmemobj_tx_begin ==
    /\ stage = "NONE" /\ stage' = "WORK"
    /\ txs < MaxTransactions /\ txs' = txs + 1
    /\ ranges' = {} /\ undo' = <<>> /\ actions' = <<>> /\ first_snapshot' = TRUE /\ tx_locks' = {}
    /\ before' = data /\ rollback' = {} /\ flush' = {} /\ flushed' = {}
    /\ UNCHANGED <<data, heap, addVars, adds, failures>>

\* The lock is taken once, whatever the number of calls.
add_to_tx_and_lock(l) ==
    /\ Idle /\ l \notin tx_locks
    /\ tx_locks' = tx_locks \cup {l}
    /\ data' = [data EXCEPT ![l] = 1]
    /\ UNCHANGED <<stage, heap, ranges, undo, actions, first_snapshot, addVars, counters, promises>>

\* The caller changes all that it may: what it added, and what it allocated.
Modify ==
    /\ Idle
    /\ LET own == (rollback \cup flush \cup Bytes({o \in Objects : heap[o] = "reserved"})) \ Locks
       IN  data' = [u \in Units |-> IF u \in own THEN 1 - before[u] ELSE data[u]]
    /\ UNCHANGED <<stage, heap, ranges, undo, actions, first_snapshot, tx_locks, addVars, counters, promises>>
-----------------------------------------------------------------------------
\* The parts of an undo entry that are restored: all but the locks held.
\* tx_remove_range splits what overlaps a lock.
Split(S, l) ==
    UNION {IF l >= End(x) \/ l + 1 < x.off THEN {x}
           ELSE {y \in {[off |-> x.off, size |-> IF l > x.off THEN l - x.off ELSE 0],
                        [off |-> l + 1, size |-> IF l + 1 < End(x) THEN End(x) - (l + 1) ELSE 0]} : y.size > 0} :
           x \in S}

\* Mutant: the part after a lock is dropped.
SplitFirst(S, l) ==
    UNION {IF l >= End(x) \/ l + 1 < x.off THEN {x}
           ELSE {y \in {[off |-> x.off, size |-> IF l > x.off THEN l - x.off ELSE 0]} : y.size > 0} : x \in S}

\* Mutant: locks are restored with the rest.
PiecesAll(e) == {[off |-> e.off, size |-> e.size]}

\* Mutant: one with the part after the lock missing.
PiecesShort(e) == FoldSet(LAMBDA l, S : SplitFirst(S, l), {[off |-> e.off, size |-> e.size]}, tx_locks)

Pieces(e) == FoldSet(LAMBDA l, S : Split(S, l), {[off |-> e.off, size |-> e.size]}, tx_locks)

tx_restore_range(d, e) == [u \in Units |-> IF u \in Bytes(Pieces(e)) THEN e.saved[u] ELSE d[u]]

\* tx_abort: the entries of the undo log from the first to the last, then the
\* actions are cancelled.
Abort ==
    /\ stage' = "ONABORT"
    /\ data' = FoldLeft(tx_restore_range, data, undo)
    /\ heap' = [o \in Objects |-> IF heap[o] = "reserved" THEN "free" ELSE heap[o]]
    /\ ranges' = {} /\ undo' = <<>>
    /\ args' = {} /\ r' = NoRange /\ less_equal' = TRUE /\ nprev' = {}

pmemobj_tx_abort ==
    /\ Idle /\ Abort
    /\ UNCHANGED <<actions, first_snapshot, tx_locks, counters, promises>>

\* pmemobj_tx_commit: every range is flushed unless told otherwise, then the
\* actions are published.
pmemobj_tx_commit ==
    /\ Idle /\ stage' = "ONCOMMIT"
    /\ flushed' = Bytes({x \in ranges : "NO_FLUSH" \notin x.flags})
    /\ heap' = FoldLeft(LAMBDA h, a : [o \in Objects |->
                            IF o.off # a.off THEN h[o]
                            ELSE IF a.type = "alloc" THEN "allocated" ELSE "free"], heap, actions)
    /\ ranges' = {} /\ undo' = <<>>
    /\ UNCHANGED <<data, actions, first_snapshot, tx_locks, addVars, counters, before, rollback, flush>>

\* Releases the locks.
pmemobj_tx_end ==
    /\ stage \in {"ONCOMMIT", "ONABORT"} /\ stage' = "NONE"
    /\ data' = [u \in Units |-> IF u \in tx_locks THEN 0 ELSE data[u]]
    /\ tx_locks' = {} /\ actions' = <<>> /\ first_snapshot' = TRUE
    /\ before' = data' /\ rollback' = {} /\ flush' = {} /\ flushed' = {}
    /\ UNCHANGED <<heap, ranges, undo, addVars, counters>>
-----------------------------------------------------------------------------
\* pmemobj_tx_xadd_range: a block inside an object.
AddCommon(o, f, from, size) ==
    /\ Idle /\ adds < MaxAdds /\ adds' = adds + 1
    /\ heap[o] # "free" /\ \A i \in DOMAIN actions : ~(actions[i].type = "free" /\ actions[i].off = o.off)
    /\ o.off <= from /\ from + size <= End(o)
    /\ args' = {[off |-> from, size |-> size, flags |-> f]}
    /\ r' = [off |-> from, size |-> size] /\ less_equal' = TRUE /\ nprev' = {}
    /\ UNCHANGED <<stage, data, heap, ranges, undo, actions, first_snapshot, tx_locks, txs, failures, promises>>

Arg == CHOOSE a \in args : TRUE

\* Mutant: the flags of the range that was there win.
MergeFlagsKept(dest, merged) == dest.flags

\* pmemobj_tx_merge_flags
MergeFlags(dest, merged) ==
    IF "NO_FLUSH" \in merged.flags THEN dest.flags ELSE dest.flags \ {"NO_FLUSH"}

\* ravl_find: the last range that starts at or before, or before, the end.
Found ==
    LET below == {x \in ranges : x.off < End(r) \/ (less_equal /\ x.off = End(r))}
    IN  {x \in below : \A y \in below : y.off <= x.off}

Return ==
    /\ args' = {} /\ r' = NoRange /\ less_equal' = TRUE /\ nprev' = {}

Promise ==
    /\ rollback' = IF "NO_SNAPSHOT" \in Arg.flags \/ \E o \in Objects : heap[o] = "reserved" /\ Arg.off \in UnitsOf(o)
                   THEN rollback
                   ELSE rollback \cup (UnitsOf(Arg) \ (flush \ rollback))
    /\ flush' = IF "NO_FLUSH" \in Arg.flags THEN flush ELSE flush \cup UnitsOf(Arg)
    /\ UNCHANGED <<before, flushed>>

\* The first snapshot has the commit advance the generation of the undo log.
GenAction ==
    /\ actions' = IF first_snapshot THEN Append(actions, [type |-> "gen_num", off |-> 0]) ELSE actions
    /\ first_snapshot' = FALSE

\* pmemobj_tx_add_snapshot of block s, when it succeeds.
Snapshot(s) ==
    IF s.size = 0 \/ "NO_SNAPSHOT" \in Arg.flags THEN UNCHANGED <<undo, actions, first_snapshot>>
    ELSE /\ GenAction
         /\ undo' = Append(undo, [off |-> s.off, size |-> s.size, saved |-> [u \in UnitsOf(s) |-> data[u]]])

\* A call fails for lack of memory with the ranges as given: the transaction is
\* aborted unless the flags forbid it.
CallFails(newRanges) ==
    /\ failures < MaxFailures /\ failures' = failures + 1
    /\ \/ "NO_ABORT" \in Arg.flags /\ ranges' = newRanges /\ Return /\ UNCHANGED <<stage, data, heap, undo>>
       \/ "NO_ABORT" \notin Arg.flags /\ Abort
    /\ UNCHANGED <<tx_locks, txs, adds, promises>>

\* pmemobj_tx_add_snapshot, when there is no memory for the action, or when the
\* undo log cannot be extended.
SnapshotFails(s, newRanges) ==
    /\ s.size > 0 /\ "NO_SNAPSHOT" \notin Arg.flags
    /\ \/ first_snapshot /\ UNCHANGED <<actions, first_snapshot>>
       \/ GenAction
    /\ CallFails(newRanges)

\* Nothing is left of the block, or the range found ends before it.  The tree
\* may lack the memory for a new range, before anything is saved.
AddNew ==
    /\ args # {} /\ r.size > 0
    /\ \A f \in Found : End(f) < r.off
    /\ LET new == IF nprev = {} THEN ranges \cup {[off |-> r.off, size |-> r.size, flags |-> Arg.flags]}
                  ELSE {IF x \in nprev THEN [x EXCEPT !.off = @ - r.size, !.size = @ + r.size] ELSE x : x \in ranges}
       IN  \/ /\ Snapshot(r) /\ ranges' = new /\ Return /\ Promise
              /\ UNCHANGED <<stage, data, heap, tx_locks, counters>>
           \/ SnapshotFails(r, new)
           \/ nprev = {} /\ CallFails(ranges) /\ UNCHANGED <<actions, first_snapshot>>

\* Mutant: the part that the found range covers is saved again.
UncoveredAll(f) == [off |-> r.off, size |-> r.size]

Uncovered(f) == [off |-> End(f), size |-> End(r) - End(f)]

\* The range found ends inside the block: it is extended to its end, and
\* merged with the range behind it.
AddExtend ==
    /\ args # {} /\ r.size > 0
    /\ \E f \in Found :
          /\ r.off <= End(f) /\ End(f) <= End(r)
          /\ LET s == Uncovered(f)
                 ext == [f EXCEPT !.size = @ + End(r) - End(f), !.flags = MergeFlags(f, Arg)]
                 joined == IF nprev = {} THEN ext
                           ELSE LET n == CHOOSE n \in nprev : TRUE
                                IN  [ext EXCEPT !.size = @ + n.size, !.flags = MergeFlags(ext, n)]
             IN  \/ /\ Snapshot(s)
                    /\ ranges' = (ranges \ ({f} \cup nprev)) \cup {joined}
                    /\ r' = [r EXCEPT !.size = @ - (End(f) - Max2(f.off, r.off)) - (End(r) - End(f))]
                    /\ nprev' = {joined} /\ less_equal' = FALSE
                    /\ UNCHANGED <<stage, data, heap, tx_locks, args, counters, promises>>
                 \/ SnapshotFails(s, (ranges \ {f}) \cup {ext})

\* The range found ends behind the block.
AddCovered ==
    /\ args # {} /\ r.size > 0
    /\ \E f \in Found :
          /\ End(f) > End(r)
          /\ LET merged == [f EXCEPT !.flags = MergeFlags(f, Arg)]
             IN  ranges' = (ranges \ {f}) \cup {merged} /\ nprev' = {merged}
          /\ r' = [r EXCEPT !.size = @ - (End(r) - Max2(f.off, r.off))]
          /\ less_equal' = FALSE
    /\ UNCHANGED <<stage, data, heap, undo, actions, first_snapshot, tx_locks, args, counters, promises>>

AddDone ==
    /\ args # {} /\ r.size = 0
    /\ Return /\ Promise
    /\ UNCHANGED <<stage, data, heap, ranges, undo, actions, first_snapshot, tx_locks, counters>>
-----------------------------------------------------------------------------
\* tx_alloc_common: a block is reserved and its range added; no snapshot.
pmemobj_tx_alloc(o, f) ==
    /\ Idle /\ heap[o] = "free"
    /\ f \subseteq {"NO_FLUSH"}
    /\ heap' = [heap EXCEPT ![o] = "reserved"]
    /\ actions' = Append(actions, [type |-> "alloc", off |-> o.off])
    /\ ranges' = ranges \cup {[off |-> o.off, size |-> o.size, flags |-> f]}
    /\ flush' = IF "NO_FLUSH" \in f THEN flush ELSE flush \cup UnitsOf(o)
    /\ UNCHANGED <<stage, data, undo, first_snapshot, tx_locks, addVars, counters, before, rollback, flushed>>

\* Mutant: the allocation is not looked for.
AllocActionsNone(o) == {}

\* The allocations of object o among the actions.
AllocActions(o) == {i \in DOMAIN actions : actions[i].type = "alloc" /\ actions[i].off = o.off}

\* VEC_ERASE_BY_PTR: the last element takes the place.
Erase(v, i) == IF i = Len(v) THEN Front(v) ELSE [Front(v) EXCEPT ![i] = Last(v)]

\* pmemobj_tx_xfree: an object of this transaction is forgotten, if its range
\* is found; any other is freed on commit.
pmemobj_tx_free(o) ==
    /\ Idle /\ heap[o] # "free"
    /\ \A i \in DOMAIN actions : ~(actions[i].type = "free" /\ actions[i].off = o.off)
    /\ LET n    == {x \in ranges : x.off = o.off}
           mine == AllocActions(o)
       IN  IF n # {} /\ mine # {}
           THEN /\ ranges' = ranges \ n
                /\ heap' = [heap EXCEPT ![o] = "free"]
                /\ actions' = Erase(actions, Min(mine))
           ELSE /\ actions' = Append(actions, [type |-> "free", off |-> o.off])
                /\ UNCHANGED <<ranges, heap>>
    /\ flush' = flush \ UnitsOf(o)
    /\ UNCHANGED <<stage, data, undo, first_snapshot, tx_locks, addVars, counters, before, rollback, flushed>>

Next ==
    \/ pmemobj_tx_begin \/ pmemobj_tx_commit \/ pmemobj_tx_abort \/ pmemobj_tx_end
    \/ \E l \in Locks : add_to_tx_and_lock(l)
    \/ Modify
    \/ \E o \in Objects, f \in Flags, from \in Units, size \in 1..4 : AddCommon(o, f, from, size)
    \/ AddNew \/ AddExtend \/ AddCovered \/ AddDone
    \/ \E o \in Objects, f \in Flags : pmemobj_tx_alloc(o, f)
    \/ \E o \in Objects : pmemobj_tx_free(o)

Spec == Init /\ [][Next]_vars
-----------------------------------------------------------------------------
\* Types; every range lies in the pool, and no size goes below 0.
TypeOK ==
    /\ stage \in {"NONE", "WORK", "ONCOMMIT", "ONABORT"} /\ data \in [Units -> {0, 1}]
    /\ heap \in [Objects -> {"allocated", "free", "reserved"}]
    /\ \A x \in ranges : x.size > 0 /\ x.off..(End(x) - 1) \subseteq Units /\ x.flags \in SUBSET {"NO_FLUSH", "NO_SNAPSHOT", "NO_ABORT"}
    /\ rollback \cup flush \cup flushed \subseteq Units /\ tx_locks \subseteq Locks
    /\ r.size \in Nat

\* The ranges of the tree never overlap, none starts where a block can still
\* be allocated (tx_lane_ranges_insert_def stops the program on such a range),
\* and no byte is saved twice in a transaction: so it does not matter in which
\* order the undo log is applied.
SavedOnce ==
    /\ Idle => \A o \in Objects, x \in ranges : heap[o] = "free" => x.off # o.off
    /\ \A x, y \in ranges : x # y => UnitsOf(x) \cap UnitsOf(y) = {}
    /\ \A i, j \in DOMAIN undo : i # j => UnitsOf(undo[i]) \cap UnitsOf(undo[j]) = {}

\* After an abort everything that a successful call of pmemobj_tx_add_range
\* covered is as it was when the transaction began.
RolledBack ==
    stage = "ONABORT" => \A u \in rollback \ tx_locks : data[u] = before[u]

\* After a commit every range that was added without NO_FLUSH, and every
\* object allocated, has been flushed: flags that differ are merged to a flush.
CommitFlushes ==
    stage = "ONCOMMIT" => flush \subseteq flushed

\* An abort does not touch the locks the transaction holds, even where they
\* lie inside a range that was saved while they were free.
LocksKept ==
    \A l \in tx_locks : data[l] = 1

\* tx_restore_range finds something to restore in every entry, as it asserts,
\* unless the locks that the transaction holds cover all of the entry.
RestoresSome ==
    \A i \in DOMAIN undo : Pieces(undo[i]) = {} => UnitsOf(undo[i]) \subseteq tx_locks

\* An object allocated in the transaction is never allocated and freed by the
\* same commit: freeing it cancels the allocation.
FreeCancels ==
    \A i, j \in DOMAIN actions :
        actions[i].type = "alloc" /\ actions[j].type = "free" => actions[i].off # actions[j].off
=============================================================================
