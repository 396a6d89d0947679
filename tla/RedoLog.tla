------------------------------ MODULE RedoLog ------------------------------
(***************************************************************************)
(* The redo logs of libpmemobj (pmdk-1.8/src/libpmemobj memops.c, ulog.c): *)
(* an operation collects changes of single words, writes them to a log in  *)
(* a lane, applies them and clears the log; after a crash the log is       *)
(* applied again if it is complete.                                        *)
(*                                                                         *)
(* Lines: every word, the header of the log, and every entry of the log    *)
(* and of its one extension.  A checksum is modelled by what it was        *)
(* computed from.  A word has two bits.                                    *)
(***************************************************************************)
EXTENDS Naturals, Sequences, PMem

CONSTANTS Words,          \* the words in the pool
          Changes,        \* the changes an operation can ask for
          BaseCapacity,   \* ulog_base_nbytes, in entries
          NextCapacity,   \* of the extension
          OP_MERGE_SEARCH,
          NoEntry,        \* an entry with offset 0
          MaxChanges,     \* per operation
          MaxOperations, MaxCrashes

\* What is assumed of the constants.
RedoAssumption ==
    /\ FlushKindAssumption
    /\ Changes \subseteq [off : Words, type : {"SET", "AND", "OR"}, value : 0..3]
    /\ {BaseCapacity, NextCapacity, OP_MERGE_SEARCH} \subseteq Nat \ {0}
    /\ {MaxChanges, MaxOperations, MaxCrashes} \subseteq Nat

header == 0
Slots == 1..(BaseCapacity + NextCapacity)
Empty == [checksum |-> <<>>, next |-> FALSE, capacity |-> 0]

AndBits(x, y) == LET bit(i) == IF (x \div i) % 2 = 1 /\ (y \div i) % 2 = 1 THEN i ELSE 0 IN bit(1) + bit(2)
OrBits(x, y)  == LET bit(i) == IF (x \div i) % 2 = 1 \/ (y \div i) % 2 = 1 THEN i ELSE 0 IN bit(1) + bit(2)

\* ulog_entry_apply, on a value.
Result(type, old, value) ==
    CASE type = "SET" -> value [] type = "AND" -> AndBits(old, value) [] type = "OR" -> OrBits(old, value)

VARIABLES pm,        \* the persistent memory
          pc,
          shadow,    \* pshadow_ops: the entries collected
          merge,     \* merge_entries: the latest of them, as positions
          next,      \* ctx->next is not empty
          k,         \* the next entry to apply
          before, after,   \* the words as the operation found and as it leaves them
          todo,      \* the entries a recovery applies
          nops, crashes

counters == <<nops, crashes>>
vars == <<pm, pc, shadow, merge, next, k, before, after, todo, counters>>

Data(f) == [w \in Words |-> f[w]]
Log(f) == [i \in Slots |-> f[i]]
-----------------------------------------------------------------------------
\* The log is empty; an extension, once allocated, holds anything.
Init ==
    /\ \E e \in Changes \cup {NoEntry} :
          pm = NewMemory([w \in Words |-> 0] @@ [h \in {header} |-> Empty] @@
                         [i \in Slots |-> IF i > BaseCapacity THEN e ELSE NoEntry])
    /\ pc = "idle" /\ shadow = <<>> /\ merge = <<>> /\ next = FALSE /\ k = 1
    /\ before = Data(pm.cur) /\ after = before /\ todo = <<>>
    /\ nops = 0 /\ crashes = 0

operation_start ==
    /\ pc = "idle" /\ nops < MaxOperations
    /\ nops' = nops + 1
    /\ pc' = "collect" /\ shadow' = <<>> /\ merge' = <<>>
    /\ before' = Data(pm.cur) /\ after' = before'
    /\ UNCHANGED <<pm, next, k, todo, crashes>>

\* Mutant: entries of another type are passed over.
MergeCandidatesAny(c) ==
    LET same == {i \in DOMAIN merge : shadow[merge[i]].off = c.off /\ shadow[merge[i]].type = c.type}
    IN  {merge[i] : i \in {j \in same : \A x \in same : x <= j}}

\* The entry that operation_try_merge_entry merges a change into: the last one
\* for the word among the ones it remembers, if it is of the same type.
MergeCandidates(c) ==
    LET same == {i \in DOMAIN merge : shadow[merge[i]].off = c.off}
    IN  {merge[i] : i \in {j \in same : shadow[merge[j]].type = c.type /\ \A x \in same : x <= j}}

\* Mutant: all entries are remembered.
LastOfAll(s) == s

LastOf(s) == IF Len(s) > OP_MERGE_SEARCH THEN Tail(s) ELSE s

operation_add_entry(c) ==
    /\ pc = "collect" /\ Len(shadow) < MaxChanges
    /\ \/ \E i \in MergeCandidates(c) :
             /\ shadow' = [shadow EXCEPT ![i].value =
                              IF c.type = "SET" THEN c.value ELSE Result(c.type, @, c.value)]
             /\ UNCHANGED merge
       \/ /\ MergeCandidates(c) = {}
          /\ shadow' = Append(shadow, c)
          /\ merge' = LastOf(Append(merge, Len(shadow) + 1))
    /\ after' = [after EXCEPT ![c.off] = Result(c.type, @, c.value)]
    /\ UNCHANGED <<pm, pc, next, k, before, todo, counters>>

Capacity == BaseCapacity + (IF next THEN NextCapacity ELSE 0)

\* operation_reserve: the extension is allocated and linked in one step, with
\* its first entry zeroed.
operation_reserve ==
    /\ pc = "collect" /\ Len(shadow) > Capacity /\ ~next
    /\ next' = TRUE
    /\ pm' = pmem_persist(Store(Store(pm, BaseCapacity + 1, NoEntry), header,
                                [pm.cur[header] EXCEPT !.next = TRUE]),
                          {header, BaseCapacity + 1})
    /\ UNCHANGED <<pc, shadow, merge, k, before, after, todo, counters>>

\* operation_cancel, when a constructor or a reservation failed.
operation_cancel ==
    /\ pc = "collect"
    /\ pc' = "idle" /\ shadow' = <<>> /\ merge' = <<>> /\ after' = before
    /\ UNCHANGED <<pm, next, k, before, todo, counters>>

\* operation_process: nothing, one word, or the log.
operation_process ==
    /\ pc = "collect" /\ Len(shadow) <= Capacity
    /\ \/ shadow = <<>> /\ pc' = "finish" /\ UNCHANGED <<pm, k>>
       \/ /\ Len(shadow) = 1
          /\ LET e == shadow[1]
             IN  pm' = pmem_persist(Store(pm, e.off, Result(e.type, pm.cur[e.off], e.value)), {e.off})
          /\ pc' = "finish" /\ UNCHANGED k
       \/ /\ Len(shadow) > 1
          /\ pc' = "store_next" /\ k' = 1 /\ UNCHANGED pm
    /\ UNCHANGED <<shadow, merge, next, before, after, todo, counters>>

\* ulog_store writes one entry more, zeroed, unless the log is full.
Stored == IF Len(shadow) = Capacity THEN Len(shadow) ELSE Len(shadow) + 1

EntryAt(i) == IF i <= Len(shadow) THEN shadow[i] ELSE NoEntry

\* ulog_store, the part over the base capacity, drained.
StoreNext ==
    /\ pc = "store_next"
    /\ LET part == {i \in Slots : i > BaseCapacity /\ i <= Stored}
       IN  pm' = IF part = {} THEN pm
                 ELSE Drain(EndCopy(CopyNoDrain(pm, [i \in part |-> EntryAt(i)])))
    /\ pc' = "store_base"
    /\ UNCHANGED <<shadow, merge, next, k, before, after, todo, counters>>

Smaller(a, b) == IF a < b THEN a ELSE b

\* ulog_store, the header with the checksum, and the base.
StoreBase ==
    /\ pc = "store_base"
    /\ LET base == Smaller(BaseCapacity, Stored)
           sum  == Smaller(BaseCapacity, Len(shadow))
           hdr  == [checksum |-> <<SubSeq(shadow, 1, sum), next, base>>, next |-> next, capacity |-> base]
       IN  pm' = CopyNoDrain(pm, [i \in 1..base |-> EntryAt(i)] @@ [h \in {header} |-> hdr])
    /\ pc' = "drain_base"
    /\ UNCHANGED <<shadow, merge, next, k, before, after, todo, counters>>

DrainBase ==
    /\ pc = "drain_base"
    /\ pm' = Drain(EndCopy(pm))
    /\ pc' = "apply"
    /\ UNCHANGED <<shadow, merge, next, k, before, after, todo, counters>>

\* Mutant: no flush.
ApplyEntryUnflushed(entries) ==
    /\ k <= Len(entries)
    /\ LET e == entries[k]
       IN  pm' = Store(pm, e.off, Result(e.type, pm.cur[e.off], e.value))
    /\ k' = k + 1

\* ulog_process: one entry is applied and flushed.
ApplyEntry(entries) ==
    /\ k <= Len(entries)
    /\ LET e == entries[k]
       IN  pm' = Flush(Store(pm, e.off, Result(e.type, pm.cur[e.off], e.value)), {e.off})
    /\ k' = k + 1

Apply ==
    /\ pc = "apply"
    /\ ApplyEntry(shadow)
    /\ UNCHANGED <<pc, shadow, merge, next, before, after, todo, counters>>

\* ulog_clobber, up to its drain.
Clobber ==
    /\ pc = "apply" /\ k > Len(shadow)
    /\ pm' = CopyNoDrain(pm, [h \in {header} |-> [Empty EXCEPT !.next = next]])
    /\ pc' = "drain_clobber"
    /\ UNCHANGED <<shadow, merge, next, k, before, after, todo, counters>>

DrainClobber ==
    /\ pc = "drain_clobber"
    /\ pm' = Drain(EndCopy(pm))
    /\ pc' = "finish" /\ k' = 1
    /\ UNCHANGED <<shadow, merge, next, before, after, todo, counters>>

\* operation_finish: the extension is freed and unlinked, in one step.
operation_finish ==
    /\ pc = "finish"
    /\ pm' = IF next /\ Len(shadow) > 1
             THEN pmem_persist(Store(pm, header, [pm.cur[header] EXCEPT !.next = FALSE]), {header})
             ELSE pm
    /\ next' = (next /\ Len(shadow) <= 1)
    /\ pc' = "idle" /\ shadow' = <<>> /\ merge' = <<>>
    /\ before' = after
    /\ UNCHANGED <<k, after, todo, counters>>
-----------------------------------------------------------------------------
\* ulog_base_nbytes: the entries up to the first empty one.
ulog_base_nbytes(f) ==
    LET n == f[header].capacity
    IN  CHOOSE i \in 0..n : /\ \A j \in 1..i : f[j] # NoEntry
                            /\ i = n \/ f[i + 1] = NoEntry

\* Mutant: the checksum is not looked at.
ChecksumTrusted(f, n) == TRUE

ulog_checksum(f, n) ==
    f[header].checksum = <<[i \in 1..n |-> f[i]], f[header].next, f[header].capacity>>

ulog_recovery_needed(f) ==
    LET n == ulog_base_nbytes(f) IN n > 0 /\ ulog_checksum(f, n)

\* Mutant: the extension is not followed.
EntriesOfBase(f) == [i \in 1..ulog_base_nbytes(f) |-> f[i]]

\* ulog_foreach_entry: the entries of the base and of the extension, up to
\* the first empty one.
EntriesOf(f) ==
    LET order == [i \in 1..f[header].capacity |-> i] \o
                 (IF f[header].next THEN [i \in 1..NextCapacity |-> BaseCapacity + i] ELSE <<>>)
        n == CHOOSE i \in 0..Len(order) : /\ \A j \in 1..i : f[order[j]] # NoEntry
                                          /\ i = Len(order) \/ f[order[i + 1]] = NoEntry
    IN  [i \in 1..n |-> f[order[i]]]

\* Power fails; the next open recovers the log first.
Crash ==
    /\ crashes < MaxCrashes /\ crashes' = crashes + 1
    /\ \E f \in CrashContents(pm) :
          /\ pm' = NewMemory(f)
          /\ next' = f[header].next
          /\ IF ulog_recovery_needed(f) THEN pc' = "recover" /\ todo' = EntriesOf(f)
             ELSE pc' = "idle" /\ todo' = <<>>
    /\ shadow' = <<>> /\ merge' = <<>> /\ k' = 1
    /\ UNCHANGED <<before, after, nops>>

\* ulog_recover: the entries, one by one, then ulog_clobber.
Recover ==
    /\ pc = "recover"
    /\ ApplyEntry(todo)
    /\ UNCHANGED <<pc, shadow, merge, next, before, after, todo, counters>>

RecoverClobber ==
    /\ pc = "recover" /\ k > Len(todo)
    /\ pm' = CopyNoDrain(pm, [h \in {header} |-> [Empty EXCEPT !.next = pm.cur[header].next]])
    /\ pc' = "recover_drain"
    /\ UNCHANGED <<shadow, merge, next, k, before, after, todo, counters>>

RecoverDrain ==
    /\ pc = "recover_drain"
    /\ pm' = Drain(EndCopy(pm))
    /\ pc' = "idle" /\ k' = 1 /\ todo' = <<>>
    /\ UNCHANGED <<shadow, merge, next, before, after, counters>>

Next ==
    \/ operation_start \/ \E c \in Changes : operation_add_entry(c)
    \/ operation_reserve \/ operation_cancel \/ operation_process \/ StoreNext \/ StoreBase
    \/ DrainBase \/ Apply \/ Clobber \/ DrainClobber \/ operation_finish
    \/ Crash \/ Recover \/ RecoverClobber \/ RecoverDrain

Spec == Init /\ [][Next]_vars
-----------------------------------------------------------------------------
\* The types of the state.
TypeOK ==
    /\ pc \in {"idle", "collect", "store_next", "store_base", "drain_base", "apply",
               "drain_clobber", "finish", "recover", "recover_drain"}
    /\ shadow \in Seq(Changes \cup [off : Words, type : {"SET", "AND", "OR"}, value : 0..3])
    /\ next \in BOOLEAN
    /\ Len(merge) <= OP_MERGE_SEARCH
    /\ Data(pm.cur) \in [Words -> 0..3]
    /\ k \in 1..(MaxChanges + 1)

\* All changes of an operation or none: whenever no operation is under way
\* the words are, durably, as one left them, and an operation that returned
\* has made all its changes.
AllOrNothing ==
    /\ pc = "idle" => /\ Data(pm.cur) \in {before, after}
                      /\ \A w \in Words : IsDurable(pm, w)
    /\ pc = "finish" => Data(pm.cur) = after

\* A recovery applies the entries of the interrupted operation: none that an
\* earlier log or the former contents of an extension left behind.
OnlyLoggedApplied ==
    pc = "recover" =>
        LET result[i \in 0..Len(todo)] ==
                IF i = 0 THEN before
                ELSE [result[i - 1] EXCEPT ![todo[i].off] = Result(todo[i].type, @, todo[i].value)]
        IN  result[Len(todo)] = after
=============================================================================
