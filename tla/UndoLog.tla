------------------------------ MODULE UndoLog ------------------------------
(***************************************************************************)
(* The undo log of a lane of libpmemobj (pmdk-1.8/src/libpmemobj ulog.c,   *)
(* memops.c, tx.c, lane.c) on persistent memory: snapshots, commit by a    *)
(* new generation number, abort, recovery, and the chain of logs behind    *)
(* the first, which the library allocates or the caller provides.          *)
(*                                                                         *)
(* Lines: every word, the header of every log, and for every entry the     *)
(* line with its metadata and the one with its data.  A checksum is        *)
(* modelled by what it was computed from.                                  *)
(***************************************************************************)
EXTENDS Integers, Sequences, SequencesExt, PMem

CONSTANTS Words,
          Logs,          \* 1 is the log in the lane
          UserBuffers,   \* the logs the caller provides
          FirstSlots,    \* entries in the log of the lane; one in every other
          NoEntry,
          AppendLate,    \* buffers are appended after snapshots were taken too
          MaxTransactions, MaxCrashes

\* What is assumed of the constants.
UndoAssumption ==
    /\ FlushKindAssumption
    /\ Logs \subseteq Nat \ {0} /\ 1 \in Logs /\ UserBuffers \subseteq Logs \ {1}
    /\ FirstSlots \in Nat \ {0} /\ AppendLate \in BOOLEAN
    /\ {MaxTransactions, MaxCrashes} \subseteq Nat

Slots(j) == IF j = 1 THEN 1..FirstSlots ELSE {1}
word(w) == <<"word", w, 0>>
hdr(j) == <<"hdr", j, 0>>
head(j, i) == <<"head", j, i>>
body(j, i) == <<"body", j, i>>

VARIABLES pm, pc,
          chain,            \* ctx->next
          curr,             \* the slot of the last entry: <<position in the chain, slot>>
          total,            \* ctx->total_logged, in entries
          any_user_buffer,
          new,              \* the word being saved
          applied,          \* the entries copied back so far
          flags,            \* of operation_finish
          from,             \* the position of the log ulog_free_next frees behind
          saved,            \* the words in the log
          before, after,    \* the words as the transaction found and as it leaves them
          gen0,             \* the generation it began with
          freed,            \* the logs that were given back to the allocator
          txs, crashes

ctx == <<chain, curr, total, any_user_buffer>>
tx == <<saved, before, after, gen0>>
vars == <<pm, pc, ctx, new, applied, flags, from, tx, freed, txs, crashes>>

Data(f) == [w \in Words |-> f[word(w)]]
Header(j) == pm.cur[hdr(j)]
Gen == Header(1).gen
All == <<1>> \o chain
LogAt(p) == All[p]
None == <<0, 0>>

Init ==
    /\ pm = NewMemory([l \in {word(w) : w \in Words} |-> 0] @@
                      [l \in {hdr(j) : j \in Logs} |-> [gen |-> 0, next |-> 0]] @@
                      [l \in UNION {{head(j, i) : i \in Slots(j)} : j \in Logs} |-> NoEntry] @@
                      [l \in UNION {{body(j, i) : i \in Slots(j)} : j \in Logs} |-> 0])
    /\ pc = "idle" /\ chain = <<>> /\ curr = None /\ total = 0 /\ any_user_buffer = FALSE
    /\ new = {} /\ applied = 0 /\ flags = {} /\ from = 1 /\ saved = {} /\ before = Data(pm.cur) /\ after = before /\ gen0 = 0
    /\ freed = {} /\ txs = 0 /\ crashes = 0

\* pmemobj_tx_begin with operation_start.
Begin ==
    /\ pc = "idle" /\ txs < MaxTransactions
    /\ txs' = txs + 1 /\ pc' = "work"
    /\ curr' = None /\ total' = 0 /\ any_user_buffer' = FALSE
    /\ saved' = {} /\ before' = Data(pm.cur) /\ after' = before' /\ gen0' = Gen
    /\ freed' = {}
    /\ UNCHANGED <<pm, chain, new, applied, flags, from, crashes>>

SetNext(m, j, n) == Store(m, hdr(j), [m.cur[hdr(j)] EXCEPT !.next = n])

\* Mutant: a log that is freed stays linked.
LinkKept(m, j, n) == IF n = 0 THEN m ELSE pmem_persist(SetNext(m, j, n), {hdr(j)})

Link(m, j, n) == pmem_persist(SetNext(m, j, n), {hdr(j)})

\* ulog_construct: the header, and the first entry zeroed.
Construct(m, j) ==
    LET zeroed == EndCopy(CopyNoDrain(m, [l \in {head(j, 1)} |-> NoEntry]))
    IN  Flush(Store(zeroed, hdr(j), [gen |-> Gen, next |-> 0]), {hdr(j)})

\* operation_reserve: pmalloc_construct makes the log and links it at once.
Reserve(j) ==
    /\ chain' = Append(chain, j)
    /\ pm' = Link(Drain(Construct(pm, j)), Last(All), j)

NextSlot ==
    IF curr = None THEN <<1, 1>>
    ELSE IF curr[2] + 1 \in Slots(LogAt(curr[1])) THEN <<curr[1], curr[2] + 1>>
    ELSE <<curr[1] + 1, 1>>

\* operation_add_buffer: a slot for the snapshot, in a new log if need be.
AddBuffer(w) ==
    /\ pc = "work" /\ w \notin saved
    /\ IF NextSlot[1] <= Len(All)
       THEN UNCHANGED <<chain, pm>>
       ELSE \E j \in Logs \ (UserBuffers \cup Range(All)) :
               /\ \A k \in Logs \ (UserBuffers \cup Range(All)) : j <= k
               /\ Reserve(j)
    /\ curr' = NextSlot /\ new' = {w} /\ pc' = "clobber"
    /\ UNCHANGED <<total, any_user_buffer, applied, flags, from, tx, freed, txs, crashes>>

\* The entry behind the new one: in the log, or the first of the next log.
Behind ==
    LET j == LogAt(curr[1])
    IN  IF curr[2] + 1 \in Slots(j) THEN {head(j, curr[2] + 1)}
        ELSE IF curr[1] < Len(All) THEN {head(LogAt(curr[1] + 1), 1)} ELSE {}

\* ulog_clobber_entry: its header is zeroed first.
ClobberNext ==
    /\ pc = "clobber" /\ pc' = "create"
    /\ pm' = Drain(EndCopy(CopyNoDrain(pm, [l \in Behind |-> NoEntry])))
    /\ UNCHANGED <<ctx, new, applied, flags, from, tx, freed, txs, crashes>>

\* Mutant: the generation is not part of the checksum.
ValidAnyGen(j, i, f, g) ==
    LET e == f[head(j, i)] IN e # NoEntry /\ e.data = f[body(j, i)]

\* Mutant: the data is not part of the checksum.
ValidAnyData(j, i, f, g) ==
    LET e == f[head(j, i)] IN e # NoEntry /\ e.gen = g

\* ulog_entry_valid, against the generation of the first log.
Valid(j, i, f, g) ==
    LET e == f[head(j, i)] IN e # NoEntry /\ e.gen = g /\ e.data = f[body(j, i)]

\* ulog_entry_buf_create: the two lines of the entry, in any order.
CreateEntry ==
    /\ pc = "create" /\ pc' = "logged"
    /\ \E w \in new :
          LET j == LogAt(curr[1])  v == pm.cur[word(w)]
              copied == CopyNoDrain(pm, [l \in {body(j, curr[2])} |-> v])
          IN  pm' = CopyNoDrain(copied, [l \in {head(j, curr[2])} |-> [word |-> w, gen |-> Gen, data |-> v]])
    /\ UNCHANGED <<ctx, new, applied, flags, from, tx, freed, txs, crashes>>

\* Mutant: the caller goes on before the entry is durable.
EntryUnfenced(m) == m

EntryDurable(m) == Drain(EndCopy(m))

Logged ==
    /\ pc = "logged" /\ pc' = "work"
    /\ pm' = EntryDurable(pm)
    /\ saved' = saved \cup new /\ new' = {} /\ total' = total + 1
    /\ UNCHANGED <<chain, curr, any_user_buffer, applied, flags, from, before, after, gen0, freed, txs, crashes>>

Modify(w) ==
    /\ pc = "work" /\ w \in saved /\ after[w] = before[w]
    /\ pm' = Store(pm, word(w), 1 - before[w])
    /\ after' = [after EXCEPT ![w] = 1 - before[w]]
    /\ UNCHANGED <<pc, ctx, new, applied, flags, from, saved, before, gen0, freed, txs, crashes>>
-----------------------------------------------------------------------------
\* tx_construct_user_buffer: in the outermost transaction the first buffer
\* replaces the logs of the library; a buffer of the caller that a recovery
\* left among them is unlinked and not freed.  (Left out: an inner transaction
\* that appends a buffer which is still linked.)
AppendBuffer(j, outer_tx) ==
    /\ pc = "work" /\ j \in UserBuffers
    /\ AppendLate \/ total <= FirstSlots
    /\ LET drop == outer_tx /\ ~any_user_buffer
           m0   == IF drop THEN Link(pm, 1, 0) ELSE pm
           c0   == IF drop THEN <<>> ELSE chain
           last == Last(<<1>> \o c0)
       IN  /\ j \notin Range(c0)
           /\ pm' = Link(Construct(m0, j), last, j)
           /\ chain' = Append(c0, j)
           /\ freed' = IF drop THEN freed \cup (Range(chain) \ UserBuffers) ELSE freed
    /\ any_user_buffer' = TRUE
    /\ UNCHANGED <<pc, curr, total, new, applied, flags, from, tx, txs, crashes>>
-----------------------------------------------------------------------------
\* Mutant: what was changed is not flushed before the log is dropped.
PreCommitNone == UNCHANGED pm

\* tx_pre_commit and the drain that follows it.
PreCommit == pm' = Drain(Flush(pm, {word(w) : w \in saved}))

pmemobj_tx_commit ==
    /\ pc = "work" /\ PreCommit
    /\ pc' = IF saved = {} THEN "finish" ELSE "publish"
    /\ flags' = {}
    /\ UNCHANGED <<ctx, new, applied, from, tx, freed, txs, crashes>>

IncGen(m, j) == Store(m, hdr(j), [m.cur[hdr(j)] EXCEPT !.gen = @ + 1])

\* palloc_publish of the one action that the first snapshot set up.
Publish ==
    /\ pc = "publish" /\ pc' = "published"
    /\ pm' = IncGen(pm, 1)
    /\ UNCHANGED <<ctx, new, applied, flags, from, tx, freed, txs, crashes>>

Published ==
    /\ pc = "published" /\ pc' = "finish"
    /\ pm' = pmem_persist(pm, {hdr(1)})
    /\ UNCHANGED <<ctx, new, applied, flags, from, tx, freed, txs, crashes>>

\* ulog_foreach_entry: the entries up to the first that is not valid.
EntriesIn(f, logs) ==
    LET slots == FlattenSeq([p \in DOMAIN logs |-> [i \in Slots(logs[p]) |-> <<logs[p], i>>]])
        ok(s) == Valid(s[1], s[2], f, f[hdr(1)].gen)
        upto  == {k \in 0..Len(slots) : \A x \in 1..k : ok(slots[x])}
    IN  [k \in 1..Max(upto) |-> [word |-> f[head(slots[k][1], slots[k][2])].word,
                                  data |-> f[body(slots[k][1], slots[k][2])]]]

pmemobj_tx_abort ==
    /\ pc = "work" /\ pc' = "abort"
    /\ after' = before /\ flags' = {"INC_FIRST_GEN_NUM"}
    /\ UNCHANGED <<pm, ctx, new, applied, from, saved, before, gen0, freed, txs, crashes>>

\* The entries, from the first to the last, then operation_finish.  An abort
\* persists every range; a recovery leaves the drain to what follows.
ApplyEntry(persisted) ==
    LET log == EntriesIn(pm.cur, All)
    IN  IF applied = Len(log)
        THEN pc' = "finish" /\ applied' = 0 /\ UNCHANGED pm
        ELSE LET e == log[applied + 1]
                 m == Flush(Store(pm, word(e.word), e.data), {word(e.word)})
             IN  /\ applied' = applied + 1 /\ UNCHANGED pc
                 /\ pm' = IF persisted THEN Drain(m) ELSE m

\* tx_abort_set with tx_restore_range.
Restore ==
    /\ pc = "abort" /\ ApplyEntry(TRUE)
    /\ UNCHANGED <<ctx, new, flags, from, tx, freed, txs, crashes>>

\* operation_finish: ulog_clobber_data, if anything was logged or appended.
operation_finish ==
    /\ pc = "finish"
    /\ IF total = 0 /\ ~any_user_buffer THEN pc' = "idle" /\ UNCHANGED pm
       ELSE /\ pc' = "clobbered"
            /\ pm' = IF "INC_FIRST_GEN_NUM" \in flags THEN IncGen(pm, 1) ELSE pm
    /\ UNCHANGED <<ctx, new, applied, flags, from, tx, freed, txs, crashes>>

\* Mutant: a buffer of the caller is kept like a log of the library.
FreeFromSecond == IF "FREE_AFTER_FIRST" \in flags THEN 1 ELSE 2

\* The log that ulog_clobber_data has ulog_free_next start from.
FreeFrom ==
    IF "FREE_AFTER_FIRST" \in flags \/ (any_user_buffer /\ chain # <<>> /\ chain[1] \in UserBuffers)
    THEN 1 ELSE 2

\* The generation of the second log follows, if the log is kept.
SecondGen ==
    /\ pc = "clobbered" /\ pc' = "free" /\ from' = FreeFrom
    /\ LET m == IF "INC_FIRST_GEN_NUM" \in flags THEN pmem_persist(pm, {hdr(1)}) ELSE pm
       IN  pm' = IF chain # <<>> /\ "FREE_AFTER_FIRST" \notin flags THEN IncGen(m, chain[1]) ELSE m
    /\ UNCHANGED <<ctx, new, applied, flags, tx, freed, txs, crashes>>

\* Mutant: buffers of the caller are freed with the rest.
UnpinnedNone == {}

\* The logs of the caller behind that log are unlinked.
Unpinned == {p \in (from + 1)..Len(All) : any_user_buffer /\ All[p] \in UserBuffers}

\* One log less: the first of the caller's, then the last of the library's.
FreeNext ==
    /\ pc = "free"
    /\ IF Unpinned # {}
       THEN LET p == Min(Unpinned)
            IN  /\ pm' = Link(pm, All[p - 1], Header(All[p]).next)
                /\ chain' = RemoveAt(chain, p - 1)
                /\ UNCHANGED <<freed, pc, from>>
       ELSE IF from < Len(All)
       THEN /\ pm' = Link(pm, All[Len(All) - 1], 0)
            /\ chain' = Front(chain) /\ freed' = freed \cup {Last(chain)}
            /\ UNCHANGED <<pc, from>>
       ELSE pc' = "idle" /\ from' = 1 /\ UNCHANGED <<pm, chain, freed>>
    /\ UNCHANGED <<curr, total, any_user_buffer, new, applied, flags, tx, txs, crashes>>
-----------------------------------------------------------------------------
\* A crash; the transaction is committed if the new generation is there.
Crash ==
    /\ crashes < MaxCrashes /\ crashes' = crashes + 1
    /\ \E f \in CrashContents(pm) :
          /\ pm' = NewMemory(f)
          /\ before' = IF f[hdr(1)].gen # gen0 THEN after ELSE before
          /\ after' = before' /\ gen0' = f[hdr(1)].gen
    /\ pc' = "boot" /\ chain' = <<>> /\ curr' = None /\ total' = 0 /\ any_user_buffer' = FALSE
    /\ new' = {} /\ applied' = 0 /\ flags' = {} /\ from' = 1 /\ saved' = {}
    /\ UNCHANGED <<freed, txs>>

\* ulog_rebuild_next_vec
RebuiltChain ==
    LET step(c, i) == LET n == Header(Last(<<1>> \o c)).next IN IF n = 0 THEN c ELSE Append(c, n)
    IN  FoldLeft(step, <<>>, SetToSeq(Logs))

\* lane_recover_and_section_boot: operation_resume counts the entries of the
\* first log only.
Recover ==
    /\ pc = "boot"
    /\ chain' = RebuiltChain
    /\ total' = Len(EntriesIn(pm.cur, <<1>>))
    /\ pc' = IF total' = 0 THEN "finish" ELSE "process"
    /\ flags' = {"INC_FIRST_GEN_NUM", "FREE_AFTER_FIRST"}
    /\ UNCHANGED <<pm, curr, any_user_buffer, new, applied, from, tx, freed, txs, crashes>>

\* operation_process
Process ==
    /\ pc = "process" /\ ApplyEntry(FALSE)
    /\ UNCHANGED <<ctx, new, flags, from, tx, freed, txs, crashes>>

Next ==
    \/ Begin \/ (\E w \in Words : AddBuffer(w) \/ Modify(w))
    \/ ClobberNext \/ CreateEntry \/ Logged
    \/ \E j \in UserBuffers, o \in BOOLEAN : AppendBuffer(j, o)
    \/ pmemobj_tx_commit \/ Publish \/ Published \/ pmemobj_tx_abort \/ Restore
    \/ operation_finish \/ SecondGen \/ FreeNext
    \/ Crash \/ Recover \/ Process

Spec == Init /\ [][Next]_vars
-----------------------------------------------------------------------------
\* Types; the chain in memory is the one on the medium.
TypeOK ==
    /\ pc \in {"idle", "work", "clobber", "create", "logged", "publish", "published",
               "finish", "clobbered", "free", "boot", "abort", "process"}
    /\ pc \notin {"boot"} => RebuiltChain = chain
    /\ total \in Nat /\ saved \subseteq Words /\ freed \subseteq Logs

\* A transaction that ended, by itself or by a crash and the recovery, left
\* all of its changes or none: none unless its generation number was durable.
AllOrNothing == pc = "idle" => Data(pm.cur) = after

\* Whatever a crash would leave of a running transaction, the log on the
\* medium holds the old value of every word that differs from it.
UndoComplete ==
    pc \in {"work", "clobber", "create"} =>
        \A f \in CrashContents(pm) :
            LET log == Range(EntriesIn(f, All))
            IN  \A w \in Words : f[word(w)] # before[w] => \E e \in log : e.word = w /\ e.data = before[w]

\* After a transaction of a pool that no crash has hit, at most one log is kept
\* besides the first, and none that the caller provided.
LogsGivenBack ==
    pc = "idle" /\ crashes = 0 => Len(chain) <= 1 /\ Range(chain) \cap UserBuffers = {}

\* Only logs that the library allocated are given back to the allocator.
NonUserFreed == freed \cap UserBuffers = {}
=============================================================================
