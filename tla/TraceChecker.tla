---------------------------- MODULE TraceChecker ----------------------------
(***************************************************************************)
(* WitcherTrace, which reads a PM trace and splits its stores into atomic  *)
(* writes (mem/witchertrace.py), and WitcherTCEngine, which looks in the   *)
(* result for stores that are not flushed or not logged and for flushes,   *)
(* fences and logs that are not needed (engines/witchertc).                *)
(*                                                                         *)
(* An entry of the trace has a type, an address and a size; a PMDKCall has *)
(* the function and the note "start" or "end".  An operation has the entry *)
(* it comes from for its src_info.  Lists start at 1.                      *)
(***************************************************************************)
EXTENDS Naturals, Sequences, FiniteSets, TLC

CONSTANTS Traces, ATOMIC_WRITE_BYTES, CACHELINE_BYTES,
          TooLong              \* a TX with more operations is left out: 90000

\* The calls of a PMDK library are matched, also when a TX is left out, and
\* nothing is logged outside a transaction.
Calls(t, k, func, note) ==
    Cardinality({i \in 1..k : t[i].type = "Call" /\ t[i].func = func /\ t[i].note = note})

CheckerAssumption ==
    /\ ATOMIC_WRITE_BYTES \in Nat \ {0} /\ CACHELINE_BYTES % ATOMIC_WRITE_BYTES = 0
    /\ \A t \in Traces : \A k \in DOMAIN t :
          LET begun == Calls(t, k, "pmemobj_tx_begin", "end") - Calls(t, k, "pmemobj_tx_end", "start")
          IN  /\ t[k].type \in {"TXAdd", "TXAlloc"} => begun > 0
              /\ t[k].type \in {"TXStart", "TXEnd"} => begun = 0

VARIABLES trace,                     \* never changed
          pc, pos, tx,
          atomic_write_ops, ranges, index, tx_start,
          stores,                    \* of the TCCache: the flag of each store in it
          in_PMDK_TX, use_PMDK_TX, pmdk_tx_stack, pmdk_call_stack, pmdk_logs,
          res                        \* CTRes

parserVars == <<atomic_write_ops, ranges, index, tx_start>>
pmdkVars == <<in_PMDK_TX, use_PMDK_TX, pmdk_tx_stack, pmdk_call_stack>>
vars == <<trace, pc, pos, tx, parserVars, stores, pmdkVars, pmdk_logs, res>>

Init ==
    /\ trace \in Traces
    /\ pc = "read" /\ pos = 1 /\ tx = 1
    /\ atomic_write_ops = <<>> /\ ranges = <<>> /\ index = 1 /\ tx_start = 0
    /\ stores = <<>>
    /\ in_PMDK_TX = FALSE /\ use_PMDK_TX = FALSE /\ pmdk_tx_stack = 0 /\ pmdk_call_stack = <<>>
    /\ pmdk_logs = {}
    /\ res = [unflushed_stores |-> {}, extra_flushes |-> {}, extra_fences |-> {},
              unlogged_stores |-> {}, extra_logs |-> {}, unTXed_stores |-> {}]
-----------------------------------------------------------------------------
Piece(a, s) == [addr |-> a, size |-> s]

\* Mutant: pieces are counted from the first byte of the store.
GetStoresFromStart(e) ==
    LET n    == e.size \div ATOMIC_WRITE_BYTES
        rest == e.size % ATOMIC_WRITE_BYTES
    IN  [k \in 1..n |-> Piece(e.addr + (k - 1) * ATOMIC_WRITE_BYTES, ATOMIC_WRITE_BYTES)]
        \o IF rest > 0 THEN <<Piece(e.addr + n * ATOMIC_WRITE_BYTES, rest)>> ELSE <<>>

\* The pieces of a store: up to the first boundary, then whole writes, then the
\* rest.
get_stores(e) ==
    LET low    == (e.addr \div ATOMIC_WRITE_BYTES) * ATOMIC_WRITE_BYTES
        high   == low + ATOMIC_WRITE_BYTES
        offset == IF e.addr > low THEN high - e.addr ELSE 0
        n      == IF offset <= e.size THEN (e.size - offset) \div ATOMIC_WRITE_BYTES ELSE 0
        last   == offset + n * ATOMIC_WRITE_BYTES
    IN  (IF e.addr > low THEN <<Piece(e.addr, IF e.size <= offset THEN e.size ELSE offset)>> ELSE <<>>)
        \o [k \in 1..n |-> Piece(e.addr + offset + (k - 1) * ATOMIC_WRITE_BYTES, ATOMIC_WRITE_BYTES)]
        \o IF e.size > last THEN <<Piece(e.addr + last, e.size - last)>> ELSE <<>>

\* The operations of one entry.
OpsOf(e) ==
    LET Op(a, s, id) == [e EXCEPT !.addr = a, !.size = s] @@ [id |-> id, src |-> pos]
        pieces == get_stores(e)
    IN  IF e.type = "Store" THEN [k \in DOMAIN pieces |-> Op(pieces[k].addr, pieces[k].size, index + k - 1)]
        ELSE <<Op(e.addr, e.size, index)>>

extract_operations ==
    /\ pc = "read" /\ pos <= Len(trace)
    /\ LET e == trace[pos]
       IN  /\ atomic_write_ops' = atomic_write_ops \o OpsOf(e)
           /\ index' = index + Len(OpsOf(e))
           /\ tx_start' = CASE e.type = "TXStart" -> index [] e.type = "TXEnd" -> 0 [] OTHER -> tx_start
           /\ ranges' = IF e.type = "TXEnd" THEN Append(ranges, [lo |-> tx_start, hi |-> index]) ELSE ranges
    /\ pos' = pos + 1
    /\ UNCHANGED <<trace, pc, tx, stores, pmdkVars, pmdk_logs, res>>

\* The first and the second walk over the TXs.
ReadEnd ==
    /\ pc = "read" /\ pos > Len(trace)
    /\ pc' = "tx" /\ tx' = 1
    /\ UNCHANGED <<trace, pos, parserVars, stores, pmdkVars, pmdk_logs, res>>

NextTx(label, run) ==
    /\ pc = label /\ tx <= Len(ranges)
    /\ IF ranges[tx].hi - ranges[tx].lo > TooLong THEN tx' = tx + 1 /\ UNCHANGED <<pc, pos>>
       ELSE pc' = run /\ pos' = ranges[tx].lo /\ UNCHANGED tx
    /\ UNCHANGED <<trace, parserVars, stores, pmdkVars, pmdk_logs, res>>

\* The slice of a TX ends before its TXEnd.
EndTx(label, run) ==
    /\ pc = run /\ pos = ranges[tx].hi
    /\ pc' = label /\ tx' = tx + 1
    /\ UNCHANGED <<trace, pos, parserVars, stores, pmdkVars, pmdk_logs, res>>

FirstEnd ==
    /\ pc = "tx" /\ tx > Len(ranges)
    /\ res' = [res EXCEPT !.unflushed_stores = @ \cup DOMAIN stores]
    /\ IF use_PMDK_TX THEN pc' = "tx2" /\ tx' = 1 ELSE pc' = "done" /\ UNCHANGED tx
    /\ UNCHANGED <<trace, pos, parserVars, stores, pmdkVars, pmdk_logs>>

SecondEnd ==
    /\ pc = "tx2" /\ tx > Len(ranges)
    /\ pc' = "done"
    /\ UNCHANGED <<trace, pos, tx, parserVars, stores, pmdkVars, pmdk_logs, res>>
-----------------------------------------------------------------------------
op == atomic_write_ops[pos]
At(label) == pc = label /\ pos < ranges[tx].hi /\ pos' = pos + 1 /\ UNCHANGED <<trace, pc, tx, parserVars>>

range_cmp(a, b) ==      \* 0, that is
    a.addr < b.addr + b.size /\ b.addr < a.addr + a.size

CheckTXStart ==
    /\ At("run") /\ op.type = "TXStart"
    /\ res' = [res EXCEPT !.unflushed_stores = @ \cup DOMAIN stores]
    /\ UNCHANGED <<stores, pmdkVars, pmdk_logs>>

\* A PMDK call, in both walks; a nested transaction is counted.
PMDKCall ==
    /\ op.type = "Call"
    /\ IF op.note = "start" THEN pmdk_call_stack' = Append(pmdk_call_stack, op.func)
       ELSE pmdk_call_stack' = SubSeq(pmdk_call_stack, 1, Len(pmdk_call_stack) - 1)
    /\ LET begins == op.func = "pmemobj_tx_begin" /\ op.note = "end"
           ends   == op.func = "pmemobj_tx_end" /\ op.note = "start"
       IN  /\ in_PMDK_TX' = (begins \/ (in_PMDK_TX /\ ~(ends /\ pmdk_tx_stack = 0)))
           /\ pmdk_tx_stack' = IF begins /\ in_PMDK_TX THEN pmdk_tx_stack + 1
                               ELSE IF ends /\ pmdk_tx_stack > 0 THEN pmdk_tx_stack - 1 ELSE pmdk_tx_stack
           /\ use_PMDK_TX' = (use_PMDK_TX \/ begins)
           /\ pmdk_logs' = IF pc = "run" /\ ends /\ pmdk_tx_stack = 0 THEN {} ELSE pmdk_logs
    /\ UNCHANGED <<stores, res>>

CheckLog ==
    /\ At("run") /\ op.type \in {"TXAdd", "TXAlloc"}
    /\ res' = IF \E l \in pmdk_logs : range_cmp(op, atomic_write_ops[l])
              THEN [res EXCEPT !.extra_logs = @ \cup {op.id}] ELSE res
    /\ pmdk_logs' = pmdk_logs \cup {op.id}
    /\ UNCHANGED <<stores, pmdkVars>>

CheckStore ==
    /\ At("run") /\ op.type = "Store"
    /\ stores' = (op.id :> 0) @@ stores
    /\ res' = IF /\ in_PMDK_TX /\ pmdk_call_stack = <<>>
                 /\ ~ \E l \in pmdk_logs : range_cmp(op, atomic_write_ops[l])
              THEN [res EXCEPT !.unlogged_stores = @ \cup {op.id}] ELSE res
    /\ UNCHANGED <<pmdkVars, pmdk_logs>>

\* The stores in the cache that a flush concerns.
is_in_flush ==
    LET line == Piece((op.addr \div CACHELINE_BYTES) * CACHELINE_BYTES, CACHELINE_BYTES)
    IN  {s \in DOMAIN stores : range_cmp(atomic_write_ops[s], line)}

CheckFlush ==
    /\ At("run") /\ op.type = "Flush"
    /\ res' = IF \A s \in is_in_flush : stores[s] = 1
              THEN [res EXCEPT !.extra_flushes = @ \cup {op.id}] ELSE res
    /\ stores' = [s \in DOMAIN stores |-> IF s \in is_in_flush THEN 1 ELSE stores[s]]
    /\ UNCHANGED <<pmdkVars, pmdk_logs>>

\* Mutant: a fence leaves nothing in the cache.
CheckFenceAll ==
    /\ At("run") /\ op.type = "Fence"
    /\ res' = IF \A s \in DOMAIN stores : stores[s] = 0
              THEN [res EXCEPT !.extra_fences = @ \cup {op.id}] ELSE res
    /\ stores' = <<>>
    /\ UNCHANGED <<pmdkVars, pmdk_logs>>

CheckFence ==
    /\ At("run") /\ op.type = "Fence"
    /\ res' = IF \A s \in DOMAIN stores : stores[s] = 0
              THEN [res EXCEPT !.extra_fences = @ \cup {op.id}] ELSE res
    /\ stores' = [s \in {d \in DOMAIN stores : stores[d] = 0} |-> 0]
    /\ UNCHANGED <<pmdkVars, pmdk_logs>>

\* The second walk: stores outside of transactions and of PMDK calls.
SecondRun ==
    /\ At("run2") /\ op.type # "Call"
    /\ res' = IF op.type = "Store" /\ ~in_PMDK_TX /\ pmdk_call_stack = <<>>
              THEN [res EXCEPT !.unTXed_stores = @ \cup {op.id}] ELSE res
    /\ UNCHANGED <<stores, pmdkVars, pmdk_logs>>

Next ==
    \/ extract_operations \/ ReadEnd
    \/ NextTx("tx", "run") \/ EndTx("tx", "run") \/ FirstEnd
    \/ CheckTXStart \/ CheckLog \/ CheckStore \/ CheckFlush \/ CheckFence
    \/ (At("run") \/ At("run2")) /\ PMDKCall
    \/ NextTx("tx2", "run2") \/ EndTx("tx2", "run2") \/ SecondRun \/ SecondEnd

Spec == Init /\ [][Next]_vars
-----------------------------------------------------------------------------
\* The reference, from the bytes and the positions of the trace alone.
Bytes(e) == e.addr..(e.addr + e.size - 1)
CachelineOf(b) == b \div CACHELINE_BYTES
Word(b) == b \div ATOMIC_WRITE_BYTES
Between(i, j, type) == {k \in (i + 1)..(j - 1) : trace[k].type = type}
Length(e) == IF e.type = "Store" THEN Cardinality({Word(b) : b \in Bytes(e)}) ELSE 1

RECURSIVE Lengths(_, _)
Lengths(i, j) == IF i > j THEN 0 ELSE Length(trace[i]) + Lengths(i + 1, j)

\* The entries that are looked at: those of TXs that are not too long.
Looked ==
    {i \in DOMAIN trace :
        \E s, e \in DOMAIN trace :
            /\ s <= i /\ i < e /\ trace[s].type = "TXStart" /\ trace[e].type = "TXEnd"
            /\ Between(s, e, "TXEnd") = {} /\ Between(s, e, "TXStart") = {}
            /\ Lengths(s, e - 1) <= TooLong}

\* The reports that are due, given the entries L that are looked at.  A byte is
\* persistent when its line was flushed and a fence came after that.
Due(L) ==
    LET Of(types) == {i \in L : trace[i].type \in types}
        Flushes(b, i, j) == {f \in Of({"Flush"}) : i < f /\ f < j /\ CachelineOf(trace[f].addr) = CachelineOf(b)}
        Fences(i, j) == {f \in Of({"Fence"}) : i < f /\ f < j}
        Persistent(i, b, k) == \E f \in Flushes(b, i, k) : Fences(f, k) # {}
        Note(func, note, k) == {i \in Of({"Call"}) : i < k /\ trace[i].func = func /\ trace[i].note = note}
        Depth(k) == Cardinality(Note("pmemobj_tx_begin", "end", k))
                    - Cardinality(Note("pmemobj_tx_end", "start", k))
        InCall(k) == Cardinality({i \in Of({"Call"}) : i < k /\ trace[i].note = "start"})
                     > Cardinality({i \in Of({"Call"}) : i < k /\ trace[i].note = "end"})
        LogsOf(k) == {l \in Of({"TXAdd", "TXAlloc"}) : l < k /\ \A j \in l..k : Depth(j) > 0}
        Logged(k) == UNION {Bytes(trace[l]) : l \in LogsOf(k)}
        StoredBytes == UNION {{<<i, b>> : b \in Bytes(trace[i])} : i \in Of({"Store"})}
        ends == Of({"TXStart"}) \cup {Len(trace) + 1}
    IN  [unflushed_stores |-> {p \in StoredBytes : \E k \in ends : k > p[1] /\ ~Persistent(p[1], p[2], k)},
         extra_flushes |->
             {f \in Of({"Flush"}) :
                 ~ \E p \in StoredBytes : /\ p[1] < f /\ CachelineOf(p[2]) = CachelineOf(trace[f].addr)
                                          /\ Flushes(p[2], p[1], f) = {}},
         extra_fences |->
             {g \in Of({"Fence"}) :
                 ~ \E p \in StoredBytes : /\ p[1] < g /\ Flushes(p[2], p[1], g) # {}
                                          /\ ~Persistent(p[1], p[2], g)},
         unlogged_stores |->
             {p \in StoredBytes : /\ Depth(p[1]) > 0 /\ ~InCall(p[1])
                                  /\ \A b \in Bytes(trace[p[1]]) \cap Logged(p[1]) : Word(b) # Word(p[2])},
         extra_logs |->
             {l \in Of({"TXAdd", "TXAlloc"}) : Bytes(trace[l]) \cap Logged(l) # {}},
         unTXed_stores |->
             {p \in StoredBytes : /\ Note("pmemobj_tx_begin", "end", Len(trace) + 1) # {}
                                  /\ Depth(p[1]) = 0 /\ ~InCall(p[1])}]

\* What is reported, as entries, and for stores as bytes of entries.
Entries(S) == {atomic_write_ops[s].src : s \in S}
ReportedBytes(S) ==
    UNION {{<<atomic_write_ops[s].src, b>> : b \in Bytes(atomic_write_ops[s])} : s \in S}

\* Every operation has its place for its id, and lies in one line; the bytes of
\* the operations are those of the entries.
Parsed ==
    /\ \A k \in DOMAIN atomic_write_ops : atomic_write_ops[k].id = k
    /\ pc # "read" =>
          \A i \in DOMAIN trace :
              trace[i].type = "Store" =>
                  LET ks == {k \in DOMAIN atomic_write_ops : atomic_write_ops[k].src = i}
                  IN  /\ UNION {Bytes(atomic_write_ops[k]) : k \in ks} = Bytes(trace[i])
                      /\ \A k \in ks : Cardinality({CachelineOf(b) : b \in Bytes(atomic_write_ops[k])}) = 1

\* The reports are those that are due.
Reported ==
    pc = "done" =>
        \A due \in {Due(L) : L \in {Looked}} :
            /\ ReportedBytes(res.unflushed_stores) = due.unflushed_stores
            /\ ReportedBytes(res.unlogged_stores) = due.unlogged_stores
            /\ ReportedBytes(res.unTXed_stores) = due.unTXed_stores
            /\ Entries(res.extra_flushes) = due.extra_flushes
            /\ Entries(res.extra_fences) = due.extra_fences
            /\ Entries(res.extra_logs) = due.extra_logs
=============================================================================
