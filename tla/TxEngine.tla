------------------------------ MODULE TxEngine ------------------------------
(***************************************************************************)
(* The engine for programs with PMDK transactions (engines/witchertx): the *)
(* CrashPointGenerator walks the operations of every TX of the test and    *)
(* lists the operations to crash at, then WitcherTxCrashManager replays    *)
(* the trace into a WitcherTxCache and tests the image at each of them.    *)
(*                                                                         *)
(* A cell of the pool file holds the store it comes from.  What the        *)
(* PMDKTraceHandler writes for the PMDK calls is left out: it concerns the *)
(* heap and the log of the pool, not the cells the program stores to.      *)
(***************************************************************************)
EXTENDS Naturals, Sequences, FiniteSets, SequencesExt

CONSTANTS Inputs,     \* [ops, ranges, critical, hb]: trace, its TXs, beliefs
          Cells,
          Objects,    \* the PM objects of the belief database
          NoObject    \* what get_pm_object returns for an unknown address

OpTypes == {"TXStart", "TXEnd", "begin", "end", "TXAdd", "TXAlloc", "Store", "Flush", "Fence"}

\* What is assumed of the constants: PMDK transactions lie in a TX, flushes and
\* fences outside them, and what is logged is logged in one.
InputsAssumption ==
    \A i \in Inputs :
        /\ i.ops \in Seq([type : OpTypes, cells : SUBSET Cells, obj : Objects \cup {NoObject}])
        /\ NoObject \notin Objects /\ i.critical \subseteq Objects /\ i.hb \subseteq Objects \X Objects
        /\ i.ranges \in Seq([lo : DOMAIN i.ops, hi : DOMAIN i.ops])
        /\ \A k \in DOMAIN i.ops :
              LET Of(type) == Cardinality({j \in 1..k : i.ops[j].type = type})
              IN  /\ Of("end") <= Of("begin")
                  /\ i.ops[k].type \in {"TXStart", "TXEnd", "Flush", "Fence"} => Of("end") = Of("begin")
                  /\ i.ops[k].type \in {"TXAdd", "TXAlloc"} => Of("end") < Of("begin")
                  /\ i.ops[k].type = "begin" => \E r \in Range(i.ranges) : k \in r.lo..r.hi

VARIABLES input,                                        \* never changed
          pc, pos, witcher_tx_index,
          pmdk_tx_stack,                                \* of the unit, then of the cache
          rangeable_list, store_without_logging_list, store_list, store_list_by_pmdk_tx,
          pre,                                          \* generate_inter_tx: the i
          crash_points,                                 \* of the unit
          crash_point_list, double_logging_list,
          stores_outside,                               \* store_list of the cache
          file, crash_point_index,
          tested                                        \* [point, file] by position in the list

txVars == <<pmdk_tx_stack, rangeable_list, store_without_logging_list, store_list, store_list_by_pmdk_tx>>
listVars == <<crash_points, crash_point_list, double_logging_list>>
replayVars == <<stores_outside, file, crash_point_index, tested>>
vars == <<input, pc, pos, witcher_tx_index, txVars, pre, listVars, replayVars>>

ops == input.ops
Unit == input.ranges[witcher_tx_index]

Init ==
    /\ input \in Inputs
    /\ pc = "intra" /\ witcher_tx_index = 1 /\ pos = input.ranges[1].lo + 1
    /\ pmdk_tx_stack = 0 /\ rangeable_list = {} /\ store_without_logging_list = {} /\ store_list = {}
    /\ store_list_by_pmdk_tx = <<>> /\ crash_points = <<>> /\ pre = 1 /\ crash_point_list = <<>> /\ double_logging_list = {}
    /\ stores_outside = {} /\ file = [c \in Cells |-> 0] /\ crash_point_index = 1 /\ tested = <<>>

Point(kind, id) == [kind |-> kind, id |-> id]
-----------------------------------------------------------------------------
\* Mutant: the ranges of the transaction before are kept.
BeginKeepsRanges ==
    /\ ops[pos].type = "begin"
    /\ pmdk_tx_stack' = pmdk_tx_stack + 1
    /\ store_without_logging_list' = {} /\ store_list' = {}
    /\ UNCHANGED <<rangeable_list, store_list_by_pmdk_tx, crash_points, double_logging_list>>

\* A nested transaction starts with empty lists too.
accept_pmdk_tx_begin ==
    /\ ops[pos].type = "begin"
    /\ pmdk_tx_stack' = pmdk_tx_stack + 1
    /\ rangeable_list' = {} /\ store_without_logging_list' = {} /\ store_list' = {}
    /\ UNCHANGED <<store_list_by_pmdk_tx, crash_points, double_logging_list>>

accept_pmdk_tx_end ==
    /\ ops[pos].type = "end"
    /\ pmdk_tx_stack' = pmdk_tx_stack - 1
    /\ crash_points' = IF store_without_logging_list = {} THEN crash_points
                       ELSE Append(crash_points, Point("NoLogging", pos))
    /\ store_list_by_pmdk_tx' = Append(store_list_by_pmdk_tx, [tx_end |-> pos, stores |-> store_list])
    /\ UNCHANGED <<rangeable_list, store_without_logging_list, store_list, double_logging_list>>

add_to_rangeable_list ==
    /\ ops[pos].type \in {"TXAdd", "TXAlloc"}
    /\ double_logging_list' = double_logging_list \cup
           (IF ops[pos].type = "TXAlloc" THEN {}
            ELSE {<<r, pos>> : r \in {q \in rangeable_list : /\ ops[q].type = "TXAdd"
                                                             /\ ops[q].cells \cap ops[pos].cells # {}}})
    /\ rangeable_list' = rangeable_list \cup {pos}
    /\ UNCHANGED <<pmdk_tx_stack, store_without_logging_list, store_list, store_list_by_pmdk_tx, crash_points>>

accept_store ==
    /\ ops[pos].type = "Store"
    /\ \/ /\ pmdk_tx_stack = 0
          /\ crash_points' = Append(crash_points, Point("NoTx", pos))
          /\ UNCHANGED <<store_without_logging_list, store_list>>
       \/ /\ pmdk_tx_stack > 0
          /\ LET protected == \E r \in rangeable_list : ops[pos].cells \subseteq ops[r].cells
             IN  store_without_logging_list' = store_without_logging_list \cup
                                               (IF protected THEN {} ELSE {pos})
          /\ store_list' = store_list \cup {pos}
          /\ UNCHANGED crash_points
    /\ UNCHANGED <<pmdk_tx_stack, rangeable_list, store_list_by_pmdk_tx, double_logging_list>>

\* generate_intra_tx: one operation of the TX.
generate_intra_tx ==
    /\ pc = "intra" /\ pos < Unit.hi
    /\ \/ accept_pmdk_tx_begin \/ accept_pmdk_tx_end \/ add_to_rangeable_list \/ accept_store
       \/ ops[pos].type \in {"Flush", "Fence"} /\ UNCHANGED <<txVars, crash_points, double_logging_list>>
    /\ pos' = pos + 1
    /\ UNCHANGED <<input, pc, witcher_tx_index, pre, crash_point_list, replayVars>>

EndIntra ==
    /\ pc = "intra" /\ pos = Unit.hi
    /\ pc' = "inter" /\ pre' = 1
    /\ UNCHANGED <<input, pos, witcher_tx_index, txVars, listVars, replayVars>>

\* Mutant: beliefs about the stores in program order.
ViolateBeliefForward(p, v) ==
    \/ ops[p].obj \in input.critical /\ ops[v].obj \in input.critical
    \/ <<ops[p].obj, ops[v].obj>> \in input.hb

\* violate_atomicity_belief, violate_ordering_belief: p persists and v does not.
ViolateBelief(p, v) ==
    \/ ops[p].obj \in input.critical /\ ops[v].obj \in input.critical
    \/ <<ops[v].obj, ops[p].obj>> \in input.hb

\* Mutant: the point goes to the end of the list.
AddCrashPointLast(list, p) == Append(list, p)

\* The sort is stable: the point goes behind those with the same id.
add_crash_point_in_order(list, p) ==
    SelectSeq(list, LAMBDA q : q.id <= p.id) \o <<p>> \o SelectSeq(list, LAMBDA q : q.id > p.id)

\* generate_inter_tx: transaction pre against those after it.
generate_inter_tx ==
    /\ pc = "inter" /\ pre < Len(store_list_by_pmdk_tx)
    /\ LET tx == store_list_by_pmdk_tx[pre]
       IN  crash_points' =
               IF \E j \in (pre + 1)..Len(store_list_by_pmdk_tx) :
                     \E p \in tx.stores, v \in store_list_by_pmdk_tx[j].stores : ViolateBelief(p, v)
               THEN add_crash_point_in_order(crash_points, Point("InterTx", tx.tx_end + 1))
               ELSE crash_points
    /\ pre' = pre + 1
    /\ UNCHANGED <<input, pc, pos, witcher_tx_index, txVars, crash_point_list, double_logging_list, replayVars>>

\* The unit is done: the next one, or the replay; without points it is over.
EndUnit ==
    /\ pc = "inter" /\ pre >= Len(store_list_by_pmdk_tx)
    /\ crash_point_list' = crash_point_list \o crash_points
    /\ pmdk_tx_stack' = 0 /\ rangeable_list' = {} /\ store_without_logging_list' = {} /\ store_list' = {}
    /\ store_list_by_pmdk_tx' = <<>> /\ crash_points' = <<>> /\ pre' = 1
    /\ IF witcher_tx_index < Len(input.ranges)
       THEN /\ witcher_tx_index' = witcher_tx_index + 1 /\ pc' = "intra"
            /\ pos' = input.ranges[witcher_tx_index + 1].lo + 1
       ELSE /\ pc' = (IF crash_point_list' = <<>> THEN "done" ELSE "replay")
            /\ pos' = 1 /\ UNCHANGED witcher_tx_index
    /\ UNCHANGED <<input, double_logging_list, replayVars>>
-----------------------------------------------------------------------------
\* BinaryFile.do_store for the stores S in order.
do_stores(S) ==
    [c \in Cells |-> LET W == {i \in S : c \in ops[i].cells}
                     IN  IF W = {} THEN file[c] ELSE CHOOSE i \in W : \A j \in W : j <= i]

\* Mutant: a store outside a transaction is written at once.
CacheWritesAtOnce ==
    /\ pmdk_tx_stack' = CASE ops[pos].type = "begin" -> pmdk_tx_stack + 1
                          [] ops[pos].type = "end" -> pmdk_tx_stack - 1
                          [] OTHER -> pmdk_tx_stack
    /\ file' = IF ops[pos].type = "Store" THEN do_stores({pos}) ELSE file
    /\ UNCHANGED stores_outside

\* WitcherTxCache.accept: a store outside a transaction waits for a fence, one
\* inside is persisted; a fence writes every store that ever waited (what is
\* cleared afterwards is another list).
accept ==
    /\ pmdk_tx_stack' = CASE ops[pos].type = "begin" -> pmdk_tx_stack + 1
                          [] ops[pos].type = "end" -> pmdk_tx_stack - 1
                          [] OTHER -> pmdk_tx_stack
    /\ stores_outside' = IF ops[pos].type = "Store" /\ pmdk_tx_stack = 0
                         THEN stores_outside \cup {pos} ELSE stores_outside
    /\ file' = CASE ops[pos].type = "Store" /\ pmdk_tx_stack > 0 -> do_stores({pos})
                 [] ops[pos].type = "Fence" -> do_stores(stores_outside)
                 [] OTHER -> file

\* One operation: first the crash, if it is the next point's, then the cache.
run ==
    /\ pc = "replay" /\ pos <= Len(ops)
    /\ LET hit  == crash_point_list[crash_point_index].id = pos
           last == hit /\ crash_point_index = Len(crash_point_list)
       IN  /\ tested' = IF hit THEN Append(tested, [point |-> crash_point_list[crash_point_index],
                                                    file |-> file]) ELSE tested
           /\ crash_point_index' = IF hit THEN crash_point_index + 1 ELSE crash_point_index
           /\ IF last THEN pc' = "done" /\ UNCHANGED <<pos, pmdk_tx_stack, stores_outside, file>>
              ELSE accept /\ pos' = pos + 1 /\ UNCHANGED pc
    /\ UNCHANGED <<input, witcher_tx_index, rangeable_list, store_without_logging_list, store_list,
                   store_list_by_pmdk_tx, pre, listVars>>

\* The trace is over and points are left: the assert at the end of run fails.
AssertFails ==
    /\ pc = "replay" /\ pos > Len(ops)
    /\ pc' = "failed"
    /\ UNCHANGED <<input, pos, witcher_tx_index, txVars, pre, listVars, replayVars>>

Next == generate_intra_tx \/ EndIntra \/ generate_inter_tx \/ EndUnit \/ run \/ AssertFails
-----------------------------------------------------------------------------
\* The reference, from the trace alone.
Before(type, k) == {j \in 1..(k - 1) : ops[j].type = type}
Depth(k) == Cardinality(Before("begin", k)) - Cardinality(Before("end", k))
Flat == \A k \in DOMAIN ops : Depth(k) <= 1

Of(types, S) == {k \in S : ops[k].type \in types}
InUnit(k) == \E r \in Range(input.ranges) : k \in r.lo..r.hi
SameUnit(k, l) == \E r \in Range(input.ranges) : {k, l} \subseteq r.lo..r.hi

\* The operations of the transaction that ends at e, without nesting.
Body(e) == {k \in 1..e : ~\E j \in k..e : ops[j].type = "begin" \/ (ops[j].type = "end" /\ j < e)}

Unlogged(s, body) ==
    ~\E r \in Of({"TXAdd", "TXAlloc"}, body) : r < s /\ ops[s].cells \subseteq ops[r].cells

\* A crash at every store outside the transactions, at the end of a transaction
\* that stores to what it has not logged, and behind one that must not persist
\* without a later one of the same TX.
PointsOf ==
    LET ends == Of({"end"}, DOMAIN ops)
        stores(e) == Of({"Store"}, Body(e))
    IN  {Point("NoTx", s) : s \in {k \in Of({"Store"}, DOMAIN ops) : Depth(k) = 0 /\ InUnit(k)}}
        \cup {Point("NoLogging", e) : e \in {f \in ends : \E s \in stores(f) : Unlogged(s, Body(f))}}
        \cup {Point("InterTx", e + 1) : e \in {f \in ends :
                 \E g \in ends : f < g /\ SameUnit(f, g) /\ \E p \in stores(f), v \in stores(g) :
                     \/ ops[p].obj \in input.critical /\ ops[v].obj \in input.critical
                     \/ <<ops[v].obj, ops[p].obj>> \in input.hb}}

\* The store a cell comes from when the program stops before operation k: stores
\* in a transaction count as durable, others when a fence follows.
LastDurable(c, k) ==
    LET D == {s \in Of({"Store"}, 1..(k - 1)) :
                c \in ops[s].cells /\ (Depth(s) > 0 \/ \E f \in s..(k - 1) : ops[f].type = "Fence")}
    IN  IF D = {} THEN 0 ELSE CHOOSE s \in D : \A t \in D : t <= s

\* All stores to the cell are in transactions, or none is.
Unmixed(c) ==
    \A s, t \in Of({"Store"}, DOMAIN ops) :
        c \in ops[s].cells \cap ops[t].cells => (Depth(s) = 0 <=> Depth(t) = 0)
-----------------------------------------------------------------------------
\* The types of the lists, of the cache and of the replay: a transaction that
\* ends had begun, the positions lie in the trace.
TypeOK ==
    /\ pc \in {"intra", "inter", "replay", "done", "failed"}
    /\ pos \in 1..(Len(ops) + 1) /\ witcher_tx_index \in DOMAIN input.ranges
    /\ pmdk_tx_stack \in Nat
    /\ rangeable_list \subseteq DOMAIN ops /\ store_without_logging_list \subseteq store_list
    /\ store_list \subseteq DOMAIN ops
    /\ crash_points \in Seq([kind : {"NoTx", "NoLogging", "InterTx"}, id : 1..(Len(ops) + 1)])
    /\ crash_point_index \in 1..(Len(crash_point_list) + 1)
    /\ stores_outside \subseteq DOMAIN ops /\ file \in [Cells -> 0..Len(ops)]

\* Without nested transactions the generator lists the crash points of the
\* reference, each once and in the order of the trace, and reports exactly the
\* ranges that one transaction logs twice.
CrashPointsExact ==
    pc = "replay" /\ Flat =>
        /\ Range(crash_point_list) = PointsOf /\ Len(crash_point_list) = Cardinality(PointsOf)
        /\ \A i, j \in DOMAIN crash_point_list : i < j => crash_point_list[i].id <= crash_point_list[j].id
        /\ double_logging_list = {<<q, r>> \in Of({"TXAdd"}, DOMAIN ops) \X Of({"TXAdd"}, DOMAIN ops) :
               /\ q < r /\ ops[q].cells \cap ops[r].cells # {}
               /\ ~\E e \in q..r : ops[e].type = "end"}

\* The replay tests all the points in their order, nested transactions or not;
\* only two points with the same id make it miss one and fail its assert.
AllTested ==
    /\ pc = "done" => [i \in DOMAIN tested |-> tested[i].point] = crash_point_list
    /\ pc = "failed" => \E i, j \in DOMAIN crash_point_list :
                            i # j /\ crash_point_list[i].id = crash_point_list[j].id

\* The image tested at a point holds what is durable there, and not the store at
\* which the point crashes.  (A cell stored to both in and outside transactions
\* may hold an older value: the stores that wait are written again.)
ImagesCurrent ==
    \A t \in Range(tested) : \A c \in Cells : Unmixed(c) => t.file[c] = LastDurable(c, t.point.id)
=============================================================================
