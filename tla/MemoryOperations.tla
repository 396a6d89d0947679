-------------------------- MODULE MemoryOperations --------------------------
(***************************************************************************)
(* The operations of a persistent-memory trace, as mem/memoryoperations.py *)
(* represents them after mem/witchertrace.py has split every store at the  *)
(* 8-byte boundaries: a store touches cells (bytes) of one cacheline, a    *)
(* flush names a cacheline, a fence and the TX marks name nothing.  An     *)
(* operation is identified by its position in the trace (its op.id); the   *)
(* value a store writes is abstracted to the id of the store.              *)
(***************************************************************************)
EXTENDS Naturals, Sequences

CONSTANTS Lines,     \* the cachelines of the mapped pool
          Cells,     \* the bytes of the pool
          LineOf,    \* get_cacheline_address: the line of a byte
          Objects,   \* the PM objects of the belief database
          NoObject   \* what PMObjectList.find returns for an unknown address

ASSUME LayoutAssumption == LineOf \in [Cells -> Lines]

\* PMDK stands for PMDKCall, PMDKTXAdd and PMDKTXAlloc, which the cache passes.
OpTypes == {"Store", "Flush", "Fence", "TXStart", "TXEnd", "PMDK"}

\* Every operation has all the fields; only a store uses cells and obj, only
\* stores and flushes use line.
Operation == [type : OpTypes, line : Lines, cells : SUBSET Cells,
              obj : Objects \cup {NoObject}]

\* A trace whose stores stay inside their cacheline (can_accept_store_op).
IsTrace(t) ==
    /\ t \in Seq(Operation)
    /\ \A i \in DOMAIN t : t[i].type = "Store" =>
          \A c \in t[i].cells : LineOf[c] = t[i].line

\* Values of Store.flushed.
Clear    == 0
Flushing == 1
Fenced   == 2

\* The greatest element of a nonempty set of op ids.
Latest(S) == CHOOSE i \in S : \A j \in S : j <= i
=============================================================================
