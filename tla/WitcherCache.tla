---------------------------- MODULE WitcherCache ----------------------------
(***************************************************************************)
(* The simulated cache of replay/engines/witcher/witchercache.py, the      *)
(* flushed flag of the stores it holds and the pool file it writes back    *)
(* to.                                                                     *)
(*                                                                         *)
(* A cacheline is its stores_list.  The list is only appended to, in trace *)
(* order, and filtered, so it is the set of its op ids ordered by id; a    *)
(* line absent from cacheline_dict is the empty set.                       *)
(*                                                                         *)
(* The actions are the methods of the cache; CacheReplay and CrashManager  *)
(* drive them.                                                             *)
(***************************************************************************)
EXTENDS MemoryOperations

VARIABLES ops,             \* the trace, never changed
          pos,             \* the operation to be replayed next
          cacheline_dict,  \* the stores held, per line
          flushed,         \* Store.flushed of every operation
          file,            \* the pool file: the store each cell comes from
          image            \* the crash image built last

cacheVars == <<cacheline_dict, flushed, file>>

is_clear(i)    == flushed[i] = Clear
is_flushing(i) == flushed[i] = Flushing
is_fenced(i)   == flushed[i] = Fenced

Cached == UNION {cacheline_dict[l] : l \in Lines}

\* Mutant: the stores are applied newest first.
DoStoresReversed(f, S) ==
    [c \in Cells |->
        LET W == {i \in S : c \in ops[i].cells}
        IN  IF W = {} THEN f[c] ELSE CHOOSE i \in W : \A j \in W : i <= j]

\* BinaryFile.do_store for the stores S in list order, on file f: the last
\* store that covers a cell wins.
do_stores(f, S) ==
    [c \in Cells |->
        LET W == {i \in S : c \in ops[i].cells}
        IN  IF W = {} THEN f[c] ELSE Latest(W)]

InitCache ==
    /\ pos = 1
    /\ image = [c \in Cells |-> 0]
    /\ cacheline_dict = [l \in Lines |-> {}]
    /\ flushed = [i \in DOMAIN ops |-> Clear]
    /\ file = [c \in Cells |-> 0]

accept_store(i) ==
    /\ cacheline_dict' = [cacheline_dict EXCEPT ![ops[i].line] = @ \cup {i}]
    /\ UNCHANGED <<flushed, file>>

\* Mutant: a flush reaches only the newest store of its line.
FlushNewest(i) ==
    LET L == cacheline_dict[ops[i].line]
    IN  /\ flushed' = [j \in DOMAIN ops |->
                          IF j \in L /\ \A k \in L : k <= j THEN Flushing ELSE flushed[j]]
        /\ UNCHANGED <<cacheline_dict, file>>

accept_flush(i) ==
    /\ flushed' = [j \in DOMAIN ops |->
                      IF j \in cacheline_dict[ops[i].line]
                      THEN Flushing ELSE flushed[j]]
    /\ UNCHANGED <<cacheline_dict, file>>

\* accept for everything that is not a fence.
accept(i) ==
    \/ ops[i].type = "Store" /\ accept_store(i)
    \/ ops[i].type = "Flush" /\ accept_flush(i)
    \/ ops[i].type \in {"TXStart", "TXEnd", "PMDK"} /\ UNCHANGED cacheVars

\* Mutant: a fence also drops the stores of the line that are not flushed.
FenceDropsClear ==
    LET W == {i \in Cached : is_flushing(i)}
    IN  /\ file' = do_stores(file, W)
        /\ flushed' = [i \in DOMAIN ops |-> IF i \in W THEN Fenced ELSE flushed[i]]
        /\ cacheline_dict' = [l \in Lines |->
                 IF cacheline_dict[l] \cap W = {} THEN cacheline_dict[l] ELSE {}]

write_back_all_flushing_stores ==
    LET W == {i \in Cached : is_flushing(i)}
    IN  /\ file' = do_stores(file, W)
        /\ flushed' = [i \in DOMAIN ops |-> IF i \in W THEN Fenced ELSE flushed[i]]
        /\ cacheline_dict' = [l \in Lines |-> {i \in cacheline_dict[l] : is_clear(i)}]

\* Mutant: the lines are deleted and not created again on access.
WriteBackAllDropsLines ==
    /\ file' = do_stores(file, Cached)
    /\ flushed' = [i \in DOMAIN ops |-> IF i \in Cached THEN Fenced ELSE flushed[i]]
    /\ cacheline_dict' = [l \in {k \in Lines : cacheline_dict[k] = {}} |-> {}]

write_back_all_stores ==
    /\ file' = do_stores(file, Cached)
    /\ flushed' = [i \in DOMAIN ops |-> IF i \in Cached THEN Fenced ELSE flushed[i]]
    /\ cacheline_dict' = [l \in Lines |-> {}]

\* Mutant: the store alone, without what precedes it in its line.
StoreOfCrashPlan(p) == {i \in cacheline_dict[ops[p].line] : i = p}

\* The store and everything before it in the list of its line.
get_stores_from_crash_plan(p) ==
    {i \in cacheline_dict[ops[p].line] : i <= p}

\* construct_crash_state: a copy of the file on which the plan is persisted; a
\* plan that is a fence persists nothing.
CrashImage(plan) ==
    IF ops[plan].type = "Fence" THEN file
    ELSE do_stores(file, get_stores_from_crash_plan(plan))
-----------------------------------------------------------------------------
\* The types of the cache's state; pos is at most one past the last operation.
CacheTypeOK ==
    /\ IsTrace(ops)
    /\ pos \in 1..(Len(ops) + 1)
    /\ cacheline_dict \in [Lines -> SUBSET DOMAIN ops]
    /\ flushed \in [DOMAIN ops -> {Clear, Flushing, Fenced}]
    /\ file \in [Cells -> Nat]
    /\ image \in [Cells -> Nat]

Issued == {i \in 1..(pos - 1) : ops[i].type = "Store"}

FencedStores == {i \in DOMAIN ops : is_fenced(i)}

\* A line holds exactly the stores replayed to it that are not yet fenced:
\* write-backs neither lose a store nor leave a fenced one behind, so the
\* asserts of Store.accept_flush and Store.accept_fence cannot fail and
\* stores_list.index finds every store that is not fenced.
CacheHoldsUnfenced ==
    \A l \in Lines :
        cacheline_dict[l] = {i \in Issued : ops[i].line = l /\ ~is_fenced(i)}

\* Within a line a store is never ahead of an earlier one: fenced stores come
\* before flushing ones, flushing ones before clear ones.
FlushedInOrder ==
    \A i, j \in Issued :
        i < j /\ ops[i].line = ops[j].line => flushed[j] <= flushed[i]

\* The pool file holds what the fenced stores wrote, the later store winning
\* where two of them overlap, whatever the order of the write-backs.
FileIsFencedPrefix ==
    \A c \in Cells :
        LET W == {i \in FencedStores : c \in ops[i].cells}
        IN  file[c] = IF W = {} THEN 0 ELSE Latest(W)

\* Operations not replayed yet, and operations that are not stores, are clear.
OnlyIssuedMarked == \A i \in DOMAIN ops : i \notin Issued => is_clear(i)

CacheInv ==
    /\ CacheTypeOK
    /\ CacheHoldsUnfenced
    /\ FlushedInOrder
    /\ FileIsFencedPrefix
    /\ OnlyIssuedMarked

\* The cache as an implementation of PersistentMemory.
PM == INSTANCE PersistentMemory
      WITH n <- pos - 1,
           pending <- {i \in DOMAIN ops : is_flushing(i)},
           durable <- FencedStores
=============================================================================
