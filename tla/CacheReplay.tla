----------------------------- MODULE CacheReplay -----------------------------
(***************************************************************************)
(* The simulated cache driven by the most general replay: it accepts the   *)
(* operations of a trace in order, writes the flushing stores back at      *)
(* every fence, and at any moment may write everything back or build a     *)
(* crash image.  The crash managers of all the engines are such replays.   *)
(***************************************************************************)
EXTENDS WitcherCache

CONSTANT Programs    \* the traces that are replayed

\* What is assumed of the constants.
ProgramsAssumption == \A t \in Programs : IsTrace(t)

vars == <<ops, pos, cacheline_dict, flushed, file, image>>

Init ==
    /\ ops \in Programs
    /\ InitCache

Accept ==
    /\ pos <= Len(ops)
    /\ accept(pos)
    /\ pos' = pos + 1
    /\ UNCHANGED <<ops, image>>

AcceptFence ==
    /\ pos <= Len(ops)
    /\ ops[pos].type = "Fence"
    /\ write_back_all_flushing_stores
    /\ pos' = pos + 1
    /\ UNCHANGED <<ops, image>>

WriteBackAll ==
    /\ write_back_all_stores
    /\ UNCHANGED <<ops, pos, image>>

\* The validator is only ever given a store that is still in the cache, or
\* the fence being replayed.
BuildImage ==
    /\ pos <= Len(ops)
    /\ \E plan \in Cached \cup {i \in {pos} : ops[i].type = "Fence"} :
          image' = CrashImage(plan)
    /\ UNCHANGED <<ops, pos, cacheline_dict, flushed, file>>

Next == Accept \/ AcceptFence \/ WriteBackAll \/ BuildImage

Spec == Init /\ [][Next]_vars
-----------------------------------------------------------------------------
\* A line of the simulated cache holds the stores to it that no fence has made
\* durable, and the pool file the contents that the others leave in their order.
CacheExact == CacheHoldsUnfenced /\ FileIsFencedPrefix

\* Every image the cache builds for a crash plan is one the persistent memory
\* may leave behind, and the cache keeps what the memory guarantees: the
\* simulated cache implements the persistency model.
ImplementsPersistentMemory == PM!Spec
=============================================================================
