-------------------------------- MODULE PMem --------------------------------
(***************************************************************************)
(* What libpmem gives a program on persistent memory (pmdk-1.8/src/libpmem *)
(* pmem.c and x86_64/init.c), as operators on a record that stands for the *)
(* memory:                                                                 *)
(*   cur   what loads see, per line;                                       *)
(*   may   the contents a crash may leave in a line, the current ones      *)
(*         included;                                                       *)
(*   old   those of them that the next fence rules out.                    *)
(* A line is written and persists as a whole; a structure that persists    *)
(* piecewise has several lines.                                            *)
(***************************************************************************)
EXTENDS TLC, FiniteSetsExt

CONSTANT FlushKind   \* the flush instruction pmem_init_funcs settles on

\* What is assumed of the constants.
FlushKindAssumption == FlushKind \in {"clflush", "clwb", "eADR"}

NewMemory(f) == [cur |-> f,
                 may |-> [l \in DOMAIN f |-> {f[l]}],
                 old |-> [l \in DOMAIN f |-> {}]]

\* An ordinary store: with eADR the cache is persistent.
Store(m, l, v) ==
    [m EXCEPT !.cur[l] = v,
              !.may[l] = IF FlushKind = "eADR" THEN {v} ELSE @ \cup {v},
              !.old[l] = IF FlushKind = "eADR" THEN {} ELSE @ \ {v}]

\* Starts the write-back of a set of lines, to be completed by a fence.
WriteBack(m, lines) ==
    [m EXCEPT !.old = [l \in DOMAIN @ |-> IF l \in lines THEN @[l] \cup (m.may[l] \ {m.cur[l]}) ELSE @[l]]]

SFence(m) ==
    [m EXCEPT !.may = [l \in DOMAIN @ |-> @[l] \ m.old[l]],
              !.old = [l \in DOMAIN @ |-> {}]]

\* pmem_flush: clflush is ordered with the stores that follow, clwb and
\* clflushopt are not.
Flush(m, lines) ==
    IF FlushKind = "clwb" THEN WriteBack(m, lines)
    ELSE [m EXCEPT !.may = [l \in DOMAIN @ |-> IF l \in lines THEN {m.cur[l]} ELSE @[l]],
                   !.old = [l \in DOMAIN @ |-> IF l \in lines THEN {} ELSE @[l]]]

\* pmem_drain: with clflush there is nothing to wait for.
Drain(m) == IF FlushKind = "clflush" THEN m ELSE SFence(m)

pmem_persist(m, lines) == Drain(Flush(m, lines))

\* pmem_memcpy with PMEM_F_MEM_NODRAIN and non-temporal stores: the lines
\* of f are written in any order.  Where pmem_drain has no fence the copy ends
\* with one.
CopyNoDrain(m, f) ==
    [cur |-> f @@ m.cur,
     may |-> [l \in DOMAIN m.may |-> IF l \in DOMAIN f THEN m.may[l] \cup {f[l]} ELSE m.may[l]],
     old |-> [l \in DOMAIN m.old |->
                 IF l \in DOMAIN f THEN (m.old[l] \cup m.may[l]) \ {f[l]} ELSE m.old[l]]]

EndCopy(m) == IF FlushKind = "clflush" THEN SFence(m) ELSE m

\* What a crash may leave.
CrashContents(m) ==
    FoldSet(LAMBDA l, fs : {[f EXCEPT ![l] = v] : f \in fs, v \in m.may[l]},
            {m.cur}, {l \in DOMAIN m.may : m.may[l] # {m.cur[l]}})

IsDurable(m, l) == m.may[l] = {m.cur[l]}
=============================================================================
