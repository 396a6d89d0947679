----------------------------- MODULE BTTLayout -----------------------------
(***************************************************************************)
(* The layout of a BTT namespace (pmdk-1.8/src/libpmemblk/btt.c): how the  *)
(* size of the namespace is divided into arenas, how the first write lays  *)
(* them out while other lanes run, and what btt_init makes of a layout     *)
(* that a crash interrupted.                                               *)
(*                                                                         *)
(* Sizes are parameters.  Of an arena on the media the model keeps whether *)
(* its map is zero, which flog pairs are written, and whether its info    *)
(* block and the copy of it are valid.                                     *)
(***************************************************************************)
EXTENDS Naturals, Sequences

CONSTANTS BTT_ALIGNMENT, BTT_MIN_SIZE, BTT_MAX_ARENA, BTT_MIN_LBA_SIZE,
          BTT_INTERNAL_LBA_ALIGNMENT, BTT_MAP_ENTRY_SIZE, BTT_FLOG_PAIR_ALIGN,
          InfoSize,             \* sizeof(struct btt_info)
          nfree,                \* BTT_DEFAULT_NFREE
          RawSizes, LbaSizes,   \* the sizes tried
          Lanes, MaxCrashes, MaxFaults

\* What is assumed of the constants.
LayoutAssumption ==
    /\ {BTT_ALIGNMENT, BTT_MIN_SIZE, BTT_MAX_ARENA, BTT_MIN_LBA_SIZE, BTT_INTERNAL_LBA_ALIGNMENT,
        BTT_MAP_ENTRY_SIZE, BTT_FLOG_PAIR_ALIGN, InfoSize, nfree} \subseteq Nat \ {0}
    /\ BTT_MIN_SIZE <= BTT_MAX_ARENA
    /\ BTT_MAX_ARENA % BTT_ALIGNMENT = 0 /\ InfoSize % BTT_ALIGNMENT = 0
    /\ RawSizes \subseteq Nat /\ LbaSizes \subseteq Nat \ {0}

roundup(x, y) == ((x + y - 1) \div y) * y

internal_lbasize(external) ==
    roundup(IF external < BTT_MIN_LBA_SIZE THEN BTT_MIN_LBA_SIZE ELSE external,
            BTT_INTERNAL_LBA_ALIGNMENT)

btt_flog_size == roundup(nfree * BTT_FLOG_PAIR_ALIGN, BTT_ALIGNMENT)

btt_map_size(external_nlba) == roundup(external_nlba * BTT_MAP_ENTRY_SIZE, BTT_ALIGNMENT)

btt_arena_datasize(size) == size - 2 * InfoSize - btt_flog_size

\* Mutant: no allowance for the alignment of the map.
InternalNlbaTight(size, lbasize) ==
    btt_arena_datasize(size) \div (internal_lbasize(lbasize) + BTT_MAP_ENTRY_SIZE)

\* btt_info_set_params: the blocks of an arena, with room for the padding of
\* the map.
internal_nlba(size, lbasize) ==
    (btt_arena_datasize(size) - BTT_ALIGNMENT) \div (internal_lbasize(lbasize) + BTT_MAP_ENTRY_SIZE)

\* btt_info_set_params and btt_info_set_offs, for an arena of this size with
\* so much space left behind it.
btt_info_set(size, lbasize, left) ==
    LET n    == internal_nlba(size, lbasize)
        info == size - InfoSize
        flog == info - btt_flog_size
    IN  [internal_nlba |-> n, external_nlba |-> n - nfree, lbasize |-> internal_lbasize(lbasize),
         dataoff |-> InfoSize, nextoff |-> IF left >= BTT_MIN_SIZE THEN size ELSE 0,
         infooff |-> info, flogoff |-> flog, mapoff |-> flog - btt_map_size(n - nfree)]

ValidParams(size, lbasize) == internal_nlba(size, lbasize) >= 2 * nfree

Smaller(a, b) == IF a < b THEN a ELSE b

\* The arenas that the loop of write_layout cuts from rawsize, off bytes into
\* the namespace.
ArenasFrom[raw \in Nat, lbasize \in Nat, off \in Nat] ==
    IF raw < BTT_MIN_SIZE THEN <<>>
    ELSE LET size == Smaller(raw, BTT_MAX_ARENA)
             info == btt_info_set(size, lbasize, raw - size)
         IN  <<[size |-> size, off |-> off, info |-> info]>> \o
             ArenasFrom[raw - size, lbasize, off + info.nextoff]
-----------------------------------------------------------------------------
VARIABLES rawsize, lbasize, is_zeroed,   \* the namespace, never changed
          Arenas,                        \* how write_layout divides it
          media,                         \* per arena
          narena, nlba, laidout,         \* struct btt
          layout_write_mutex,            \* the lane that holds it, or "free"
          pc, arena, pair,               \* per lane; the loops of write_layout
          written,                       \* a btt_write has returned
          crashes, faults

fixed == <<rawsize, lbasize, is_zeroed, Arenas>>
bttp  == <<narena, nlba, laidout>>
loops == <<arena, pair>>
vars  == <<fixed, media, bttp, layout_write_mutex, pc, loops, written, crashes, faults>>

SumNlba(arenas) ==
    LET sum[i \in 0..Len(arenas)] == IF i = 0 THEN 0 ELSE sum[i - 1] + arenas[i].info.external_nlba
    IN  sum[Len(arenas)]

\* Mutant: any block is accepted.
ReadInfoTrusted(i) == TRUE

\* read_info accepts the info block at the beginning of an arena.
read_info(i) == media[i].info = "valid"

\* How far read_layout gets: it follows nextoff from one valid info block to
\* the next, and stops at 0, at a block that is not valid, or at the end.
\* The arenas read, and whether all of them were valid.
ReadFrom[i \in Nat, raw \in Nat] ==
    IF raw < BTT_MIN_SIZE THEN [narena |-> i - 1, ok |-> TRUE]
    ELSE IF ~read_info(i) THEN [narena |-> i, ok |-> FALSE]
    ELSE IF Arenas[i].info.nextoff = 0 THEN [narena |-> i, ok |-> TRUE]
    ELSE ReadFrom[i + 1, raw - Arenas[i].info.nextoff]

\* Mutant: a remainder of the smallest size is not counted.
CountedArenasStrict ==
    rawsize \div BTT_MAX_ARENA + (IF rawsize % BTT_MAX_ARENA > BTT_MIN_SIZE THEN 1 ELSE 0)

CountedArenas ==
    rawsize \div BTT_MAX_ARENA + (IF rawsize % BTT_MAX_ARENA >= BTT_MIN_SIZE THEN 1 ELSE 0)

\* read_layout: without a valid layout the counts are those that write_layout
\* will arrive at.
read_layout ==
    LET r == ReadFrom[1, rawsize]
    IN  /\ laidout' = r.ok
        /\ narena' = IF r.ok THEN r.narena ELSE CountedArenas
        /\ nlba' = SumNlba(SubSeq(Arenas, 1, narena'))

\* Mutant: the first block of the next arena counts to this one.
BelongsToOne(lba, external_nlba) == lba <= external_nlba

BelongsTo(lba, external_nlba) == lba < external_nlba

\* lba_to_arena_lba: the arena of a block and its number there.
lba_to_arena_lba(lba) ==
    LET find[i \in 1..Len(Arenas), n \in 0..lba] ==
            IF BelongsTo(n, Arenas[i].info.external_nlba) THEN <<i, n>>
            ELSE find[i + 1, n - Arenas[i].info.external_nlba]
    IN  find[1, lba]

Init ==
    /\ rawsize \in RawSizes /\ lbasize \in LbaSizes /\ is_zeroed \in BOOLEAN
    /\ rawsize >= BTT_MIN_SIZE
    /\ Arenas = ArenasFrom[rawsize, lbasize, 0]
    /\ \A i \in DOMAIN Arenas : ValidParams(Arenas[i].size, lbasize)
    /\ media = [i \in DOMAIN Arenas |->
                   [map |-> IF is_zeroed THEN "zero" ELSE "dirty",
                    flog |-> {}, info |-> "none", copy |-> "none"]]
    /\ laidout = FALSE /\ narena = Len(Arenas) /\ nlba = SumNlba(Arenas)
    /\ layout_write_mutex = "free"
    /\ pc = [l \in Lanes |-> "idle"]
    /\ arena = 1 /\ pair = 0
    /\ written = FALSE /\ crashes = 0 /\ faults = 0

Goto(l, step) == pc' = [pc EXCEPT ![l] = step]

\* Mutant: whoever comes second formats again.
NeedsLayoutAlways == TRUE

\* The second test of laidout, under the mutex.
NeedsLayout == ~laidout

\* btt_write or map_entry_setf: the first test of laidout, without the mutex.
btt_write(l) ==
    /\ pc[l] = "idle"
    /\ Goto(l, IF laidout THEN "write" ELSE "lock")
    /\ UNCHANGED <<fixed, media, bttp, layout_write_mutex, loops, written, crashes, faults>>

LockLayout(l) ==
    /\ pc[l] = "lock" /\ layout_write_mutex = "free"
    /\ layout_write_mutex' = IF NeedsLayout THEN l ELSE "free"
    /\ Goto(l, IF NeedsLayout THEN "zero" ELSE "write")
    /\ UNCHANGED <<fixed, media, bttp, loops, written, crashes, faults>>

\* The write itself, on a namespace with a layout (lba_to_arena_lba asserts it).
WriteBlock(l) ==
    /\ pc[l] = "write"
    /\ written' = TRUE
    /\ Goto(l, "idle")
    /\ UNCHANGED <<fixed, media, bttp, layout_write_mutex, loops, crashes, faults>>

\* nszero of n bytes at off: the maps it covers become zero.
nszero(off, n) ==
    [i \in DOMAIN media |->
        LET start == Arenas[i].off + Arenas[i].info.mapoff
        IN  IF off <= start /\ start + btt_map_size(Arenas[i].info.external_nlba) <= off + n
            THEN [media[i] EXCEPT !.map = "zero"] ELSE media[i]]

\* The map of an arena: the offset is the one inside the arena.
ZeroMap(l) ==
    /\ pc[l] = "zero"
    /\ LET info == Arenas[arena].info
       IN  media' = IF is_zeroed THEN media
                    ELSE nszero(info.mapoff, btt_map_size(info.external_nlba))
    /\ pair' = 0
    /\ Goto(l, "flog")
    /\ UNCHANGED <<fixed, bttp, layout_write_mutex, arena, written, crashes, faults>>

\* Mutant: one pair too many.
MorePairsOne == pair <= nfree

MorePairs == pair < nfree

\* One flog pair, the initial entry and a zero one.
WriteFlog(l) ==
    /\ pc[l] = "flog"
    /\ \/ /\ MorePairs
          /\ media' = [media EXCEPT ![arena].flog = @ \cup {pair}]
          /\ pair' = pair + 1
          /\ UNCHANGED pc
       \/ /\ ~MorePairs
          /\ Goto(l, "info")
          /\ UNCHANGED <<media, pair>>
    /\ UNCHANGED <<fixed, bttp, layout_write_mutex, arena, written, crashes, faults>>

\* The info block at the beginning of the arena, then its copy at the end.
WriteInfo(l) ==
    /\ pc[l] = "info"
    /\ media' = [media EXCEPT ![arena].info = "valid"]
    /\ Goto(l, "copy")
    /\ UNCHANGED <<fixed, bttp, layout_write_mutex, loops, written, crashes, faults>>

WriteCopy(l) ==
    /\ pc[l] = "copy"
    /\ media' = [media EXCEPT ![arena].copy = "valid"]
    /\ \/ arena < Len(Arenas) /\ arena' = arena + 1 /\ Goto(l, "zero")
       \/ arena = Len(Arenas) /\ arena' = 1 /\ Goto(l, "load")
    /\ UNCHANGED <<fixed, bttp, layout_write_mutex, pair, written, crashes, faults>>

\* read_arenas, and the mutex.
LoadArenas(l) ==
    /\ pc[l] = "load"
    /\ narena' = Len(Arenas) /\ nlba' = SumNlba(Arenas) /\ laidout' = TRUE
    /\ layout_write_mutex' = "free"
    /\ pair' = 0
    /\ Goto(l, "write")
    /\ UNCHANGED <<fixed, media, arena, written, crashes, faults>>

\* A callback of write_layout fails: the call does, and a later one tries again.
LayoutFails(l) ==
    /\ pc[l] \in {"zero", "flog", "info", "copy", "load"}
    /\ faults < MaxFaults /\ faults' = faults + 1
    /\ layout_write_mutex' = "free"
    /\ arena' = 1 /\ pair' = 0
    /\ Goto(l, "idle")
    /\ UNCHANGED <<fixed, media, bttp, written, crashes>>

\* arena_setf after a write failed: under info_lock the info block is written
\* over, then the copy.  While nswrite is at one of them its checksum is wrong.
arena_setf(l) ==
    \/ /\ pc[l] = "write" /\ faults < MaxFaults /\ faults' = faults + 1
       /\ \A k \in Lanes : pc[k] \notin {"setf", "setf copy"}
       /\ \E i \in DOMAIN media : media' = [media EXCEPT ![i].info = "torn"] /\ arena' = i
       /\ Goto(l, "setf")
       /\ UNCHANGED <<fixed, bttp, layout_write_mutex, pair, written, crashes>>
    \/ /\ pc[l] = "setf"
       /\ media' = [media EXCEPT ![arena].info = "valid", ![arena].copy = "torn"]
       /\ Goto(l, "setf copy")
       /\ UNCHANGED <<fixed, bttp, layout_write_mutex, loops, written, crashes, faults>>
    \/ /\ pc[l] = "setf copy"
       /\ media' = [media EXCEPT ![arena].copy = "valid"]
       /\ arena' = 1
       /\ Goto(l, "idle")
       /\ UNCHANGED <<fixed, bttp, layout_write_mutex, pair, written, crashes, faults>>

\* Power fails; a block being written is left torn or keeps its old contents.
\* btt_init reads the layout before anything else runs.
Crash ==
    /\ crashes < MaxCrashes /\ crashes' = crashes + 1
    /\ layout_write_mutex' = "free"
    /\ pc' = [l \in Lanes |-> "idle"]
    /\ arena' = 1 /\ pair' = 0
    /\ read_layout
    /\ UNCHANGED <<fixed, media, written, faults>>

Next ==
    \/ \E l \in Lanes :
          \/ btt_write(l) \/ LockLayout(l) \/ WriteBlock(l) \/ ZeroMap(l) \/ WriteFlog(l)
          \/ WriteInfo(l) \/ WriteCopy(l) \/ LoadArenas(l) \/ LayoutFails(l) \/ arena_setf(l)
    \/ Crash

Spec == Init /\ [][Next]_vars
-----------------------------------------------------------------------------
\* The types of the state.
TypeOK ==
    /\ media \in [DOMAIN Arenas -> [map : {"dirty", "zero"}, flog : SUBSET (0..(nfree - 1)),
                                    info : {"none", "torn", "valid"}, copy : {"none", "torn", "valid"}]]
    /\ layout_write_mutex \in Lanes \cup {"free"}
    /\ arena \in DOMAIN Arenas /\ pair \in 0..nfree
    /\ pc \in [Lanes -> {"idle", "lock", "write", "zero", "flog", "info", "copy", "load", "setf", "setf copy"}]

\* The pieces of an arena do not overlap and fill it: blocks, map, flog, info
\* block and copy, whatever the size of the namespace and of a block; arenas
\* are adjacent.
PiecesDisjoint ==
    \A i \in DOMAIN Arenas :
        LET a == Arenas[i].info
        IN  /\ a.dataoff + a.internal_nlba * a.lbasize <= a.mapoff
            /\ a.mapoff + a.external_nlba * BTT_MAP_ENTRY_SIZE <= a.flogoff
            /\ a.flogoff + nfree * BTT_FLOG_PAIR_ALIGN <= a.infooff
            /\ a.infooff + InfoSize = Arenas[i].size
            /\ Arenas[i].off + Arenas[i].size <= rawsize
            /\ i > 1 => Arenas[i].off = Arenas[i - 1].off + Arenas[i - 1].size

\* The blocks of the namespace are all the blocks of the arenas, each once.
LbasDistinct ==
    {lba_to_arena_lba(n) : n \in 0..(nlba - 1)} =
    UNION {{<<i, n>> : n \in 0..(Arenas[i].info.external_nlba - 1)} : i \in DOMAIN Arenas}

\* The counts of arenas and blocks are the same before the layout is written,
\* after, and after a crash at any moment: no block appears or disappears.
CountsStable == narena = Len(Arenas) /\ nlba = SumNlba(Arenas)

\* Of a layout in use, which a crash in the middle of write_layout may have left
\* for read_layout to accept, the flogs and the info blocks are written, and the
\* copies of all but the last arena; the map of the first arena is zero.
LayoutComplete ==
    laidout => \A i \in DOMAIN Arenas :
        /\ media[i].flog = 0..(nfree - 1) /\ media[i].info # "none"
        /\ i < Len(Arenas) => media[i].copy # "none"
        /\ i = 1 \/ is_zeroed => media[i].map = "zero"

\* Once data has been written the layout is not written again.
LaidOutOnce ==
    written => \A l \in Lanes : pc[l] \notin {"zero", "flog", "info", "copy"}
=============================================================================
