-------------------------------- MODULE BTT --------------------------------
(***************************************************************************)
(* The block translation table of pmdk-1.8/src/libpmemblk/btt.c, for one   *)
(* arena with a written layout: lanes that read, write, zero and mark      *)
(* blocks concurrently, crashes at every step, and the recovery that       *)
(* btt_init performs.                                                      *)
(*                                                                         *)
(* On the media are the map, the pairs of flog entries, the data blocks    *)
(* and the error flag of the info block.  nswrite is durable when it       *)
(* returns; a data block written by a call that did not return is torn,    *)
(* the aligned 4 and 8 byte writes of the metadata are not, except for the *)
(* first half of a flog entry, of which a crash may keep the lba alone.    *)
(* The flag of the info block is written as a bit; what a crash in the     *)
(* middle of writing the block and its copy leaves is checked in           *)
(* BTTLayout.  Byte order conversions are left out.                        *)
(***************************************************************************)
EXTENDS Naturals

CONSTANTS nfree,            \* lanes, flog pairs and free blocks
          nlba,             \* external blocks
          EntriesPerLock,   \* BTT_MAP_LOCK_ALIGN / BTT_MAP_ENTRY_SIZE
          Values, Zero, Error, NoCall,  \* as in AtomicBlocks
          NoData,           \* a block never written
          Torn,             \* a block in the middle of a write
          Calls,            \* the calls a caller makes
          MaxCalls, MaxCrashes, MaxFaults   \* bounds

Lanes  == 0..(nfree - 1)
Lbas   == 0..(nlba - 1)
Blocks == 0..(nlba + nfree - 1)

ASSUME BTTAssumption ==
    /\ nfree \in Nat \ {0} /\ nlba \in Nat \ {0} /\ nfree <= nlba
    /\ EntriesPerLock \in Nat \ {0}
    /\ MaxCalls \in Nat /\ MaxCrashes \in Nat /\ MaxFaults \in Nat
    /\ Calls \subseteq [op : {"read"}, lba : Lbas] \cup
                       [op : {"write"}, lba : Lbas, new : Values \cup {Zero, Error}]
    /\ NoCall \notin Calls \cup {Zero, Error, NoData, Torn, "ok", "failed"}
    /\ Values \cap {Zero, Error, NoData, Torn, NoCall} = {}

\* A map entry: two flag bits and a block; flag "initial" is the 0 word.
Entry    == [flag : {"initial", "zero", "error", "normal"}, lba : Blocks]
Initial  == [flag |-> "initial", lba |-> 0]
Normal(b) == [flag |-> "normal", lba |-> b]
RttUnused == [flag |-> "error", lba |-> 0]
Flog     == [lba : Lbas, old_map : Entry, new_map : Entry, seq : 0..3]

VARIABLES map, flog, data, info_error,        \* on the media
          flogs, rtt, map_locks, flags,       \* struct arena
          recovered,                          \* pairs read_flogs has read
          pc, call, result, entry, scan,      \* per lane: the call in progress
          calls, crashes, faults,
          lost    \* history: "entry" once a map entry could not be written,
                  \* "crashed" if a crash came after that, else "none"

media == <<map, flog, data, info_error>>
arena == <<flogs, rtt, map_locks, flags>>
local == <<pc, call, result, entry, scan>>
count == <<calls, crashes, faults, lost>>
vars  == <<media, arena, recovered, local, count>>

\* Mutant: the numbers do not wrap.
NSEQCounts(seq) == seq + 1

NSEQ(seq) == CASE seq = 0 -> 0 [] seq = 1 -> 2 [] seq = 2 -> 3 [] seq = 3 -> 1

get_map_lock_num(x) == (x \div EntriesPerLock) % nfree

\* The entry of block x, in its initial state mapped to itself.
Resolve(e, x) == IF e.flag = "initial" THEN Normal(x) ELSE e

\* Mutant: the larger number is the later one.
LargerIsValid(pair) == IF pair[0].seq < pair[1].seq THEN 1 ELSE 0

\* The index of the current entry of a pair, 2 if there is none.
btt_flog_get_valid(pair) ==
    IF pair[0].seq = pair[1].seq THEN 2
    ELSE IF pair[0].seq = 0 THEN 1
    ELSE IF pair[1].seq = 0 THEN 0
    ELSE IF NSEQ(pair[0].seq) = pair[1].seq THEN 1 ELSE 0

\* The media and the run-time state as write_layout leaves them.
InitialFlog(i) ==
    LET free == [flag |-> "zero", lba |-> nlba + i]
    IN  [lba |-> i, old_map |-> free, new_map |-> free, seq |-> 1]
ZFlog == [lba |-> 0, old_map |-> Initial, new_map |-> Initial, seq |-> 0]

Init ==
    /\ map = [x \in Lbas |-> Initial]
    /\ flog = [l \in Lanes |-> [k \in 0..1 |-> IF k = 0 THEN InitialFlog(l) ELSE ZFlog]]
    /\ data = [b \in Blocks |-> NoData]
    /\ info_error = FALSE
    /\ flogs = [l \in Lanes |-> [flog |-> InitialFlog(l), next |-> 1]]
    /\ rtt = [l \in Lanes |-> RttUnused]
    /\ map_locks = [k \in Lanes |-> nfree]     \* the holder, nfree for none
    /\ flags = FALSE
    /\ recovered = nfree
    /\ pc = [l \in Lanes |-> "idle"]
    /\ call = [l \in Lanes |-> NoCall]
    /\ result = [l \in Lanes |-> NoCall]
    /\ entry = [l \in Lanes |-> Initial]
    /\ scan = [l \in Lanes |-> 0]
    /\ calls = 0 /\ crashes = 0 /\ faults = 0 /\ lost = "none"
-----------------------------------------------------------------------------
Goto(l, step) == pc' = [pc EXCEPT ![l] = step]

\* The call returns r; its locals are gone.
Finish(l, r) ==
    /\ Goto(l, "ret")
    /\ result' = [result EXCEPT ![l] = r]
    /\ entry' = [entry EXCEPT ![l] = Initial]
    /\ scan' = [scan EXCEPT ![l] = 0]
    /\ UNCHANGED call

Return(l) ==
    /\ pc[l] = "ret"
    /\ Goto(l, "idle")
    /\ call' = [call EXCEPT ![l] = NoCall]
    /\ result' = [result EXCEPT ![l] = NoCall]
    /\ UNCHANGED <<media, arena, recovered, entry, scan, count>>

\* The lane is free; lane_enter has taken the next one in turn and waits for it.
lane_enter(l) == pc[l] = "idle"

\* btt_read, btt_write, btt_set_zero or btt_set_error is called.
Start(l, c) ==
    /\ recovered = nfree /\ lane_enter(l)
    /\ calls < MaxCalls /\ calls' = calls + 1
    /\ call' = [call EXCEPT ![l] = c]
    /\ Goto(l, IF c.op = "read" THEN "map" ELSE "flags")
    /\ UNCHANGED <<media, arena, recovered, result, entry, scan, crashes, faults, lost>>
-----------------------------------------------------------------------------
\* The top of the loop of btt_read, with entry e.
ReadLoop(l, e) ==
    /\ \/ e.flag = "error" /\ Finish(l, Error)
       \/ e.flag \in {"zero", "initial"} /\ Finish(l, Zero)
       \/ /\ e.flag = "normal"
          /\ Goto(l, "track")
          /\ entry' = [entry EXCEPT ![l] = e]
          /\ UNCHANGED <<call, result, scan>>
    /\ UNCHANGED <<media, arena, recovered, count>>

\* Mutant: after the first time the map is not read.
LatestAssumed(l) == IF pc[l] = "map" THEN map[call[l].lba] ELSE entry[l]

LatestEntry(l) == map[call[l].lba]

ReadMap(l) ==
    /\ pc[l] = "map"
    /\ ReadLoop(l, LatestEntry(l))

TrackRead(l) ==
    /\ pc[l] = "track"
    /\ rtt' = [rtt EXCEPT ![l] = entry[l]]
    /\ Goto(l, "recheck")
    /\ UNCHANGED <<media, flogs, map_locks, flags, recovered, call, result, entry, scan, count>>

\* The map is read again; if it changed, the loop starts over.  A return from
\* there leaves the slot of the lane as it is.
RecheckMap(l) ==
    /\ pc[l] = "recheck"
    /\ \/ /\ LatestEntry(l) = entry[l]
          /\ Goto(l, "copy")
          /\ UNCHANGED <<media, arena, recovered, call, result, entry, scan, count>>
       \/ LatestEntry(l) # entry[l] /\ ReadLoop(l, LatestEntry(l))

ReadData(l) ==
    /\ pc[l] = "copy"
    /\ rtt' = [rtt EXCEPT ![l] = RttUnused]
    /\ Finish(l, data[entry[l].lba])
    /\ UNCHANGED <<media, flogs, map_locks, flags, recovered, count>>
-----------------------------------------------------------------------------
\* btt_write and map_entry_setf refuse an arena in error state.
CheckFlags(l) ==
    /\ pc[l] = "flags"
    /\ \/ flags /\ Finish(l, "failed")
       \/ /\ ~flags
          /\ Goto(l, IF call[l].new \in Values THEN "scan" ELSE "lock")
          /\ UNCHANGED <<call, result, entry, scan>>
    /\ UNCHANGED <<media, arena, recovered, count>>

FreeEntry(l) == Normal(flogs[l].flog.old_map.lba)

\* Mutant: outstanding reads are not waited for.
ReadIgnored(l, i) == FALSE

BeingRead(l, i) == rtt[i] = FreeEntry(l)

\* Slot scan[l] of the rtt is passed once it does not hold the free block.
ScanRtt(l) ==
    /\ pc[l] = "scan"
    /\ ~BeingRead(l, scan[l])
    /\ \/ /\ scan[l] + 1 < nfree
          /\ scan' = [scan EXCEPT ![l] = @ + 1]
          /\ UNCHANGED pc
       \/ /\ scan[l] + 1 = nfree
          /\ scan' = [scan EXCEPT ![l] = 0]
          /\ Goto(l, "data")
    /\ UNCHANGED <<media, arena, recovered, call, result, entry, count>>

WriteData(l) ==
    /\ pc[l] \in {"data", "data2"}
    /\ LET done == pc[l] = "data2"
       IN  /\ data' = [data EXCEPT ![FreeEntry(l).lba] = IF done THEN call[l].new ELSE Torn]
           /\ Goto(l, IF done THEN "lock" ELSE "data2")
    /\ UNCHANGED <<map, flog, info_error, arena, recovered, call, result, entry, scan, count>>

\* Mutant: the lock is kept.
NotUnlocked(l) == map_locks

Unlocked(l) == [map_locks EXCEPT ![get_map_lock_num(call[l].lba)] = nfree]

\* Mutant: the lock is not waited for.
LockIgnored(l) == TRUE

MapLockFree(l) == map_locks[get_map_lock_num(call[l].lba)] = nfree

map_lock(l) ==
    /\ pc[l] = "lock"
    /\ MapLockFree(l)
    /\ map_locks' = [map_locks EXCEPT ![get_map_lock_num(call[l].lba)] = l]
    /\ entry' = [entry EXCEPT ![l] = Resolve(map[call[l].lba], call[l].lba)]
    /\ Goto(l, IF call[l].new \in Values THEN "flog" ELSE "setf")
    /\ UNCHANGED <<media, flogs, rtt, flags, recovered, call, result, scan, count>>

\* flog_update: lba and old_map of the entry not in use, then new_map with seq,
\* which makes the entry the current one; then the run-time state.
FlogFirstHalf(l) ==
    /\ pc[l] = "flog"
    /\ flog' = [flog EXCEPT ![l][flogs[l].next] =
                   [lba |-> call[l].lba, old_map |-> entry[l], new_map |-> @.new_map, seq |-> @.seq]]
    /\ Goto(l, "flog2")
    /\ UNCHANGED <<map, data, info_error, arena, recovered, call, result, entry, scan, count>>

FlogSecondHalf(l) ==
    /\ pc[l] = "flog2"
    /\ LET seq == NSEQ(flogs[l].flog.seq)
           new == [lba |-> call[l].lba, old_map |-> entry[l], new_map |-> FreeEntry(l), seq |-> seq]
       IN  /\ flog' = [flog EXCEPT ![l][flogs[l].next] =
                          [lba |-> @.lba, old_map |-> @.old_map, new_map |-> FreeEntry(l), seq |-> seq]]
           /\ flogs' = [flogs EXCEPT ![l] = [flog |-> new, next |-> 1 - @.next]]
    /\ Goto(l, "unlock")
    /\ UNCHANGED <<map, data, info_error, rtt, map_locks, flags, recovered, call, result, entry, scan, count>>

map_unlock(l) ==
    /\ pc[l] = "unlock"
    /\ map' = [map EXCEPT ![call[l].lba] = flogs[l].flog.new_map]
    /\ map_locks' = Unlocked(l)
    /\ Finish(l, "ok")
    /\ UNCHANGED <<flog, data, info_error, flogs, rtt, flags, recovered, count>>

\* The flags of the entry change, unless a zeroed block is to be zeroed.
map_entry_setf(l) ==
    /\ pc[l] = "setf"
    /\ map' = [map EXCEPT ![call[l].lba] =
                  IF call[l].new = Zero /\ entry[l].flag = "zero" THEN @
                  ELSE [flag |-> IF call[l].new = Zero THEN "zero" ELSE "error",
                        lba |-> entry[l].lba]]
    /\ map_locks' = Unlocked(l)
    /\ Finish(l, "ok")
    /\ UNCHANGED <<flog, data, info_error, flogs, rtt, flags, recovered, count>>

\* Mutant: the flag is only set on the media.
ErrorFlagKept == flags

ErrorFlag == TRUE

\* The write of the map failed: the arena becomes read-only, in memory first.
\* arena_setf writes both copies of the info block, here as one bit.
set_arena_error(l) ==
    \/ /\ pc[l] = "seterror"
       /\ flags' = ErrorFlag
       /\ Goto(l, "info")
       /\ UNCHANGED <<media, flogs, rtt, map_locks, recovered, call, result, entry, scan, count>>
    \/ /\ pc[l] = "info"
       /\ info_error' = TRUE
       /\ Finish(l, "failed")
       /\ UNCHANGED <<map, flog, data, arena, recovered, count>>

\* A callback fails where the call reads or writes the namespace.
IoError(l) ==
    /\ faults < MaxFaults /\ faults' = faults + 1
    /\ lost' = IF lost = "none" /\ pc[l] = "unlock" THEN "entry" ELSE lost
    /\ \/ /\ pc[l] \in {"map", "data", "data2", "info", "lock"}
          /\ pc[l] = "lock" => MapLockFree(l)
          /\ Finish(l, "failed")
          /\ UNCHANGED <<rtt, map_locks>>
       \/ /\ pc[l] \in {"recheck", "copy"}
          /\ rtt' = [rtt EXCEPT ![l] = RttUnused]
          /\ Finish(l, "failed")
          /\ UNCHANGED map_locks
       \/ /\ pc[l] \in {"flog", "flog2", "setf"}
          /\ map_locks' = Unlocked(l)
          /\ Finish(l, "failed")
          /\ UNCHANGED rtt
       \/ /\ pc[l] = "unlock"
          /\ map_locks' = Unlocked(l)
          /\ Goto(l, "seterror")
          /\ UNCHANGED <<rtt, call, result, entry, scan>>
    /\ UNCHANGED <<media, flogs, flags, recovered, calls, crashes>>
-----------------------------------------------------------------------------
\* Power fails: the run-time state is lost.
Crash ==
    /\ crashes < MaxCrashes /\ crashes' = crashes + 1
    /\ lost' = IF lost = "entry" THEN "crashed" ELSE lost
    /\ \E S \in SUBSET {l \in Lanes : pc[l] = "flog"} :
          flog' = [l \in Lanes |->
                      IF l \in S THEN [flog[l] EXCEPT ![flogs[l].next].lba = call[l].lba]
                      ELSE flog[l]]
    /\ recovered' = 0
    /\ flogs' = [l \in Lanes |-> [flog |-> ZFlog, next |-> 0]]
    /\ rtt' = [l \in Lanes |-> RttUnused]
    /\ map_locks' = [k \in Lanes |-> nfree]
    /\ flags' = info_error
    /\ pc' = [l \in Lanes |-> "idle"]
    /\ call' = [l \in Lanes |-> NoCall]
    /\ result' = [l \in Lanes |-> NoCall]
    /\ entry' = [l \in Lanes |-> Initial]
    /\ scan' = [l \in Lanes |-> 0]
    /\ UNCHANGED <<map, data, info_error, calls, faults>>

\* Mutant: an update that is not in the map is forgotten.
NeverIncomplete(f, m) == FALSE

\* The update recorded by f did not reach the map m.
Incomplete(f, m) ==
    /\ f.old_map # f.new_map
    /\ LET e == Resolve(m[f.lba], f.lba)
       IN  f.new_map # e /\ f.old_map = e

\* One round of read_flogs.
read_flog_pair ==
    LET l == recovered  k == btt_flog_get_valid(flog[l])
    IN  /\ recovered < nfree /\ recovered' = recovered + 1
        /\ \/ /\ k = 2
              /\ flags' = TRUE
              /\ UNCHANGED <<map, flogs>>
           \/ /\ k # 2
              /\ flogs' = [flogs EXCEPT ![l] = [flog |-> flog[l][k], next |-> 1 - k]]
              /\ map' = IF Incomplete(flog[l][k], map)
                        THEN [map EXCEPT ![flog[l][k].lba] = flog[l][k].new_map]
                        ELSE map
              /\ UNCHANGED flags
        /\ UNCHANGED <<flog, data, info_error, rtt, map_locks, local, count>>

Step(l) ==
    \/ Return(l)
    \/ ReadMap(l) \/ TrackRead(l) \/ RecheckMap(l) \/ ReadData(l)
    \/ CheckFlags(l) \/ ScanRtt(l) \/ WriteData(l) \/ map_lock(l)
    \/ FlogFirstHalf(l) \/ FlogSecondHalf(l) \/ map_unlock(l)
    \/ map_entry_setf(l) \/ set_arena_error(l)

Next ==
    \/ \E l \in Lanes : Step(l) \/ IoError(l) \/ \E c \in Calls : Start(l, c)
    \/ Crash \/ read_flog_pair

Spec == Init /\ [][Next]_vars
-----------------------------------------------------------------------------
\* The types of media, arena and calls: sequence numbers stay in their cycle.
TypeOK ==
    /\ map \in [Lbas -> Entry]
    /\ flog \in [Lanes -> [0..1 -> Flog]]
    /\ data \in [Blocks -> Values \cup {NoData, Torn}]
    /\ info_error \in BOOLEAN /\ flags \in BOOLEAN
    /\ flogs \in [Lanes -> [flog : Flog, next : 0..1]]
    /\ rtt \in [Lanes -> Entry] /\ entry \in [Lanes -> Entry]
    /\ map_locks \in [Lanes -> Lanes \cup {nfree}]
    /\ recovered \in 0..nfree /\ scan \in [Lanes -> Lanes]
    /\ pc \in [Lanes -> {"idle", "ret", "map", "track", "recheck", "copy", "flags", "scan", "data",
                          "data2", "lock", "flog", "flog2", "unlock", "setf", "seterror", "info"}]
    /\ call \in [Lanes -> Calls \cup {NoCall}]
    /\ result \in [Lanes -> Values \cup {Zero, Error, NoData, Torn, "ok", "failed", NoCall}]
    /\ lost \in {"none", "entry", "crashed"}

\* The flog entry of a lane that counts: in memory, or on the media while the
\* lane has not been recovered.
CurrentFlog(l) ==
    IF l < recovered THEN flogs[l].flog ELSE flog[l][btt_flog_get_valid(flog[l])]

\* Lane l has switched its flog entry and not yet changed the map.
InForce(l) ==
    IF l < recovered THEN pc[l] = "unlock" ELSE Incomplete(CurrentFlog(l), map)

\* Where block x is, once the updates in force are in the map.
MappedTo(x) ==
    IF \E l \in Lanes : InForce(l) /\ CurrentFlog(l).lba = x
    THEN CurrentFlog(CHOOSE l \in Lanes : InForce(l) /\ CurrentFlog(l).lba = x).new_map
    ELSE map[x]

\* check_arena for a map and a free list: no block of either occurs twice.
\* Being as many as there are blocks, all occur.
check_arena(mapped, free) ==
    /\ \A x, y \in Lbas : x # y => mapped[x] # mapped[y]
    /\ \A l, k \in Lanes : l # k => free[l] # free[k]
    /\ \A x \in Lbas, l \in Lanes : mapped[x] # free[l]

\* No block is lost and none belongs to two owners, at any step of concurrent
\* calls, a crash and the recovery, after failed reads and writes too: what
\* btt_check verifies of an idle arena.  Only a map entry that cannot be
\* written ends this, and then the arena is, or is about to be, in error: until
\* a crash, which may come before the error flag is on the media.
BlocksPartitioned ==
    CASE lost = "none"    -> check_arena([x \in Lbas |-> Resolve(MappedTo(x), x).lba],
                                         [l \in Lanes |-> CurrentFlog(l).old_map.lba])
      [] lost = "entry"   -> flags \/ \E l \in Lanes : pc[l] = "seterror"
      [] lost = "crashed" -> TRUE

\* A read that has verified its map entry copies a block that nobody is
\* writing, nor will be before it is done: what the read tracking table is for.
ReadersUndisturbed ==
    lost # "crashed" =>
        \A l, k \in Lanes :
            pc[l] = "copy" /\ pc[k] \in {"data", "data2"} => FreeEntry(k).lba # entry[l].lba

\* Every block belongs to one owner, a map entry or the free block of a lane,
\* whatever the lanes do and wherever a crash hits, and a read that has verified
\* its map entry copies a block that nobody writes (btt_write, btt_read, the
\* flog and the read tracking table).
BlocksOwned == TypeOK /\ BlocksPartitioned /\ ReadersUndisturbed

\* What a caller or a crash can observe: the map, with updates in force only
\* when the run-time state is gone.
EntryValue(e) ==
    CASE e.flag \in {"initial", "zero"} -> Zero
      [] e.flag = "error" -> Error
      [] e.flag = "normal" -> data[e.lba]

Contents(x) == EntryValue(IF recovered < nfree THEN MappedTo(x) ELSE map[x])

\* A read has its result once its map entry is verified.
Outcome(l) == IF pc[l] = "copy" THEN data[entry[l].lba] ELSE result[l]

DeviceBlocks  == [x \in Lbas |-> Contents(x)]
DeviceResults == [l \in Lanes |-> Outcome(l)]

Device == INSTANCE AtomicBlocks WITH blocks <- DeviceBlocks, result <- DeviceResults

\* Calls take effect at one instant, and a write that a crash interrupts has
\* happened completely or not at all: writes are power-fail atomic.  A write
\* that failed because its map entry could not be written has no effect, but
\* nothing is promised of what the recovery makes of it after a crash.
ImplementsAtomicBlocks ==
    Device!Init /\ [][lost' # "crashed" => Device!Next \/ UNCHANGED Device!vars]_vars
=============================================================================
