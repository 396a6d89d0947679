------------------------------ MODULE BTTProofs ------------------------------
(***************************************************************************)
(* The block translation table keeps every block in one place and          *)
(* implements atomic blocks, for every number of lanes, blocks and values, *)
(* any number of calls, failed callbacks and crashes.                      *)
(*                                                                         *)
(* The inductive invariant has one part for each mechanism of btt.c: the   *)
(* calls (CallsInv), the map locks (LocksInv), the flog pairs (FlogInv),   *)
(* the ownership of the blocks (OwnersInv), the read tracking table        *)
(* (ReadersInv) and the data (DataInv).  All but the first hold until a    *)
(* lost map entry is followed by a crash.                                  *)
(***************************************************************************)
EXTENDS BTT, TLAPS

\* Where a call is: in btt_read, in btt_write or map_entry_setf, in the part
\* of btt_write that uses the free block, under the map lock.
Reading == {"map", "track", "recheck", "copy"}
Storing == {"scan", "data", "data2", "flog", "flog2", "unlock"}
Failing == {"seterror", "info"}
Locked  == {"flog", "flog2", "unlock", "setf"}
Writing == Storing \cup Failing \cup {"flags", "lock", "setf"}

\* The types of the locals of the calls.
LocalTypes ==
    /\ pc \in [Lanes -> {"idle", "ret", "map", "track", "recheck", "copy", "flags", "scan", "data",
                          "data2", "lock", "flog", "flog2", "unlock", "setf", "seterror", "info"}]
    /\ call \in [Lanes -> Calls \cup {NoCall}]
    /\ result \in [Lanes -> Values \cup {Zero, Error, NoData, Torn, "ok", "failed", NoCall}]
    /\ entry \in [Lanes -> Entry] /\ scan \in [Lanes -> Lanes]

CallsInv ==
    \A l \in Lanes :
        /\ pc[l] = "idle" => call[l] = NoCall
        /\ pc[l] # "idle" => call[l] # NoCall /\ recovered = nfree
        /\ pc[l] \in Reading => call[l].op = "read"
        /\ pc[l] \in Writing => call[l].op = "write"
        /\ pc[l] \in Storing \cup Failing => call[l].new \in Values
        /\ pc[l] = "setf" => call[l].new \notin Values
        /\ pc[l] # "scan" => scan[l] = 0
        /\ result[l] = NoCall <=> pc[l] # "ret"

\* A lane under a map lock holds it, and has the entry the map has.
LocksInv ==
    \A l \in Lanes : pc[l] \in Locked =>
        /\ map_locks[get_map_lock_num(call[l].lba)] = l
        /\ entry[l] = Resolve(map[call[l].lba], call[l].lba)

\* cur is the number of the entry written after the one with number old.
Follows(cur, old) == cur \in 1..3 /\ (old = 0 \/ NSEQ(old) = cur)

\* The pair on the media has a current entry; once read_flogs has read the
\* pair, it is the one in memory, and flog_update writes the other.
FlogInv ==
    /\ \A l \in Lanes : \E k \in 0..1 : Follows(flog[l][k].seq, flog[l][1 - k].seq)
    /\ \A l \in Lanes : l < recovered =>
          /\ flog[l][1 - flogs[l].next] = flogs[l].flog
          /\ Follows(flogs[l].flog.seq, flog[l][flogs[l].next].seq)
    /\ \A l \in Lanes : pc[l] = "flog2" =>
          flog[l][flogs[l].next].lba = call[l].lba /\ flog[l][flogs[l].next].old_map = entry[l]
    /\ \A l \in Lanes : pc[l] = "unlock" =>
          flogs[l].flog.lba = call[l].lba /\ flogs[l].flog.old_map = entry[l]

\* The block of x in the map, the free block of a lane and the block that its
\* last update has put in the place of the free one.
InMap(x) == Resolve(map[x], x).lba
Free(l)  == CurrentFlog(l).old_map.lba
New(l)   == CurrentFlog(l).new_map.lba

\* The lane may still write: all lanes, until a map entry is lost.  Then the
\* lane that lost it will not, nor one that has not passed the check of flags.
Live(l) ==
    /\ pc[l] # "seterror"
    /\ flags => pc[l] \in Storing \cup {"lock"}

\* Blocks in the map and free blocks are different, but for an update in force:
\* the block it will put into the map is neither, its free block is still there.
OwnersInv ==
    /\ \A x, y \in Lbas : x # y => InMap(x) # InMap(y)
    /\ \A l, k \in Lanes : Live(l) /\ Live(k) /\ l # k => Free(l) # Free(k)
    /\ \A l \in Lanes, x \in Lbas :
          Live(l) /\ Free(l) = InMap(x) => InForce(l) /\ CurrentFlog(l).lba = x
    /\ \A l \in Lanes : InForce(l) =>
          /\ Resolve(map[CurrentFlog(l).lba], CurrentFlog(l).lba) = CurrentFlog(l).old_map
          /\ CurrentFlog(l).new_map.flag = "normal"
          /\ \A x \in Lbas : New(l) # InMap(x)
          /\ \A k \in Lanes : Live(k) => New(l) # Free(k)
          /\ \A k \in Lanes : InForce(k) /\ l # k => New(l) # New(k)

\* The arena is in error once a map entry is lost, and only then.
ErrorInv ==
    /\ lost = "none" => ~flags /\ ~info_error /\ \A l \in Lanes : pc[l] \notin Failing
    /\ lost = "entry" => recovered = nfree /\ (flags \/ \E l \in Lanes : pc[l] = "seterror")
    /\ \A l \in Lanes : pc[l] = "info" => flags

\* A lane that has passed the slot of a reader does not write what it reads.
ReadersInv ==
    /\ \A l \in Lanes : pc[l] \in {"track", "recheck", "copy"} => entry[l].flag = "normal"
    /\ \A l \in Lanes : pc[l] \in {"recheck", "copy"} => rtt[l] = entry[l]
    /\ \A l, k \in Lanes :
          /\ pc[l] = "copy"
          /\ pc[k] \in {"data", "data2"} \/ (pc[k] = "scan" /\ l < scan[k])
          => FreeEntry(k).lba # entry[l].lba

\* The blocks that a caller sees, or may see after a crash, hold values.
DataInv ==
    /\ \A x \in Lbas : map[x].flag = "normal" => data[map[x].lba] \in Values
    /\ \A l \in Lanes : InForce(l) => data[New(l)] \in Values
    /\ \A l \in Lanes : pc[l] = "copy" => data[entry[l].lba] \in Values
    /\ \A l \in Lanes : pc[l] \in {"lock", "flog", "flog2"} /\ call[l].new \in Values =>
          data[FreeEntry(l).lba] = call[l].new
    /\ \A l \in Lanes : pc[l] = "unlock" => data[New(l)] = call[l].new

BTTInv ==
    /\ TypeOK /\ CallsInv
    /\ lost # "crashed" => LocksInv /\ FlogInv /\ OwnersInv /\ ErrorInv /\ ReadersInv /\ DataInv
-----------------------------------------------------------------------------
\* Most leaves are first-order; SMT is named where one needs arithmetic, functions
\* or records.
USE Zenon

LEMMA LaneFacts ==
    /\ nfree \in Nat /\ nfree > 0 /\ nlba \in Nat /\ nlba > 0
    /\ 0 \in Lanes /\ 0 \in Blocks /\ nfree \notin Lanes
    /\ \A l \in Lanes : l \in Nat /\ l < nfree
    /\ \A x \in Lbas : x \in Blocks
    /\ \A l \in Lanes : nlba + l \in Blocks /\ l \in Lbas
  BY BTTAssumption, SMT DEF Lanes, Lbas, Blocks

LEMMA LockNumber ==
    ASSUME NEW x \in Lbas
    PROVE  get_map_lock_num(x) \in Lanes
<1>1. x \in Nat /\ nfree \in Nat \ {0} /\ EntriesPerLock \in Nat \ {0}
  BY BTTAssumption, SMT DEF Lbas
<1>2. x \div EntriesPerLock \in Nat
  BY <1>1, SMT
<1>3. (x \div EntriesPerLock) % nfree \in 0..(nfree - 1)
  BY <1>1, <1>2, SMT
<1> QED
  BY <1>3 DEF get_map_lock_num, Lanes

\* A call in progress.
LEMMA CallFacts ==
    ASSUME TypeOK, CallsInv, NEW l \in Lanes, pc[l] # "idle"
    PROVE  /\ call[l] \in Calls /\ call[l].lba \in Lbas /\ recovered = nfree /\ call[l] # NoCall
           /\ call[l].op = "write" => /\ call[l] \in [op : {"write"}, lba : Lbas, new : Values \cup {Zero, Error}]
                                     /\ call[l].new \in Values \cup {Zero, Error}
           /\ call[l].op = "read" => call[l] \in [op : {"read"}, lba : Lbas]
           /\ call[l].op \in {"read", "write"}
           /\ get_map_lock_num(call[l].lba) \in Lanes
<1>1. call[l] \in Calls /\ call[l] # NoCall /\ recovered = nfree
  BY BTTAssumption DEF TypeOK, CallsInv
<1>2. call[l] \in [op : {"read"}, lba : Lbas] \cup [op : {"write"}, lba : Lbas, new : Values \cup {Zero, Error}]
  BY <1>1, BTTAssumption
<1>3. call[l].lba \in Lbas
  BY <1>2
<1> QED
  BY <1>1, <1>2, <1>3, LockNumber

\* A call of the caller.
LEMMA CallKinds ==
    ASSUME NEW c \in Calls
    PROVE  /\ c \in [op : {"read"}, lba : Lbas] \cup [op : {"write"}, lba : Lbas, new : Values \cup {Zero, Error}]
           /\ c.op \in {"read", "write"} /\ c # NoCall
  BY BTTAssumption

LEMMA EntryFacts ==
    /\ Initial \in Entry /\ RttUnused \in Entry
    /\ \A b \in Blocks : Normal(b) \in Entry /\ Normal(b).lba = b /\ Normal(b).flag = "normal"
    /\ \A e \in Entry, x \in Lbas : Resolve(e, x) \in Entry
    /\ \A e \in Entry : e.lba \in Blocks /\ e.flag \in {"initial", "zero", "error", "normal"}
    /\ ZFlog \in Flog /\ \A l \in Lanes : InitialFlog(l) \in Flog
  BY LaneFacts, SMT DEF Initial, RttUnused, Entry, Normal, Resolve, ZFlog, Flog, InitialFlog, Lbas

LEMMA FreeFacts ==
    ASSUME TypeOK, NEW l \in Lanes
    PROVE  /\ FreeEntry(l).lba \in Blocks /\ FreeEntry(l) \in Entry /\ FreeEntry(l).flag = "normal"
           /\ FreeEntry(l).lba = flogs[l].flog.old_map.lba
           /\ flogs[l].flog \in Flog /\ flogs[l].next \in 0..1 /\ flog[l] \in [0..1 -> Flog]
           /\ 1 - flogs[l].next \in 0..1
<1>1. /\ flogs[l] \in [flog : Flog, next : 0..1] /\ flogs[l].flog \in Flog
      /\ flogs[l].next \in 0..1 /\ flog[l] \in [0..1 -> Flog]
  BY DEF TypeOK
<1>2. flogs[l].flog.old_map \in Entry
  BY <1>1 DEF Flog
<1>3. flogs[l].flog.old_map.lba \in Blocks
  BY <1>2, EntryFacts
<1>4. 1 - flogs[l].next \in 0..1
  BY <1>1, SMT
<1> QED
  BY <1>1, <1>3, <1>4, EntryFacts DEF FreeEntry

\* A pair of a lane changes in one place.
LEMMA PairUpdate ==
    ASSUME TypeOK, NEW l \in Lanes, NEW n \in 0..1, NEW f \in Flog, flog' = [flog EXCEPT ![l][n] = f]
    PROVE  /\ flog' \in [Lanes -> [0..1 -> Flog]]
           /\ \A k \in Lanes : k # l => flog'[k] = flog[k]
           /\ flog'[l][n] = f /\ flog'[l][1 - n] = flog[l][1 - n]
<1>1. flog \in [Lanes -> [0..1 -> Flog]]
  BY DEF TypeOK
<1>2. 1 - n \in 0..1 /\ 1 - n # n
  BY SMT
<1> QED
  BY <1>1, <1>2

LEMMA FirstHalf ==
    ASSUME TypeOK, NEW l \in Lanes, FlogFirstHalf(l), call[l].lba \in Lbas
    PROVE  LET n == flogs[l].next
           IN  /\ flog' \in [Lanes -> [0..1 -> Flog]]
               /\ \A k \in Lanes : k # l => flog'[k] = flog[k]
               /\ flog'[l][1 - n] = flog[l][1 - n]
               /\ flog'[l][n] = [lba |-> call[l].lba, old_map |-> entry[l],
                                 new_map |-> flog[l][n].new_map, seq |-> flog[l][n].seq]
<1> DEFINE n == flogs[l].next
           f == [lba |-> call[l].lba, old_map |-> entry[l], new_map |-> flog[l][n].new_map, seq |-> flog[l][n].seq]
<1>1. n \in 0..1 /\ flog[l][n] \in Flog /\ entry[l] \in Entry
  BY FreeFacts DEF TypeOK
<1>2. f \in Flog
  BY <1>1 DEF Flog
<1>3. flog' = [flog EXCEPT ![l][n] = f]
  BY DEF FlogFirstHalf
<1> HIDE DEF f, n
<1>4. /\ flog' \in [Lanes -> [0..1 -> Flog]]
      /\ \A k \in Lanes : k # l => flog'[k] = flog[k]
      /\ flog'[l][n] = f /\ flog'[l][1 - n] = flog[l][1 - n]
  BY <1>1, <1>2, <1>3, PairUpdate
<1> QED
  BY <1>2, <1>4 DEF n, f

LEMMA SecondHalf ==
    ASSUME TypeOK, NEW l \in Lanes, FlogSecondHalf(l), call[l].lba \in Lbas
    PROVE  LET n == flogs[l].next  seq == NSEQ(flogs[l].flog.seq)
           IN  /\ seq \in 0..3
               /\ flog' \in [Lanes -> [0..1 -> Flog]] /\ flogs' \in [Lanes -> [flog : Flog, next : 0..1]]
               /\ \A k \in Lanes : k # l => flog'[k] = flog[k] /\ flogs'[k] = flogs[k]
               /\ flog'[l][1 - n] = flog[l][1 - n]
               /\ flog'[l][n] = [lba |-> flog[l][n].lba, old_map |-> flog[l][n].old_map,
                                 new_map |-> FreeEntry(l), seq |-> seq]
               /\ flogs'[l].next = 1 - n
               /\ flogs'[l].flog = [lba |-> call[l].lba, old_map |-> entry[l], new_map |-> FreeEntry(l), seq |-> seq]
<1> DEFINE n == flogs[l].next
           seq == NSEQ(flogs[l].flog.seq)
           f == [lba |-> flog[l][n].lba, old_map |-> flog[l][n].old_map, new_map |-> FreeEntry(l), seq |-> seq]
           new == [lba |-> call[l].lba, old_map |-> entry[l], new_map |-> FreeEntry(l), seq |-> seq]
<1>1. /\ n \in 0..1 /\ flog[l][n] \in Flog /\ entry[l] \in Entry /\ FreeEntry(l) \in Entry
      /\ flogs[l].flog \in Flog /\ flogs[l].flog.seq \in 0..3 /\ 1 - n \in 0..1
  BY FreeFacts DEF TypeOK, Flog
<1>2. seq \in 0..3
  BY <1>1, SMT DEF NSEQ
<1>3. flog' = [flog EXCEPT ![l][n] = f] /\ flogs' = [flogs EXCEPT ![l] = [flog |-> new, next |-> 1 - @.next]]
  BY DEF FlogSecondHalf
<1>4. new \in Flog
  BY <1>1, <1>2 DEF Flog
<1> HIDE DEF seq
<1>5. f \in Flog
  BY <1>1, <1>2 DEF Flog
<1> HIDE DEF f, new
<1>6. /\ flogs' \in [Lanes -> [flog : Flog, next : 0..1]] /\ \A k \in Lanes : k # l => flogs'[k] = flogs[k]
      /\ flogs'[l].next = 1 - n /\ flogs'[l].flog = new
  BY <1>1, <1>3, <1>4 DEF TypeOK
<1> HIDE DEF n
<1>7. /\ flog' \in [Lanes -> [0..1 -> Flog]]
      /\ \A k \in Lanes : k # l => flog'[k] = flog[k]
      /\ flog'[l][n] = f /\ flog'[l][1 - n] = flog[l][1 - n]
  BY <1>1, <1>3, <1>5, PairUpdate
<1> QED
  BY <1>2, <1>6, <1>7 DEF n, f, new, seq
-----------------------------------------------------------------------------
\* How a call returns.
Results == Values \cup {Zero, Error, NoData, Torn, "ok", "failed"}

LEMMA FinishFacts ==
    ASSUME TypeOK, CallsInv, NEW l \in Lanes, NEW r \in Results, pc[l] # "idle", Finish(l, r), recovered' = recovered
    PROVE  /\ pc' = [pc EXCEPT ![l] = "ret"] /\ result' = [result EXCEPT ![l] = r]
           /\ entry' = [entry EXCEPT ![l] = Initial] /\ scan' = [scan EXCEPT ![l] = 0] /\ call' = call
           /\ LocalTypes' /\ CallsInv'
<1>1. /\ pc' = [pc EXCEPT ![l] = "ret"] /\ result' = [result EXCEPT ![l] = r]
      /\ entry' = [entry EXCEPT ![l] = Initial] /\ scan' = [scan EXCEPT ![l] = 0] /\ call' = call
  BY DEF Finish, Goto
<1>2. r # NoCall
  BY BTTAssumption DEF Results
<1>3. CallsInv'
  BY <1>1, <1>2 DEF TypeOK, CallsInv, Reading, Writing, Storing, Failing
<1> QED
  BY <1>1, <1>3, EntryFacts, LaneFacts DEF TypeOK, LocalTypes, Results

\* The types of everything else.
OtherTypes ==
    /\ map \in [Lbas -> Entry]
    /\ flog \in [Lanes -> [0..1 -> Flog]]
    /\ data \in [Blocks -> Values \cup {NoData, Torn}]
    /\ info_error \in BOOLEAN /\ flags \in BOOLEAN
    /\ flogs \in [Lanes -> [flog : Flog, next : 0..1]]
    /\ rtt \in [Lanes -> Entry]
    /\ map_locks \in [Lanes -> Lanes \cup {nfree}]
    /\ recovered \in 0..nfree
    /\ lost \in {"none", "entry", "crashed"}

LEMMA TypesSplit ==
    /\ TypeOK <=> LocalTypes /\ OtherTypes
    /\ TypeOK' <=> LocalTypes' /\ OtherTypes'
  BY DEF TypeOK, LocalTypes, OtherTypes

LEMMA InitTypes == Init => TypeOK /\ CallsInv
<1> SUFFICES ASSUME Init PROVE TypeOK /\ CallsInv
  OBVIOUS
<1>1. LocalTypes
  BY EntryFacts, LaneFacts DEF Init, LocalTypes
<1>2. OtherTypes
  <2>1. flog \in [Lanes -> [0..1 -> Flog]]
    BY EntryFacts DEF Init
  <2>2. flogs \in [Lanes -> [flog : Flog, next : 0..1]]
    BY EntryFacts, SMT DEF Init
  <2>3. info_error \in BOOLEAN /\ flags \in BOOLEAN
    BY DEF Init
  <2>4. map \in [Lbas -> Entry] /\ rtt \in [Lanes -> Entry]
    BY EntryFacts DEF Init
  <2>5. recovered \in 0..nfree /\ lost \in {"none", "entry", "crashed"}
    BY LaneFacts, SMT DEF Init
  <2>6. data \in [Blocks -> Values \cup {NoData, Torn}] /\ map_locks \in [Lanes -> Lanes \cup {nfree}]
    BY DEF Init
  <2> QED
    BY <2>1, <2>2, <2>3, <2>4, <2>5, <2>6 DEF OtherTypes
<1>3. CallsInv
  BY DEF Init, CallsInv, Reading, Writing, Storing, Failing
<1> QED
  BY <1>1, <1>2, <1>3, TypesSplit

\* A step of a lane that does not end the call.
LEMMA StepTypes ==
    ASSUME TypeOK, CallsInv, NEW l \in Lanes, Step(l)
    PROVE  TypeOK' /\ CallsInv'
<1> USE DEF Reading, Writing, Storing, Failing
<1>t. LocalTypes /\ OtherTypes
  BY TypesSplit
<1>0. ASSUME pc[l] # "idle", NEW r \in Results, Finish(l, r), OtherTypes', recovered' = recovered
      PROVE  TypeOK' /\ CallsInv'
  BY <1>0, FinishFacts, TypesSplit
<1>1. CASE Return(l)
  <2>1. LocalTypes' /\ CallsInv'
    BY <1>1, <1>t DEF Return, Goto, LocalTypes, CallsInv
  <2> QED
    BY <1>1, <1>t, <2>1, TypesSplit DEF Return, OtherTypes, media, arena, count
<1>2. ASSUME NEW e \in Entry, pc[l] \in Reading, ReadLoop(l, e)
      PROVE  TypeOK' /\ CallsInv'
  <2>1. OtherTypes' /\ recovered' = recovered
    BY <1>2, <1>t DEF ReadLoop, OtherTypes, media, arena, count
  <2>2. CASE Finish(l, Error) \/ Finish(l, Zero)
    BY <1>0, <1>2, <2>1, <2>2 DEF Results
  <2>3. CASE /\ Goto(l, "track") /\ entry' = [entry EXCEPT ![l] = e]
             /\ UNCHANGED <<call, result, scan>>
    <3>1. LocalTypes' /\ CallsInv'
      BY <1>2, <1>t, <2>1, <2>3 DEF Goto, LocalTypes, CallsInv
    <3> QED
      BY <2>1, <3>1, TypesSplit
  <2> QED
    BY <1>2, <2>2, <2>3 DEF ReadLoop
<1>3. pc[l] \in Reading => LatestEntry(l) \in Entry
  BY <1>t, CallFacts DEF LatestEntry, OtherTypes
<1>4. CASE ReadMap(l)
  BY <1>2, <1>3, <1>4 DEF ReadMap
<1>5. CASE TrackRead(l)
  <2>1. LocalTypes' /\ CallsInv'
    BY <1>5, <1>t DEF TrackRead, Goto, LocalTypes, CallsInv
  <2>2. OtherTypes'
    BY <1>5, <1>t DEF TrackRead, LocalTypes, OtherTypes, media, count
  <2> QED
    BY <2>1, <2>2, TypesSplit
<1>6. CASE RecheckMap(l)
  <2>1. CASE LatestEntry(l) # entry[l] /\ ReadLoop(l, LatestEntry(l))
    BY <1>2, <1>3, <1>6, <2>1 DEF RecheckMap
  <2>2. CASE Goto(l, "copy") /\ UNCHANGED <<media, arena, recovered, call, result, entry, scan, count>>
    <3>1. LocalTypes' /\ CallsInv'
      BY <1>6, <1>t, <2>2 DEF RecheckMap, Goto, LocalTypes, CallsInv
    <3> QED
      BY <1>t, <2>2, <3>1, TypesSplit DEF OtherTypes, media, arena, count
  <2> QED
    BY <1>6, <2>1, <2>2 DEF RecheckMap
<1>7. CASE ReadData(l)
  <2>1. data[entry[l].lba] \in Results
    BY <1>t, EntryFacts, SMT DEF LocalTypes, OtherTypes, Results
  <2>2. OtherTypes'
    BY <1>7, <1>t, EntryFacts DEF ReadData, OtherTypes, media, count
  <2> QED
    BY <1>0, <1>7, <2>1, <2>2 DEF ReadData
<1>8. CASE CheckFlags(l)
  <2>1. OtherTypes'
    BY <1>8, <1>t DEF CheckFlags, OtherTypes, media, arena, count
  <2>2. CASE Finish(l, "failed")
    BY <1>0, <1>8, <2>1, <2>2 DEF CheckFlags, Results
  <2>3. CASE Goto(l, IF call[l].new \in Values THEN "scan" ELSE "lock") /\ UNCHANGED <<call, result, entry, scan>>
    <3>1. LocalTypes' /\ CallsInv'
      BY <1>8, <1>t, <2>3 DEF CheckFlags, Goto, LocalTypes, CallsInv
    <3> QED
      BY <2>1, <3>1, TypesSplit
  <2> QED
    BY <1>8, <2>2, <2>3 DEF CheckFlags
<1>9. CASE ScanRtt(l)
  <2>1. scan[l] + 1 < nfree => scan[l] + 1 \in Lanes
    <3>1. scan[l] \in Lanes
      BY <1>t DEF LocalTypes
    <3> QED
      BY <3>1, BTTAssumption, SMT DEF Lanes
  <2>2. LocalTypes' /\ CallsInv'
    BY <1>9, <1>t, <2>1, LaneFacts, SMT DEF ScanRtt, Goto, LocalTypes, CallsInv
  <2> QED
    BY <1>9, <1>t, <2>2, TypesSplit DEF ScanRtt, OtherTypes, media, arena, count
<1>10. CASE WriteData(l)
  <2>1. LocalTypes' /\ CallsInv'
    BY <1>10, <1>t, SMT DEF WriteData, Goto, LocalTypes, CallsInv
  <2>2. pc[l] = "data2" => call[l].new \in Values
    BY DEF CallsInv
  <2>3. data' \in [Blocks -> Values \cup {NoData, Torn}]
    BY <1>10, <1>t, <2>2 DEF WriteData, OtherTypes
  <2> QED
    BY <1>10, <1>t, <2>1, <2>3, TypesSplit DEF WriteData, OtherTypes, arena, count
<1>11. CASE map_lock(l)
  <2>1. call[l].lba \in Lbas /\ get_map_lock_num(call[l].lba) \in Lanes
    BY <1>11, CallFacts DEF map_lock
  <2>2. Resolve(map[call[l].lba], call[l].lba) \in Entry
    BY <1>t, <2>1, EntryFacts DEF OtherTypes
  <2>3. LocalTypes' /\ CallsInv'
    BY <1>11, <1>t, <2>2 DEF map_lock, Goto, LocalTypes, CallsInv
  <2>4. map_locks' \in [Lanes -> Lanes \cup {nfree}]
    BY <1>11, <1>t DEF map_lock, OtherTypes
  <2> QED
    BY <1>11, <1>t, <2>3, <2>4, TypesSplit DEF map_lock, OtherTypes, media, count
<1>12. CASE FlogFirstHalf(l)
  <2>1. call[l].lba \in Lbas /\ entry[l] \in Entry
    BY <1>12, <1>t, CallFacts DEF FlogFirstHalf, LocalTypes
  <2>2. flog' \in [Lanes -> [0..1 -> Flog]]
    BY <1>12, <2>1, FirstHalf
  <2>3. LocalTypes' /\ CallsInv'
    BY <1>12, <1>t DEF FlogFirstHalf, Goto, LocalTypes, CallsInv
  <2> QED
    BY <1>12, <1>t, <2>2, <2>3, TypesSplit DEF FlogFirstHalf, OtherTypes, arena, count
<1>13. CASE FlogSecondHalf(l)
  <2>1. flog' \in [Lanes -> [0..1 -> Flog]] /\ flogs' \in [Lanes -> [flog : Flog, next : 0..1]]
    BY <1>13, <1>t, CallFacts, SecondHalf DEF FlogSecondHalf, LocalTypes
  <2>2. LocalTypes' /\ CallsInv'
    BY <1>13, <1>t DEF FlogSecondHalf, Goto, LocalTypes, CallsInv
  <2> QED
    BY <1>13, <1>t, <2>1, <2>2, TypesSplit DEF FlogSecondHalf, OtherTypes, count
<1>14. pc[l] # "idle" => Unlocked(l) \in [Lanes -> Lanes \cup {nfree}]
  BY <1>t, CallFacts DEF Unlocked, OtherTypes
<1>15. CASE map_unlock(l)
  <2>1. flogs[l].flog.new_map \in Entry
    BY FreeFacts DEF Flog
  <2>2. map' \in [Lbas -> Entry]
    BY <1>15, <1>t, <2>1 DEF map_unlock, OtherTypes
  <2>3. OtherTypes' /\ recovered' = recovered
    BY <1>14, <1>15, <1>t, <2>2 DEF map_unlock, OtherTypes, count
  <2> QED
    BY <1>0, <1>15, <2>3 DEF map_unlock, Results
<1>16. CASE map_entry_setf(l)
  <2>1. \A f \in {"zero", "error"} : [flag |-> f, lba |-> entry[l].lba] \in Entry
    BY <1>t, EntryFacts DEF LocalTypes, Entry
  <2>2. map' \in [Lbas -> Entry]
    BY <1>16, <1>t, <2>1 DEF map_entry_setf, OtherTypes
  <2>3. OtherTypes' /\ recovered' = recovered
    BY <1>14, <1>16, <1>t, <2>2 DEF map_entry_setf, OtherTypes, count
  <2> QED
    BY <1>0, <1>16, <2>3 DEF map_entry_setf, Results
<1>17. CASE set_arena_error(l)
  <2>1. CASE pc[l] = "seterror"
    <3>1. LocalTypes' /\ CallsInv'
      BY <1>17, <1>t, <2>1, SMT DEF set_arena_error, Goto, LocalTypes, CallsInv
    <3> QED
      BY <1>17, <1>t, <2>1, <3>1, TypesSplit DEF set_arena_error, ErrorFlag, OtherTypes, media, count
  <2>2. CASE pc[l] = "info"
    <3>1. OtherTypes' /\ recovered' = recovered
      BY <1>17, <1>t, <2>2 DEF set_arena_error, OtherTypes, arena, count
    <3> QED
      BY <1>0, <1>17, <2>2, <3>1 DEF set_arena_error, Results
  <2> QED
    BY <1>17, <2>1, <2>2 DEF set_arena_error
<1> QED
  BY <1>1, <1>4, <1>5, <1>6, <1>7, <1>8, <1>9, <1>10, <1>11, <1>12, <1>13, <1>15, <1>16, <1>17 DEF Step

LEMMA StartTypes ==
    ASSUME TypeOK, CallsInv, NEW l \in Lanes, NEW c \in Calls, Start(l, c)
    PROVE  TypeOK' /\ CallsInv'
<1>t. LocalTypes /\ OtherTypes
  BY TypesSplit
<1>1. LocalTypes' /\ CallsInv'
  BY <1>t, CallKinds, SMT DEF Start, lane_enter, Goto, LocalTypes, CallsInv, Reading, Writing, Storing, Failing
<1> QED
  BY <1>t, <1>1, TypesSplit DEF Start, OtherTypes, media, arena

LEMMA ErrorTypes ==
    ASSUME TypeOK, CallsInv, NEW l \in Lanes, IoError(l)
    PROVE  TypeOK' /\ CallsInv'
<1> USE DEF Reading, Writing, Storing, Failing
<1>t. LocalTypes /\ OtherTypes
  BY TypesSplit
<1>1. pc[l] # "idle" => Unlocked(l) \in [Lanes -> Lanes \cup {nfree}]
  BY <1>t, CallFacts DEF Unlocked, OtherTypes
<1>2. pc[l] # "idle" /\ recovered' = recovered
  BY DEF IoError
<1>3. OtherTypes'
  <2>1. map_locks' \in [Lanes -> Lanes \cup {nfree}] /\ rtt' \in [Lanes -> Entry]
    BY <1>t, <1>1, <1>2, EntryFacts DEF IoError, OtherTypes
  <2>2. lost' \in {"none", "entry", "crashed"}
    BY <1>t DEF IoError, OtherTypes
  <2> QED
    BY <1>t, <2>1, <2>2 DEF IoError, OtherTypes, media
<1>4. CASE Finish(l, "failed")
  BY <1>2, <1>3, <1>4, FinishFacts, TypesSplit DEF Results
<1>5. CASE pc[l] = "unlock" /\ Goto(l, "seterror") /\ UNCHANGED <<call, result, entry, scan>>
  <2>1. LocalTypes' /\ CallsInv'
    BY <1>2, <1>5, <1>t DEF Goto, LocalTypes, CallsInv
  <2> QED
    BY <1>3, <2>1, TypesSplit
<1> QED
  BY <1>4, <1>5 DEF IoError

\* A crash may leave the lba of an entry that is not the current one.
LEMMA CrashedPairs ==
    ASSUME TypeOK, CallsInv, Crash
    PROVE  /\ flog' \in [Lanes -> [0..1 -> Flog]]
           /\ \A l \in Lanes : \A k \in 0..1 :
                 /\ flog'[l][k].seq = flog[l][k].seq
                 /\ k # flogs[l].next \/ recovered < nfree => flog'[l][k] = flog[l][k]
<1>1. PICK S \in SUBSET {l \in Lanes : pc[l] = "flog"} :
          flog' = [l \in Lanes |->
                      IF l \in S THEN [flog[l] EXCEPT ![flogs[l].next].lba = call[l].lba]
                      ELSE flog[l]]
  BY DEF Crash
<1>2. ASSUME NEW l \in Lanes
      PROVE  /\ flog'[l] \in [0..1 -> Flog]
             /\ \A k \in 0..1 :
                   /\ flog'[l][k].seq = flog[l][k].seq
                   /\ k # flogs[l].next \/ recovered < nfree => flog'[l][k] = flog[l][k]
  <2>1. flog[l] \in [0..1 -> Flog] /\ flogs[l].next \in 0..1
    BY FreeFacts
  <2>2. CASE l \notin S
    BY <1>1, <2>1, <2>2
  <2>3. CASE l \in S
    <3>1. call[l].lba \in Lbas /\ recovered = nfree /\ nfree \in Nat
      BY <2>3, CallFacts, LaneFacts
    <3> DEFINE n == flogs[l].next
               f == [flog[l][n] EXCEPT !.lba = call[l].lba]
    <3>2. f \in Flog /\ f.seq = flog[l][n].seq
      BY <2>1, <3>1 DEF Flog
    <3>3. flog'[l] = [flog[l] EXCEPT ![n] = f]
      BY <1>1, <2>3
    <3> HIDE DEF f, n
    <3> QED
      BY <2>1, <3>1, <3>2, <3>3, SMT DEF n
  <2> QED
    BY <2>2, <2>3
<1>3. flog' = [l \in Lanes |-> flog'[l]]
  BY <1>1
<1> QED
  BY <1>2, <1>3

LEMMA CrashTypes ==
    ASSUME TypeOK, CallsInv, Crash
    PROVE  TypeOK' /\ CallsInv'
<1>t. LocalTypes /\ OtherTypes
  BY TypesSplit
<1>1. LocalTypes' /\ CallsInv'
  BY EntryFacts, LaneFacts DEF Crash, LocalTypes, CallsInv, Reading, Writing, Storing, Failing
<1>2. flog' \in [Lanes -> [0..1 -> Flog]]
  BY CrashedPairs
<1>3. flogs' \in [Lanes -> [flog : Flog, next : 0..1]]
  BY EntryFacts, SMT DEF Crash
<1>4. rtt' \in [Lanes -> Entry] /\ recovered' \in 0..nfree /\ map_locks' \in [Lanes -> Lanes \cup {nfree}]
  BY EntryFacts, LaneFacts, SMT DEF Crash
<1>5. flags' \in BOOLEAN /\ lost' \in {"none", "entry", "crashed"}
  BY <1>t DEF Crash, OtherTypes
<1> QED
  BY <1>t, <1>1, <1>2, <1>3, <1>4, <1>5, TypesSplit DEF Crash, OtherTypes

LEMMA RecoveryTypes ==
    ASSUME TypeOK, CallsInv, read_flog_pair
    PROVE  TypeOK' /\ CallsInv'
<1>t. LocalTypes /\ OtherTypes
  BY TypesSplit
<1> DEFINE l == recovered
           k == btt_flog_get_valid(flog[l])
<1>1. l \in Lanes /\ recovered' = recovered + 1 /\ recovered' \in 0..nfree /\ recovered # nfree
  BY <1>t, LaneFacts, SMT DEF read_flog_pair, OtherTypes, Lanes
<1>2. k \in 0..2
  BY SMT DEF btt_flog_get_valid
<1> HIDE DEF l
<1>3. k # 2 => /\ k \in 0..1 /\ 1 - k \in 0..1 /\ flog[l][k] \in Flog
               /\ flog[l][k].new_map \in Entry /\ flog[l][k].lba \in Lbas
  <2>1. k # 2 => k \in 0..1 /\ 1 - k \in 0..1
    BY <1>2, SMT
  <2> HIDE DEF k
  <2> QED
    BY <1>t, <1>1, <2>1, SMT DEF OtherTypes, Flog
<1> HIDE DEF k
<1>4. \/ flags' = TRUE /\ UNCHANGED <<map, flogs>>
      \/ /\ k # 2 /\ UNCHANGED flags
         /\ flogs' = [flogs EXCEPT ![l] = [flog |-> flog[l][k], next |-> 1 - k]]
         /\ map' = IF Incomplete(flog[l][k], map) THEN [map EXCEPT ![flog[l][k].lba] = flog[l][k].new_map] ELSE map
  BY DEF read_flog_pair, l, k
<1>5. map' \in [Lbas -> Entry] /\ flogs' \in [Lanes -> [flog : Flog, next : 0..1]]
  <2>1. k # 2 => [flog |-> flog[l][k], next |-> 1 - k] \in [flog : Flog, next : 0..1]
    BY <1>3
  <2>2. flogs' \in [Lanes -> [flog : Flog, next : 0..1]]
    BY <1>t, <1>4, <2>1 DEF OtherTypes
  <2>3. map' \in [Lbas -> Entry]
    BY <1>t, <1>3, <1>4 DEF OtherTypes
  <2> QED
    BY <2>2, <2>3
<1>6. UNCHANGED <<flog, data, info_error, rtt, map_locks, local, count>>
  BY DEF read_flog_pair
<1>7. LocalTypes'
  BY <1>t, <1>6 DEF LocalTypes, local
<1>8. CallsInv'
  BY <1>1, <1>6 DEF CallsInv, local
<1>9. flags' \in BOOLEAN
  BY <1>t, <1>4 DEF OtherTypes
<1> QED
  BY <1>t, <1>1, <1>5, <1>6, <1>7, <1>8, <1>9, TypesSplit DEF OtherTypes, count

LEMMA NextTypes ==
    ASSUME TypeOK, CallsInv, Next
    PROVE  TypeOK' /\ CallsInv'
  BY StepTypes, ErrorTypes, StartTypes, CrashTypes, RecoveryTypes DEF Next
-----------------------------------------------------------------------------
\* The current entry of a pair is the one whose number follows the other.
LEMMA ValidIndex ==
    ASSUME NEW p \in [0..1 -> Flog], NEW k \in 0..1, Follows(p[k].seq, p[1 - k].seq)
    PROVE  btt_flog_get_valid(p) = k
<1>1. p[0].seq \in 0..3 /\ p[1].seq \in 0..3
  BY SMT DEF Flog
<1>2. CASE k = 0
  BY <1>1, <1>2, SMT DEF Follows, btt_flog_get_valid, NSEQ
<1>3. CASE k = 1
  BY <1>1, <1>3, SMT DEF Follows, btt_flog_get_valid, NSEQ
<1> QED
  BY <1>2, <1>3, SMT

\* In a running arena the flog in memory counts.
LEMMA Running ==
    ASSUME recovered = nfree, NEW l \in Lanes
    PROVE  CurrentFlog(l) = flogs[l].flog /\ (InForce(l) <=> pc[l] = "unlock")
  BY LaneFacts DEF CurrentFlog, InForce

LEMMA RunningNext ==
    ASSUME recovered' = nfree, NEW l \in Lanes
    PROVE  CurrentFlog(l)' = flogs'[l].flog /\ (InForce(l)' <=> pc'[l] = "unlock")
  BY LaneFacts DEF CurrentFlog, InForce

\* A step that moves no block and brings no update into force.
LEMMA OwnersKept ==
    ASSUME OwnersInv, map' = map,
           \A l \in Lanes : /\ CurrentFlog(l)' = CurrentFlog(l)
                            /\ InForce(l)' => InForce(l)
                            /\ Live(l)' => Live(l)
                            /\ Live(l)' /\ InForce(l) => InForce(l)'
    PROVE  OwnersInv'
<1>1. \A x \in Lbas : InMap(x)' = InMap(x)
  BY DEF InMap, Resolve
<1>2. \A l \in Lanes : Free(l)' = Free(l) /\ New(l)' = New(l)
  BY DEF Free, New
<1>3. \A l \in Lanes :
         Resolve(map[CurrentFlog(l).lba], CurrentFlog(l).lba)' = Resolve(map[CurrentFlog(l).lba], CurrentFlog(l).lba)
  BY DEF Resolve
<1> QED
  BY <1>1, <1>2, <1>3, SMT DEF OwnersInv

\* The update in force on lane l reaches the map, by map_unlock or by the
\* recovery: its new block is mapped and its free block is free.
LEMMA OwnersUpdate ==
    ASSUME TypeOK, OwnersInv, NEW l \in Lanes, InForce(l), ~InForce(l)',
           map' = [map EXCEPT ![CurrentFlog(l).lba] = CurrentFlog(l).new_map],
           \A k \in Lanes : /\ CurrentFlog(k)' = CurrentFlog(k) /\ CurrentFlog(k).lba \in Lbas
                            /\ InForce(k) => Live(k)
                            /\ Live(k)' => Live(k)
                            /\ k # l => (InForce(k)' <=> InForce(k))
    PROVE  OwnersInv'
<1>0. PICK x \in Lbas : x = CurrentFlog(l).lba
  OBVIOUS
<1>1. map'[x] = CurrentFlog(l).new_map /\ \A y \in Lbas : y # x => map'[y] = map[y]
  BY <1>0 DEF TypeOK
<1>2. \A k \in Lanes : Free(k)' = Free(k) /\ New(k)' = New(k)
  BY DEF Free, New
<1>3. InMap(x)' = New(l) /\ \A y \in Lbas : y # x => InMap(y)' = InMap(y)
  <2>1. CurrentFlog(l).new_map.flag = "normal"
    BY DEF OwnersInv
  <2>2. Resolve(map'[x], x) = CurrentFlog(l).new_map
    BY <1>1, <2>1 DEF Resolve
  <2> QED
    BY <1>1, <2>2 DEF InMap, New, Resolve
<1>4. InMap(x) = Free(l) /\ Live(l)
  BY <1>0 DEF OwnersInv, InMap, Free
<1>5. ASSUME NEW k \in Lanes, InForce(k), k # l PROVE CurrentFlog(k).lba # x
  <2>1. Live(k) /\ Free(k) # Free(l)
    BY <1>4, <1>5 DEF OwnersInv
  <2>2. Resolve(map[CurrentFlog(k).lba], CurrentFlog(k).lba).lba = Free(k)
    BY <1>5 DEF OwnersInv, Free
  <2> QED
    BY <1>4, <2>1, <2>2 DEF InMap
<1>6. \A y, z \in Lbas : y # z => InMap(y)' # InMap(z)'
  BY <1>0, <1>3 DEF OwnersInv
<1>7. \A j, k \in Lanes : Live(j)' /\ Live(k)' /\ j # k => Free(j)' # Free(k)'
  BY <1>2 DEF OwnersInv
<1>8. ASSUME NEW k \in Lanes, NEW y \in Lbas, Live(k)', Free(k)' = InMap(y)'
      PROVE  InForce(k)' /\ CurrentFlog(k)'.lba = y
  <2>1. Live(k) /\ Free(k)' = Free(k) /\ y # x /\ InMap(y)' = InMap(y)
    BY <1>0, <1>2, <1>3, <1>8, SMT DEF OwnersInv
  <2>2. k # l
    BY <1>0, <1>4, <1>8, <2>1 DEF OwnersInv
  <2> QED
    BY <1>8, <2>1, <2>2 DEF OwnersInv
<1>9. ASSUME NEW k \in Lanes, InForce(k)'
      PROVE  /\ Resolve(map[CurrentFlog(k).lba], CurrentFlog(k).lba)' = CurrentFlog(k)'.old_map
             /\ CurrentFlog(k)'.new_map.flag = "normal"
             /\ \A y \in Lbas : New(k)' # InMap(y)'
             /\ \A j \in Lanes : Live(j)' => New(k)' # Free(j)'
             /\ \A j \in Lanes : InForce(j)' /\ k # j => New(k)' # New(j)'
  <2>1. InForce(k) /\ k # l /\ CurrentFlog(k).lba # x
    BY <1>5, <1>9
  <2>2. Resolve(map[CurrentFlog(k).lba], CurrentFlog(k).lba)' = Resolve(map[CurrentFlog(k).lba], CurrentFlog(k).lba)
    <3>1. CurrentFlog(k)' = CurrentFlog(k) /\ map'[CurrentFlog(k).lba] = map[CurrentFlog(k).lba]
      BY <1>1, <2>1
    <3> QED
      BY <3>1 DEF Resolve
  <2>3. \A y \in Lbas : New(k)' # InMap(y)'
    BY <1>2, <1>3, <2>1, SMT DEF OwnersInv
  <2> QED
    BY <1>2, <2>1, <2>2, <2>3, SMT DEF OwnersInv
<1> QED
  BY <1>6, <1>7, <1>8, <1>9 DEF OwnersInv
-----------------------------------------------------------------------------
\* A step of the call on lane l.
LaneStep(l) == Step(l) \/ IoError(l) \/ \E c \in Calls : Start(l, c)

\* It leaves the other lanes alone, and comes in a running arena.
LEMMA OthersKept ==
    ASSUME TypeOK, CallsInv, NEW l \in Lanes, LaneStep(l)
    PROVE  /\ \A k \in Lanes : k # l =>
                 /\ pc'[k] = pc[k] /\ call'[k] = call[k] /\ result'[k] = result[k]
                 /\ entry'[k] = entry[k] /\ scan'[k] = scan[k] /\ rtt'[k] = rtt[k]
           /\ recovered = nfree /\ recovered' = nfree
<1>1. ASSUME NEW k \in Lanes, k # l, NEW r, Finish(l, r)
      PROVE  /\ pc'[k] = pc[k] /\ call'[k] = call[k] /\ result'[k] = result[k]
             /\ entry'[k] = entry[k] /\ scan'[k] = scan[k]
  BY <1>1 DEF Finish, Goto, TypeOK
<1>2. ASSUME NEW k \in Lanes, k # l, NEW e, ReadLoop(l, e)
      PROVE  /\ pc'[k] = pc[k] /\ call'[k] = call[k] /\ result'[k] = result[k]
             /\ entry'[k] = entry[k] /\ scan'[k] = scan[k] /\ rtt' = rtt
  BY <1>1, <1>2 DEF ReadLoop, Goto, TypeOK, arena
<1>3. ASSUME NEW k \in Lanes, k # l, Step(l)
      PROVE  /\ pc'[k] = pc[k] /\ call'[k] = call[k] /\ result'[k] = result[k]
             /\ entry'[k] = entry[k] /\ scan'[k] = scan[k] /\ rtt'[k] = rtt[k]
  <2>1. CASE Return(l) \/ TrackRead(l) \/ ScanRtt(l) \/ WriteData(l) \/ map_lock(l)
    BY <1>3, <2>1 DEF Return, TrackRead, ScanRtt, WriteData, map_lock, Goto, TypeOK, arena
  <2>2. CASE FlogFirstHalf(l) \/ FlogSecondHalf(l)
    BY <1>3, <2>2 DEF FlogFirstHalf, FlogSecondHalf, Goto, TypeOK, arena
  <2>3. CASE ReadMap(l) \/ RecheckMap(l)
    BY <1>2, <1>3, <2>3 DEF ReadMap, RecheckMap, Goto, TypeOK, arena
  <2>4. CASE ReadData(l) \/ map_unlock(l) \/ map_entry_setf(l)
    BY <1>1, <1>3, <2>4 DEF ReadData, map_unlock, map_entry_setf, TypeOK
  <2>5. CASE CheckFlags(l) \/ set_arena_error(l)
    BY <1>1, <1>3, <2>5 DEF CheckFlags, set_arena_error, Goto, TypeOK, arena
  <2> QED
    BY <1>3, <2>1, <2>2, <2>3, <2>4, <2>5 DEF Step
<1>4. ASSUME NEW k \in Lanes, k # l, IoError(l)
      PROVE  /\ pc'[k] = pc[k] /\ call'[k] = call[k] /\ result'[k] = result[k]
             /\ entry'[k] = entry[k] /\ scan'[k] = scan[k] /\ rtt'[k] = rtt[k]
  BY <1>1, <1>4 DEF IoError, Goto, TypeOK
<1>5. ASSUME NEW k \in Lanes, k # l, NEW c \in Calls, Start(l, c)
      PROVE  /\ pc'[k] = pc[k] /\ call'[k] = call[k] /\ result'[k] = result[k]
             /\ entry'[k] = entry[k] /\ scan'[k] = scan[k] /\ rtt'[k] = rtt[k]
  BY <1>5 DEF Start, Goto, TypeOK, arena
<1>6. recovered' = recovered /\ (pc[l] # "idle" \/ recovered = nfree)
  <2>1. CASE Step(l)
    BY <2>1 DEF Step, Return, ReadMap, TrackRead, RecheckMap, ReadData, CheckFlags, ScanRtt, WriteData, map_lock,
                FlogFirstHalf, FlogSecondHalf, map_unlock, map_entry_setf, set_arena_error, ReadLoop
  <2>2. CASE IoError(l)
    BY <2>2 DEF IoError
  <2>3. CASE \E c \in Calls : Start(l, c)
    BY <2>3 DEF Start
  <2> QED
    BY <2>1, <2>2, <2>3 DEF LaneStep
<1> QED
  BY <1>3, <1>4, <1>5, <1>6 DEF LaneStep, CallsInv

\* Two lanes under the lock of one block are the same.
LEMMA LockExclusive ==
    ASSUME LocksInv, NEW l \in Lanes, NEW k \in Lanes, pc[l] \in Locked, pc[k] \in Locked,
           call[l].lba = call[k].lba
    PROVE  l = k
  BY DEF LocksInv

\* Map and locks, at a step that takes no lock: a lane that gives its lock back
\* may have changed the entry that the lock protects.
LEMMA LocksKept ==
    ASSUME TypeOK, CallsInv, LocksInv, NEW l \in Lanes, LaneStep(l),
           \/ map_locks' = map_locks /\ map' = map
           \/ /\ map_locks' = Unlocked(l) /\ pc[l] \in Locked
              /\ \A y \in Lbas : y # call[l].lba => map'[y] = map[y],
           pc'[l] \in Locked => /\ pc[l] \in Locked /\ call'[l] = call[l] /\ entry'[l] = entry[l]
                                /\ map_locks' = map_locks /\ map' = map
    PROVE  LocksInv'
<1> SUFFICES ASSUME NEW k \in Lanes, pc'[k] \in Locked
             PROVE  /\ map_locks'[get_map_lock_num(call'[k].lba)] = k
                    /\ entry'[k] = Resolve(map'[call'[k].lba], call'[k].lba)
  BY DEF LocksInv, Resolve, get_map_lock_num, Locked
<1>1. CASE k = l
  BY <1>1 DEF LocksInv
<1>2. CASE k # l
  <2>1. pc[k] \in Locked /\ call'[k] = call[k] /\ entry'[k] = entry[k] /\ call[k].lba \in Lbas
    BY <1>2, OthersKept, CallFacts DEF Locked
  <2>2. map_locks[get_map_lock_num(call[k].lba)] = k /\ entry[k] = Resolve(map[call[k].lba], call[k].lba)
    BY <2>1 DEF LocksInv
  <2>3. CASE map_locks' = map_locks /\ map' = map
    BY <2>1, <2>2, <2>3
  <2>4. CASE /\ map_locks' = Unlocked(l) /\ pc[l] \in Locked
             /\ \A y \in Lbas : y # call[l].lba => map'[y] = map[y]
    <3>1. map_locks[get_map_lock_num(call[l].lba)] = l
      BY <2>4 DEF LocksInv
    <3>2. get_map_lock_num(call[l].lba) # get_map_lock_num(call[k].lba) /\ call[l].lba # call[k].lba
      BY <1>2, <2>2, <3>1
    <3>3. map_locks'[get_map_lock_num(call[k].lba)] = map_locks[get_map_lock_num(call[k].lba)]
      BY <2>1, <2>4, <3>2, LockNumber DEF Unlocked, TypeOK
    <3> QED
      BY <2>1, <2>2, <2>4, <3>2, <3>3
  <2> QED
    BY <2>3, <2>4
<1> QED
  BY <1>1, <1>2
-----------------------------------------------------------------------------
\* Steps of calls outside the map locks: they leave map, flog and locks alone.
Quiet(l) ==
    /\ UNCHANGED <<map, flog, flogs, map_locks, flags, info_error, lost>>
    /\ pc[l] \notin Locked \cup Failing /\ pc'[l] \notin Locked \cup Failing
    /\ Live(l)' => Live(l)

LEMMA QuietSteps ==
    ASSUME TypeOK, CallsInv, NEW l \in Lanes,
           \/ Return(l) \/ ReadMap(l) \/ TrackRead(l) \/ RecheckMap(l) \/ ReadData(l)
           \/ CheckFlags(l) \/ ScanRtt(l) \/ WriteData(l) \/ \E c \in Calls : Start(l, c)
           \/ IoError(l) /\ pc[l] \notin Locked \cup Failing
    PROVE  Quiet(l)
<1> USE DEF Locked, Failing, Storing, media, arena, count
<1>0. l \in DOMAIN pc
  BY DEF TypeOK
<1>1. ASSUME NEW r, Finish(l, r) PROVE pc'[l] = "ret"
  BY <1>0, <1>1 DEF Finish, Goto
<1>2. ASSUME NEW e, ReadLoop(l, e)
      PROVE  UNCHANGED <<map, flog, flogs, map_locks, flags, info_error, lost>> /\ pc'[l] \in {"ret", "track"}
  BY <1>0, <1>1, <1>2 DEF ReadLoop, Goto
<1>3. CASE Return(l) \/ TrackRead(l) \/ ScanRtt(l) \/ WriteData(l) \/ \E c \in Calls : Start(l, c)
  BY <1>0, <1>3, SMT DEF Return, TrackRead, ScanRtt, WriteData, Start, lane_enter, Goto, Quiet, Live
<1>4. CASE ReadMap(l)
  BY <1>2, <1>4 DEF ReadMap, Quiet, Live
<1>5. CASE RecheckMap(l)
  BY <1>0, <1>2, <1>5 DEF RecheckMap, Goto, Quiet, Live
<1>6. CASE ReadData(l)
  BY <1>1, <1>6 DEF ReadData, Quiet, Live
<1>7. CASE CheckFlags(l)
  BY <1>0, <1>1, <1>7 DEF CheckFlags, Goto, Quiet, Live
<1>8. CASE IoError(l) /\ pc[l] \notin Locked \cup Failing
  BY <1>1, <1>8 DEF IoError, Quiet, Live
<1> QED
  BY <1>3, <1>4, <1>5, <1>6, <1>7, <1>8

\* While flog and flogs are the same, a lane that is not at the second half of
\* an update or behind it makes no difference to the flog pairs.
LEMMA FlogKept ==
    ASSUME TypeOK, CallsInv, FlogInv, NEW l \in Lanes, LaneStep(l), UNCHANGED <<flog, flogs>>,
           pc'[l] \notin {"flog2", "unlock"}
    PROVE  FlogInv'
<1>1. recovered' = recovered
  BY OthersKept
<1>2. ASSUME NEW k \in Lanes, pc'[k] \in {"flog2", "unlock"}
      PROVE  pc'[k] = pc[k] /\ call'[k] = call[k] /\ entry'[k] = entry[k]
  BY <1>2, OthersKept
<1> QED
  BY <1>1, <1>2, SMT DEF FlogInv

\* A lane that takes a step outside of "unlock" moves no block.
LEMMA LaneOwners ==
    ASSUME TypeOK, CallsInv, OwnersInv, NEW l \in Lanes, LaneStep(l), UNCHANGED <<map, flogs>>, flags => flags',
           pc'[l] # "unlock", Live(l)' => Live(l) /\ pc[l] # "unlock"
    PROVE  OwnersInv'
<1>1. ASSUME NEW k \in Lanes
      PROVE  /\ CurrentFlog(k)' = CurrentFlog(k)
             /\ InForce(k)' => InForce(k)
             /\ Live(k)' => Live(k)
             /\ Live(k)' /\ InForce(k) => InForce(k)'
  <2>1. k # l => pc'[k] = pc[k]
    BY OthersKept
  <2>2. CurrentFlog(k)' = CurrentFlog(k)
    BY OthersKept, Running, RunningNext
  <2>3. (InForce(k) <=> pc[k] = "unlock") /\ (InForce(k)' <=> pc'[k] = "unlock")
    BY OthersKept, Running, RunningNext
  <2> QED
    BY <2>1, <2>2, <2>3 DEF Live
<1> QED
  BY <1>1, OwnersKept

LEMMA QuietPreserves ==
    ASSUME TypeOK, CallsInv, LocksInv, FlogInv, OwnersInv, ErrorInv, NEW l \in Lanes, LaneStep(l), Quiet(l)
    PROVE  LocksInv' /\ FlogInv' /\ OwnersInv' /\ ErrorInv'
<1>1. LocksInv'
  BY LocksKept DEF Quiet
<1>2. FlogInv'
  BY FlogKept DEF Quiet, Locked
<1>3. OwnersInv'
  BY LaneOwners DEF Quiet, Locked
<1>4. ErrorInv'
  BY OthersKept DEF ErrorInv, Quiet, Failing
<1> QED
  BY <1>1, <1>2, <1>3, <1>4

\* The lane takes the map lock of its block.
LEMMA LockPreserves ==
    ASSUME TypeOK, CallsInv, LocksInv, FlogInv, OwnersInv, ErrorInv, NEW l \in Lanes, LaneStep(l), map_lock(l)
    PROVE  LocksInv' /\ FlogInv' /\ OwnersInv' /\ ErrorInv'
<1>1. /\ UNCHANGED <<map, flog, flogs, flags, info_error, lost, call>>
      /\ pc[l] = "lock" /\ pc'[l] \in {"flog", "setf"}
      /\ map_locks' = [map_locks EXCEPT ![get_map_lock_num(call[l].lba)] = l]
      /\ map_locks[get_map_lock_num(call[l].lba)] = nfree
      /\ entry'[l] = Resolve(map[call[l].lba], call[l].lba)
  BY DEF map_lock, media, count, Goto, TypeOK, MapLockFree
<1>2. LocksInv'
  <2>1. call[l].lba \in Lbas /\ get_map_lock_num(call[l].lba) \in Lanes
    BY <1>1, CallFacts
  <2>2. ASSUME NEW k \in Lanes, k # l, pc'[k] \in Locked
        PROVE  /\ map_locks'[get_map_lock_num(call'[k].lba)] = k
               /\ entry'[k] = Resolve(map'[call'[k].lba], call'[k].lba)
    <3>1. pc[k] \in Locked /\ entry'[k] = entry[k] /\ call'[k] = call[k]
      BY <2>2, OthersKept
    <3>2. map_locks[get_map_lock_num(call[k].lba)] = k /\ k # nfree
      BY <3>1, LaneFacts DEF LocksInv
    <3>3. get_map_lock_num(call[k].lba) \in Lanes
      BY <3>1, CallFacts DEF Locked
    <3> QED
      BY <1>1, <2>1, <3>1, <3>2, <3>3 DEF TypeOK, LocksInv
  <2>3. map_locks'[get_map_lock_num(call[l].lba)] = l
    BY <1>1, <2>1 DEF TypeOK
  <2> QED
    BY <1>1, <2>2, <2>3 DEF LocksInv
<1>3. FlogInv'
  BY <1>1, FlogKept
<1>4. OwnersInv'
  <2>1. Live(l)' => Live(l) /\ pc[l] # "unlock"
    BY <1>1 DEF Live, Storing
  <2> QED
    BY <1>1, <2>1, LaneOwners
<1>5. ErrorInv'
  BY <1>1, OthersKept DEF ErrorInv, Failing
<1> QED
  BY <1>2, <1>3, <1>4, <1>5

LEMMA FirstHalfPreserves ==
    ASSUME TypeOK, CallsInv, LocksInv, FlogInv, OwnersInv, ErrorInv, NEW l \in Lanes, LaneStep(l), FlogFirstHalf(l)
    PROVE  LocksInv' /\ FlogInv' /\ OwnersInv' /\ ErrorInv'
<1>1. /\ UNCHANGED <<map, flogs, map_locks, flags, info_error, lost, call, entry>>
      /\ pc[l] = "flog" /\ pc'[l] = "flog2"
  BY DEF FlogFirstHalf, arena, count, Goto, TypeOK
<1>2. LocksInv'
  BY <1>1, LocksKept DEF Locked
<1>3. FlogInv'
  <2> DEFINE n == flogs[l].next
  <2>1. n \in 0..1 /\ 1 - n \in 0..1 /\ call[l].lba \in Lbas
    BY <1>1, FreeFacts, CallFacts
  <2>2. /\ \A k \in Lanes : k # l => flog'[k] = flog[k]
        /\ flog'[l][1 - n] = flog[l][1 - n]
        /\ flog'[l][n].seq = flog[l][n].seq /\ flog'[l][n].lba = call[l].lba /\ flog'[l][n].old_map = entry[l]
    <3>1. /\ \A k \in Lanes : k # l => flog'[k] = flog[k]
          /\ flog'[l][1 - n] = flog[l][1 - n]
          /\ flog'[l][n] = [lba |-> call[l].lba, old_map |-> entry[l],
                            new_map |-> flog[l][n].new_map, seq |-> flog[l][n].seq]
      BY <2>1, FirstHalf
    <3> QED
      BY <3>1, SMT
  <2>3. \A k \in Lanes : \A j \in 0..1 : flog'[k][j].seq = flog[k][j].seq
    <3>1. \A j \in 0..1 : j = n \/ j = 1 - n
      BY <2>1, SMT
    <3> QED
      BY <2>2, <3>1
  <2>4. \A k \in Lanes : \E j \in 0..1 : Follows(flog'[k][j].seq, flog'[k][1 - j].seq)
    <3> SUFFICES ASSUME NEW k \in Lanes PROVE \E j \in 0..1 : Follows(flog'[k][j].seq, flog'[k][1 - j].seq)
      OBVIOUS
    <3>1. PICK j \in 0..1 : Follows(flog[k][j].seq, flog[k][1 - j].seq)
      BY DEF FlogInv
    <3>2. 1 - j \in 0..1
      BY SMT
    <3>3. flog'[k][j].seq = flog[k][j].seq /\ flog'[k][1 - j].seq = flog[k][1 - j].seq
      BY <2>3, <3>2
    <3> QED
      BY <3>1, <3>3
  <2>5. \A k \in Lanes : k < recovered' =>
          /\ flog'[k][1 - flogs'[k].next] = flogs'[k].flog
          /\ Follows(flogs'[k].flog.seq, flog'[k][flogs'[k].next].seq)
    <3> SUFFICES ASSUME NEW k \in Lanes, k < recovered'
                 PROVE  /\ flog'[k][1 - flogs'[k].next] = flogs'[k].flog
                        /\ Follows(flogs'[k].flog.seq, flog'[k][flogs'[k].next].seq)
      OBVIOUS
    <3>1. /\ flog[k][1 - flogs[k].next] = flogs[k].flog
          /\ Follows(flogs[k].flog.seq, flog[k][flogs[k].next].seq)
      BY OthersKept, SMT DEF FlogInv
    <3>2. flog'[k][1 - flogs[k].next] = flog[k][1 - flogs[k].next]
      BY <2>2
    <3>3. flog'[k][flogs[k].next].seq = flog[k][flogs[k].next].seq
      BY <2>3, FreeFacts
    <3> QED
      BY <1>1, <3>1, <3>2, <3>3
  <2>6. \A k \in Lanes : pc'[k] = "flog2" =>
          flog'[k][flogs'[k].next].lba = call'[k].lba /\ flog'[k][flogs'[k].next].old_map = entry'[k]
    BY <1>1, <2>2, OthersKept, SMT DEF FlogInv
  <2>7. \A k \in Lanes : pc'[k] = "unlock" =>
          flogs'[k].flog.lba = call'[k].lba /\ flogs'[k].flog.old_map = entry'[k]
    BY <1>1, OthersKept DEF FlogInv
  <2> QED
    BY <2>4, <2>5, <2>6, <2>7 DEF FlogInv
<1>4. OwnersInv'
  <2>1. Live(l)' => Live(l) /\ pc[l] # "unlock"
    BY <1>1 DEF Live, Storing
  <2> QED
    BY <1>1, <2>1, LaneOwners
<1>5. ErrorInv'
  BY <1>1, OthersKept DEF ErrorInv, Failing
<1> QED
  BY <1>2, <1>3, <1>4, <1>5

\* The entry is switched: the free block and the block of x change places.
LEMMA SwitchOwners ==
    ASSUME TypeOK, CallsInv, LocksInv, FlogInv, OwnersInv, NEW l \in Lanes, LaneStep(l),
           UNCHANGED <<map, flags>>, pc[l] = "flog2", pc'[l] = "unlock", NEW x \in Lbas, x = call[l].lba,
           \A k \in Lanes : k # l => flogs'[k] = flogs[k],
           flogs'[l].flog.lba = x, flogs'[l].flog.old_map = Resolve(map[x], x), flogs'[l].flog.new_map = FreeEntry(l)
    PROVE  OwnersInv'
<1>1. \A y \in Lbas : InMap(y)' = InMap(y)
  BY DEF InMap
<1>2. \A k \in Lanes : Live(k)' <=> Live(k)
  BY OthersKept DEF Live, Storing
<1>3. \A k \in Lanes : /\ InForce(k) <=> pc[k] = "unlock"
                       /\ InForce(k)' <=> pc'[k] = "unlock"
                       /\ CurrentFlog(k) = flogs[k].flog /\ CurrentFlog(k)' = flogs'[k].flog
  BY OthersKept, Running, RunningNext
<1>4. \A k \in Lanes : k # l => /\ InForce(k)' <=> InForce(k)
                               /\ CurrentFlog(k)' = CurrentFlog(k)
                               /\ Free(k)' = Free(k) /\ New(k)' = New(k)
  BY <1>3, OthersKept, SMT DEF Free, New
<1>5. Live(l) /\ ~InForce(l)
  BY <1>3 DEF Live, Storing
<1>6. Free(l)' = InMap(x) /\ New(l)' = Free(l) /\ CurrentFlog(l)'.new_map.flag = "normal"
  BY <1>3, FreeFacts DEF Free, New, InMap
<1>7. \A k \in Lanes : Live(k) /\ k # l => Free(k) # InMap(x)
  <2> SUFFICES ASSUME NEW k \in Lanes, Live(k), k # l, Free(k) = InMap(x) PROVE FALSE
    OBVIOUS
  <2>1. InForce(k) /\ CurrentFlog(k).lba = x
    BY DEF OwnersInv
  <2>2. pc[k] = "unlock" /\ call[k].lba = x
    BY <1>3, <2>1 DEF FlogInv
  <2> QED
    BY <2>2, LockExclusive DEF Locked
<1>8. \A y \in Lbas : Free(l) # InMap(y)
  BY <1>5 DEF OwnersInv
<1>9. \A k \in Lanes : Live(k) /\ k # l => Free(l) # Free(k)
  BY <1>5 DEF OwnersInv
<1>10. \A k \in Lanes : InForce(k) => New(k) # Free(l) /\ New(k) # InMap(x)
  BY <1>5 DEF OwnersInv
<1>a. \A y, z \in Lbas : y # z => InMap(y)' # InMap(z)'
  BY <1>1 DEF OwnersInv
<1>b. \A j, k \in Lanes : Live(j)' /\ Live(k)' /\ j # k => Free(j)' # Free(k)'
  BY <1>2, <1>4, <1>6, <1>7, SMT DEF OwnersInv
<1>c. \A k \in Lanes, y \in Lbas : Live(k)' /\ Free(k)' = InMap(y)' => InForce(k)' /\ CurrentFlog(k)'.lba = y
  <2> SUFFICES ASSUME NEW k \in Lanes, NEW y \in Lbas, Live(k)', Free(k)' = InMap(y)'
               PROVE  InForce(k)' /\ CurrentFlog(k)'.lba = y
    OBVIOUS
  <2>1. CASE k = l
    <3>1. InMap(x) = InMap(y)
      BY <1>1, <1>6, <2>1
    <3>2. y = x
      BY <3>1 DEF OwnersInv
    <3> QED
      BY <1>3, <2>1, <3>2
  <2>2. CASE k # l
    BY <1>1, <1>2, <1>4, <2>2, SMT DEF OwnersInv
  <2> QED
    BY <2>1, <2>2
<1>d. ASSUME NEW j \in Lanes, InForce(j)'
      PROVE  /\ Resolve(map'[CurrentFlog(j)'.lba], CurrentFlog(j)'.lba) = CurrentFlog(j)'.old_map
             /\ CurrentFlog(j)'.new_map.flag = "normal"
             /\ \A y \in Lbas : New(j)' # InMap(y)'
             /\ \A k \in Lanes : Live(k)' => New(j)' # Free(k)'
             /\ \A k \in Lanes : InForce(k)' /\ j # k => New(j)' # New(k)'
  <2>1. CASE j = l
    <3>1. Resolve(map'[CurrentFlog(j)'.lba], CurrentFlog(j)'.lba) = CurrentFlog(j)'.old_map
      BY <1>3, <2>1
    <3>2. \A k \in Lanes : Live(k)' => New(j)' # Free(k)'
      BY <1>2, <1>4, <1>6, <1>8, <1>9, <2>1
    <3>3. \A k \in Lanes : InForce(k)' /\ j # k => New(j)' # New(k)'
      BY <1>4, <1>6, <1>10, <2>1
    <3> QED
      BY <1>1, <1>6, <1>8, <2>1, <3>1, <3>2, <3>3
  <2>2. CASE j # l
    <3>1. InForce(j)
      BY <1>d, <1>4, <2>2
    <3>2. Resolve(map'[CurrentFlog(j)'.lba], CurrentFlog(j)'.lba) = CurrentFlog(j)'.old_map
      BY <1>4, <2>2, <3>1 DEF OwnersInv
    <3>3. CurrentFlog(j)'.new_map.flag = "normal" /\ \A y \in Lbas : New(j)' # InMap(y)'
      BY <1>1, <1>4, <2>2, <3>1, SMT DEF OwnersInv
    <3>4. \A k \in Lanes : Live(k)' => New(j)' # Free(k)'
      BY <1>2, <1>4, <1>6, <1>10, <2>2, <3>1, SMT DEF OwnersInv
    <3>5. \A k \in Lanes : InForce(k)' /\ j # k => New(j)' # New(k)'
      BY <1>4, <1>6, <1>10, <2>2, <3>1, SMT DEF OwnersInv
    <3> QED
      BY <3>2, <3>3, <3>4, <3>5
  <2> QED
    BY <2>1, <2>2
<1> QED
  BY <1>a, <1>b, <1>c, <1>d DEF OwnersInv

LEMMA SecondHalfPreserves ==
    ASSUME TypeOK, CallsInv, LocksInv, FlogInv, OwnersInv, ErrorInv, NEW l \in Lanes, LaneStep(l), FlogSecondHalf(l)
    PROVE  LocksInv' /\ FlogInv' /\ OwnersInv' /\ ErrorInv'
<1>1. /\ UNCHANGED <<map, map_locks, flags, info_error, lost, call, entry>>
      /\ pc[l] = "flog2" /\ pc'[l] = "unlock"
  BY DEF FlogSecondHalf, count, Goto, TypeOK
<1> DEFINE n == flogs[l].next
           seq == NSEQ(flogs[l].flog.seq)
<1>2. n \in 0..1 /\ 1 - n \in 0..1 /\ 1 - (1 - n) = n /\ call[l].lba \in Lbas
  BY <1>1, FreeFacts, CallFacts, SMT
<1>3. /\ \A k \in Lanes : k # l => flog'[k] = flog[k] /\ flogs'[k] = flogs[k]
      /\ flog'[l][1 - n] = flog[l][1 - n]
      /\ flog'[l][n] = [lba |-> flog[l][n].lba, old_map |-> flog[l][n].old_map,
                        new_map |-> FreeEntry(l), seq |-> seq]
      /\ flogs'[l].next = 1 - n
      /\ flogs'[l].flog = [lba |-> call[l].lba, old_map |-> entry[l], new_map |-> FreeEntry(l), seq |-> seq]
  BY <1>2, SecondHalf
<1>4. flog[l][n].lba = call[l].lba /\ flog[l][n].old_map = entry[l]
  BY <1>1 DEF FlogInv
<1>5. entry[l] = Resolve(map[call[l].lba], call[l].lba)
  BY <1>1 DEF LocksInv, Locked
<1>6. LocksInv'
  BY <1>1, LocksKept DEF Locked
<1>7. FlogInv'
  <2>1. flog'[l][n] = flogs'[l].flog
    BY <1>3, <1>4
  <2>2. flog'[l][1 - n] = flogs[l].flog
    BY <1>1, <1>3, LaneFacts, OthersKept DEF FlogInv
  <2>3. Follows(flogs'[l].flog.seq, flogs[l].flog.seq)
    <3>1. flogs[l].flog.seq \in 1..3
      BY LaneFacts, OthersKept DEF FlogInv, Follows
    <3>2. seq \in 1..3 /\ flogs'[l].flog.seq = seq
      BY <1>3, <3>1, SMT DEF NSEQ
    <3> QED
      BY <3>2 DEF Follows
  <2>4. \A k \in Lanes : \E j \in 0..1 : Follows(flog'[k][j].seq, flog'[k][1 - j].seq)
    <3>1. Follows(flog'[l][n].seq, flog'[l][1 - n].seq)
      BY <2>1, <2>2, <2>3
    <3> QED
      BY <1>2, <1>3, <3>1 DEF FlogInv
  <2>5. \A k \in Lanes : k < recovered' =>
          /\ flog'[k][1 - flogs'[k].next] = flogs'[k].flog
          /\ Follows(flogs'[k].flog.seq, flog'[k][flogs'[k].next].seq)
    <3>1. /\ flog'[l][1 - flogs'[l].next] = flogs'[l].flog
          /\ Follows(flogs'[l].flog.seq, flog'[l][flogs'[l].next].seq)
      BY <1>2, <1>3, <2>1, <2>2, <2>3, SMT
    <3>2. ASSUME NEW k \in Lanes, k < recovered', k # l
          PROVE  /\ flog'[k][1 - flogs'[k].next] = flogs'[k].flog
                 /\ Follows(flogs'[k].flog.seq, flog'[k][flogs'[k].next].seq)
      <4>1. k < recovered /\ flog'[k] = flog[k] /\ flogs'[k] = flogs[k]
        BY <1>3, <3>2, OthersKept
      <4> QED
        BY <4>1 DEF FlogInv
    <3> QED
      BY <3>1, <3>2
  <2>6. ASSUME NEW k \in Lanes, pc'[k] = "flog2"
        PROVE  flog'[k][flogs'[k].next].lba = call'[k].lba /\ flog'[k][flogs'[k].next].old_map = entry'[k]
    <3>1. pc[k] = "flog2" /\ flog'[k] = flog[k] /\ flogs'[k] = flogs[k] /\ call'[k] = call[k] /\ entry'[k] = entry[k]
      BY <1>1, <1>3, <2>6, OthersKept
    <3> QED
      BY <3>1 DEF FlogInv
  <2>7. ASSUME NEW k \in Lanes, pc'[k] = "unlock"
        PROVE  flogs'[k].flog.lba = call'[k].lba /\ flogs'[k].flog.old_map = entry'[k]
    <3>1. CASE k = l
      BY <1>1, <1>3, <3>1, SMT
    <3>2. CASE k # l
      <4>1. pc[k] = "unlock" /\ flogs'[k] = flogs[k] /\ call'[k] = call[k] /\ entry'[k] = entry[k]
        BY <1>1, <1>3, <2>7, <3>2, OthersKept
      <4> QED
        BY <4>1 DEF FlogInv
    <3> QED
      BY <3>1, <3>2
  <2> QED
    BY <2>4, <2>5, <2>6, <2>7 DEF FlogInv
<1>8. OwnersInv'
  <2>1. PICK x \in Lbas : x = call[l].lba
    BY <1>2
  <2>2. flogs'[l].flog.lba = x /\ flogs'[l].flog.old_map = Resolve(map[x], x) /\ flogs'[l].flog.new_map = FreeEntry(l)
    BY <1>3, <1>5, <2>1, SMT
  <2> QED
    BY <1>1, <1>3, <2>1, <2>2, SwitchOwners
<1>9. ErrorInv'
  BY <1>1, OthersKept DEF ErrorInv, Failing
<1> QED
  BY <1>6, <1>7, <1>8, <1>9

\* The map entry is written and the lock given back.
LEMMA UnlockPreserves ==
    ASSUME TypeOK, CallsInv, LocksInv, FlogInv, OwnersInv, ErrorInv, NEW l \in Lanes, LaneStep(l), map_unlock(l)
    PROVE  LocksInv' /\ FlogInv' /\ OwnersInv' /\ ErrorInv'
<1>1. /\ UNCHANGED <<flog, flogs, flags, info_error, lost, call>>
      /\ pc[l] = "unlock" /\ pc'[l] = "ret" /\ map_locks' = Unlocked(l)
      /\ map' = [map EXCEPT ![call[l].lba] = flogs[l].flog.new_map]
  BY DEF map_unlock, count, Finish, Goto, TypeOK
<1>2. LocksInv'
  <2>1. \A y \in Lbas : y # call[l].lba => map'[y] = map[y]
    BY <1>1 DEF TypeOK
  <2> QED
    BY <1>1, <2>1, LocksKept DEF Locked
<1>3. FlogInv'
  BY <1>1, FlogKept
<1>4. OwnersInv'
  <2>1. \A k \in Lanes : /\ InForce(k) <=> pc[k] = "unlock"
                         /\ InForce(k)' <=> pc'[k] = "unlock"
                         /\ CurrentFlog(k) = flogs[k].flog /\ CurrentFlog(k)' = flogs[k].flog
    BY <1>1, OthersKept, Running, RunningNext
  <2>2. \A k \in Lanes : CurrentFlog(k).lba \in Lbas
    BY <2>1, FreeFacts DEF Flog
  <2>3. \A k \in Lanes : (InForce(k) => Live(k)) /\ (Live(k)' => Live(k)) /\ (k # l => (InForce(k)' <=> InForce(k)))
    BY <1>1, <2>1, OthersKept DEF Live, Storing
  <2>4. map' = [map EXCEPT ![CurrentFlog(l).lba] = CurrentFlog(l).new_map]
    BY <1>1, <2>1 DEF FlogInv
  <2> QED
    BY <1>1, <2>1, <2>2, <2>3, <2>4, OwnersUpdate
<1>5. ErrorInv'
  BY <1>1, OthersKept DEF ErrorInv, Failing
<1> QED
  BY <1>2, <1>3, <1>4, <1>5

\* Flags of a map entry change, not its block.
LEMMA SetfPreserves ==
    ASSUME TypeOK, CallsInv, LocksInv, FlogInv, OwnersInv, ErrorInv, NEW l \in Lanes, LaneStep(l), map_entry_setf(l)
    PROVE  LocksInv' /\ FlogInv' /\ OwnersInv' /\ ErrorInv'
<1>1. /\ UNCHANGED <<flog, flogs, flags, info_error, lost, call>>
      /\ pc[l] = "setf" /\ pc'[l] = "ret" /\ map_locks' = Unlocked(l)
  BY DEF map_entry_setf, count, Finish, Goto, TypeOK
<1>2. PICK x \in Lbas : x = call[l].lba
  BY <1>1, CallFacts
<1>3. /\ \A y \in Lbas : y # x => map'[y] = map[y]
      /\ map'[x] = map[x] \/ (map'[x].flag \in {"zero", "error"} /\ map'[x].lba = entry[l].lba)
  BY <1>2 DEF map_entry_setf, TypeOK
<1>4. entry[l] = Resolve(map[x], x)
  BY <1>1, <1>2 DEF LocksInv, Locked
<1>5. LocksInv'
  BY <1>1, <1>2, <1>3, LocksKept DEF Locked
<1>6. FlogInv'
  BY <1>1, FlogKept
<1>7. OwnersInv'
  <2>1. \A y \in Lbas : InMap(y)' = InMap(y)
    BY <1>3, <1>4 DEF InMap, Resolve
  <2>2. \A k \in Lanes : /\ InForce(k) <=> pc[k] = "unlock"
                         /\ InForce(k)' <=> pc'[k] = "unlock"
                         /\ CurrentFlog(k) = flogs[k].flog /\ CurrentFlog(k)' = flogs[k].flog
    BY <1>1, OthersKept, Running, RunningNext
  <2>3. \A k \in Lanes : /\ (InForce(k)' <=> InForce(k)) /\ (Live(k)' => Live(k))
                         /\ Free(k)' = Free(k) /\ New(k)' = New(k)
    BY <1>1, <2>2, OthersKept DEF Live, Storing, Free, New
  <2>4. ASSUME NEW k \in Lanes, InForce(k)
        PROVE  Resolve(map'[CurrentFlog(k).lba], CurrentFlog(k).lba) = CurrentFlog(k).old_map
    <3>1. pc[k] = "unlock" /\ CurrentFlog(k).lba = call[k].lba /\ call[k].lba \in Lbas
      BY <2>2, <2>4, CallFacts, SMT DEF FlogInv
    <3>2. CurrentFlog(k).lba # x
      BY <1>1, <1>2, <3>1, LockExclusive DEF Locked
    <3> QED
      BY <1>3, <2>4, <3>1, <3>2 DEF OwnersInv
  <2> QED
    BY <2>1, <2>2, <2>3, <2>4, SMT DEF OwnersInv
<1>8. ErrorInv'
  BY <1>1, OthersKept DEF ErrorInv, Failing
<1> QED
  BY <1>5, <1>6, <1>7, <1>8

LEMMA SetErrorPreserves ==
    ASSUME TypeOK, CallsInv, LocksInv, FlogInv, OwnersInv, ErrorInv, NEW l \in Lanes, LaneStep(l), set_arena_error(l)
    PROVE  LocksInv' /\ FlogInv' /\ OwnersInv' /\ ErrorInv'
<1>1. /\ UNCHANGED <<map, flog, flogs, map_locks, lost>> /\ pc[l] \in Failing /\ pc'[l] \in {"info", "ret"}
      /\ flags => flags'
      /\ pc'[l] = "info" => flags'
      /\ pc'[l] = "ret" => flags' = flags /\ pc[l] = "info"
  BY SMT DEF set_arena_error, Failing, media, arena, count, Finish, Goto, TypeOK, ErrorFlag
<1>2. flags'
  BY <1>1 DEF ErrorInv
<1>3. LocksInv'
  BY <1>1, LocksKept DEF Locked
<1>4. FlogInv'
  BY <1>1, FlogKept
<1>5. OwnersInv'
  <2>1. ~Live(l)'
    BY <1>1, <1>2 DEF Live, Storing
  <2> QED
    BY <1>1, <2>1, LaneOwners
<1>6. ErrorInv'
  BY <1>1, <1>2, OthersKept DEF ErrorInv
<1> QED
  BY <1>3, <1>4, <1>5, <1>6

\* A callback fails under the lock or while the error is recorded.
LEMMA FaultPreserves ==
    ASSUME TypeOK, CallsInv, LocksInv, FlogInv, OwnersInv, ErrorInv, NEW l \in Lanes, LaneStep(l), IoError(l),
           pc[l] \in Locked \cup Failing
    PROVE  LocksInv' /\ FlogInv' /\ OwnersInv' /\ ErrorInv'
<1>1. /\ UNCHANGED <<map, flog, flogs, flags, info_error>>
      /\ pc[l] = "unlock" => pc'[l] = "seterror" /\ map_locks' = Unlocked(l) /\ lost' # "none"
                             /\ (lost = "none" \/ lost' = lost)
      /\ pc[l] # "unlock" => pc'[l] = "ret" /\ lost' = lost
      /\ pc[l] \in {"flog", "flog2", "setf"} => map_locks' = Unlocked(l)
      /\ pc[l] \in Failing => pc[l] = "info" /\ map_locks' = map_locks
  BY DEF IoError, Locked, Failing, media, Finish, Goto, TypeOK
<1>2. LocksInv'
  BY <1>1, LocksKept DEF Locked
<1>3. FlogInv'
  BY <1>1, FlogKept DEF Locked, Failing
<1>4. OwnersInv'
  <2>1. Live(l)' => Live(l) /\ pc[l] # "unlock"
    BY <1>1 DEF Live, Storing, Failing, Locked
  <2> QED
    BY <1>1, <2>1, LaneOwners
<1>5. ErrorInv'
  BY <1>1, OthersKept DEF ErrorInv, Failing, Locked
<1> QED
  BY <1>2, <1>3, <1>4, <1>5
-----------------------------------------------------------------------------
\* A crash and the recovery.

LEMMA CurrentFacts ==
    ASSUME TypeOK, FlogInv, NEW l \in Lanes
    PROVE  /\ CurrentFlog(l) \in Flog /\ CurrentFlog(l).lba \in Lbas
           /\ CurrentFlog(l).old_map \in Entry /\ CurrentFlog(l).new_map \in Entry
           /\ Free(l) \in Blocks /\ New(l) \in Blocks
<1>1. CurrentFlog(l) \in Flog
  <2>1. PICK k \in 0..1 : Follows(flog[l][k].seq, flog[l][1 - k].seq)
    BY DEF FlogInv
  <2>2. flog[l] \in [0..1 -> Flog] /\ flogs[l].flog \in Flog
    BY FreeFacts
  <2>3. btt_flog_get_valid(flog[l]) = k
    BY <2>1, <2>2, ValidIndex
  <2> QED
    BY <2>2, <2>3 DEF CurrentFlog
<1>2. CurrentFlog(l).lba \in Lbas /\ CurrentFlog(l).old_map \in Entry /\ CurrentFlog(l).new_map \in Entry
  BY <1>1 DEF Flog
<1> QED
  BY <1>1, <1>2, EntryFacts DEF Free, New

\* The flog entry in memory is the current one on the media.
LEMMA CrashFlogs ==
    ASSUME TypeOK, CallsInv, FlogInv, Crash, NEW l \in Lanes
    PROVE  CurrentFlog(l)' = CurrentFlog(l)
<1>1. flog'[l] \in [0..1 -> Flog] /\ flog[l] \in [0..1 -> Flog]
  BY CrashedPairs DEF TypeOK
<1>2. CurrentFlog(l)' = flog'[l][btt_flog_get_valid(flog'[l])]
  BY LaneFacts, SMT DEF Crash, CurrentFlog
<1>3. CASE l < recovered
  <2> DEFINE k == 1 - flogs[l].next
  <2>1. k \in 0..1 /\ k # flogs[l].next /\ 1 - k = flogs[l].next /\ 1 - k \in 0..1
    BY FreeFacts, SMT
  <2>2. flog'[l][k] = flogs[l].flog
    BY <1>3, <2>1, CrashedPairs DEF FlogInv
  <2>3. flog'[l][1 - k].seq = flog[l][flogs[l].next].seq
    BY <2>1, CrashedPairs
  <2>4. Follows(flog'[l][k].seq, flog'[l][1 - k].seq)
    BY <1>3, <2>2, <2>3 DEF FlogInv
  <2> HIDE DEF k
  <2>5. btt_flog_get_valid(flog'[l]) = k
    BY <1>1, <2>1, <2>4, ValidIndex
  <2> QED
    BY <1>2, <1>3, <2>2, <2>5 DEF CurrentFlog
<1>4. CASE ~(l < recovered)
  <2>1. recovered < nfree
    BY <1>4, LaneFacts, SMT DEF TypeOK
  <2>2. \A k \in 0..1 : flog'[l][k] = flog[l][k]
    BY <2>1, CrashedPairs
  <2>3. flog'[l] = flog[l]
    BY <1>1, <2>2, SMT
  <2> QED
    BY <1>2, <1>4, <2>3 DEF CurrentFlog
<1> QED
  BY <1>3, <1>4

\* After a crash the updates in force are those that read_flogs will complete.
LEMMA CrashOwners ==
    ASSUME TypeOK, CallsInv, FlogInv, OwnersInv, ErrorInv, Crash, lost' # "crashed", NEW l \in Lanes
    PROVE  CurrentFlog(l)' = CurrentFlog(l) /\ Live(l) /\ (InForce(l)' <=> InForce(l))
<1>1. map' = map /\ recovered' = 0
  BY DEF Crash
<1>2. lost = "none"
  BY DEF Crash, TypeOK
<1>3. CurrentFlog(l)' = CurrentFlog(l)
  BY CrashFlogs
<1>4. Live(l)
  BY <1>2 DEF Live, Failing, ErrorInv
<1>5. InForce(l)' <=> Incomplete(CurrentFlog(l), map)
  BY <1>1, <1>3, LaneFacts, SMT DEF InForce, Incomplete
<1>6. PICK x \in Lbas : x = CurrentFlog(l).lba
  BY CurrentFacts
<1>7. InForce(l) => Incomplete(CurrentFlog(l), map)
  BY <1>6 DEF OwnersInv, Incomplete, InMap, New
<1>8. Incomplete(CurrentFlog(l), map) => InForce(l)
  <2>1. Incomplete(CurrentFlog(l), map) => Free(l) = InMap(x)
    BY <1>6 DEF Incomplete, Free, InMap
  <2> QED
    BY <1>4, <2>1 DEF OwnersInv
<1> QED
  BY <1>3, <1>4, <1>5, <1>7, <1>8

LEMMA CrashPreserves ==
    ASSUME TypeOK, CallsInv, LocksInv, FlogInv, OwnersInv, ErrorInv, Crash, lost' # "crashed"
    PROVE  LocksInv' /\ FlogInv' /\ OwnersInv' /\ ErrorInv'
<1>1. /\ map' = map /\ flags' = info_error /\ recovered' = 0 /\ pc' = [l \in Lanes |-> "idle"]
      /\ info_error' = info_error
  BY DEF Crash
<1>2. lost = "none" /\ lost' = "none"
  BY DEF Crash, TypeOK
<1>3. ~flags /\ ~info_error /\ ~flags' /\ \A l \in Lanes : pc[l] \notin Failing
  BY <1>1, <1>2 DEF ErrorInv
<1>4. LocksInv'
  BY <1>1 DEF LocksInv, Locked
<1>5. FlogInv'
  <2>1. \A l \in Lanes : \E k \in 0..1 : Follows(flog'[l][k].seq, flog'[l][1 - k].seq)
    <3> SUFFICES ASSUME NEW l \in Lanes PROVE \E k \in 0..1 : Follows(flog'[l][k].seq, flog'[l][1 - k].seq)
      OBVIOUS
    <3>1. PICK k \in 0..1 : Follows(flog[l][k].seq, flog[l][1 - k].seq)
      BY DEF FlogInv
    <3>2. 1 - k \in 0..1
      BY SMT
    <3>3. flog'[l][k].seq = flog[l][k].seq /\ flog'[l][1 - k].seq = flog[l][1 - k].seq
      BY <3>2, CrashedPairs
    <3> QED
      BY <3>1, <3>3
  <2>2. \A l \in Lanes : ~(l < recovered') /\ pc'[l] = "idle"
    BY <1>1, LaneFacts, SMT
  <2> QED
    BY <2>1, <2>2 DEF FlogInv
<1>6. OwnersInv'
  BY <1>1, OwnersKept, CrashOwners
<1>7. ErrorInv'
  BY <1>1, <1>2, <1>3 DEF ErrorInv, Failing
<1> QED
  BY <1>4, <1>5, <1>6, <1>7

\* One round of read_flogs: there is always a current entry, and its update is
\* completed if and only if it is in force.
LEMMA RecoveryFacts ==
    ASSUME TypeOK, CallsInv, FlogInv, ErrorInv, lost # "crashed", read_flog_pair
    PROVE  /\ recovered \in Lanes /\ recovered' = recovered + 1 /\ recovered < nfree
           /\ ~flags /\ ~flags' /\ lost = "none" /\ \A m \in Lanes : pc[m] = "idle"
           /\ UNCHANGED <<flog, data, info_error, rtt, map_locks, local, lost>>
           /\ flogs'[recovered].flog = CurrentFlog(recovered)
           /\ flog[recovered][1 - flogs'[recovered].next] = CurrentFlog(recovered)
           /\ Follows(CurrentFlog(recovered).seq, flog[recovered][flogs'[recovered].next].seq)
           /\ \A m \in Lanes : m # recovered => flogs'[m] = flogs[m]
           /\ map' = IF InForce(recovered) THEN [map EXCEPT ![CurrentFlog(recovered).lba] = CurrentFlog(recovered).new_map]
                     ELSE map
<1>1. /\ recovered \in Lanes /\ recovered' = recovered + 1 /\ recovered < nfree /\ recovered # nfree
      /\ UNCHANGED <<flog, data, info_error, rtt, map_locks, local, lost>>
  BY BTTAssumption, SMT DEF read_flog_pair, TypeOK, Lanes, count
<1>2. \A m \in Lanes : pc[m] = "idle"
  BY <1>1 DEF CallsInv
<1>3. lost = "none" /\ ~flags
  BY <1>1 DEF ErrorInv, TypeOK
<1>4. PICK l \in Lanes : l = recovered
  BY <1>1
<1>5. PICK k \in 0..1 : Follows(flog[l][k].seq, flog[l][1 - k].seq)
  BY DEF FlogInv
<1>6. btt_flog_get_valid(flog[l]) = k /\ k # 2
  BY <1>5, ValidIndex, SMT DEF TypeOK
<1>7. ~(l < recovered)
  <2>1. recovered \in Nat
    BY SMT DEF TypeOK
  <2> QED
    BY <1>4, <2>1, SMT
<1>8. CurrentFlog(l) = flog[l][k] /\ (InForce(l) <=> Incomplete(flog[l][k], map))
  BY <1>6, <1>7 DEF CurrentFlog, InForce
<1>9. /\ flogs' = [flogs EXCEPT ![l] = [flog |-> flog[l][k], next |-> 1 - k]]
      /\ map' = IF Incomplete(flog[l][k], map) THEN [map EXCEPT ![flog[l][k].lba] = flog[l][k].new_map] ELSE map
      /\ flags' = flags
  BY <1>4, <1>6 DEF read_flog_pair
<1>10. flogs'[l].flog = flog[l][k] /\ flogs'[l].next = 1 - k /\ \A m \in Lanes : m # l => flogs'[m] = flogs[m]
  BY <1>9 DEF TypeOK
<1>11. 1 - flogs'[l].next = k
  BY <1>10, SMT
<1>12. flog[l][1 - flogs'[l].next] = CurrentFlog(l) /\ Follows(CurrentFlog(l).seq, flog[l][flogs'[l].next].seq)
  BY <1>5, <1>8, <1>10, <1>11
<1>13. map' = IF InForce(l) THEN [map EXCEPT ![CurrentFlog(l).lba] = CurrentFlog(l).new_map] ELSE map
  BY <1>8, <1>9
<1>14. /\ flogs'[recovered].flog = CurrentFlog(recovered)
       /\ flog[recovered][1 - flogs'[recovered].next] = CurrentFlog(recovered)
       /\ Follows(CurrentFlog(recovered).seq, flog[recovered][flogs'[recovered].next].seq)
  BY <1>4, <1>8, <1>10, <1>12
<1>15. map' = IF InForce(recovered) THEN [map EXCEPT ![CurrentFlog(recovered).lba] = CurrentFlog(recovered).new_map]
              ELSE map
  BY <1>4, <1>13
<1>16. ~flags' /\ \A m \in Lanes : m # recovered => flogs'[m] = flogs[m]
  BY <1>3, <1>4, <1>9, <1>10
<1> QED
  BY <1>1, <1>2, <1>3, <1>14, <1>15, <1>16

LEMMA RecoveryOwners ==
    ASSUME TypeOK, CallsInv, FlogInv, OwnersInv, ErrorInv, lost # "crashed", read_flog_pair
    PROVE  OwnersInv' /\ \A m \in Lanes : CurrentFlog(m)' = CurrentFlog(m) /\ (InForce(m)' <=> InForce(m) /\ m # recovered)
<1>1. PICK l \in Lanes : l = recovered
  BY RecoveryFacts
<1>2. \A m \in Lanes : m < recovered' <=> m < recovered \/ m = l
  BY <1>1, RecoveryFacts, LaneFacts, SMT
<1>3. \A m \in Lanes : CurrentFlog(m)' = CurrentFlog(m)
  <2> SUFFICES ASSUME NEW m \in Lanes PROVE CurrentFlog(m)' = CurrentFlog(m)
    OBVIOUS
  <2>1. CASE m = l
    BY <1>1, <1>2, <2>1, RecoveryFacts DEF CurrentFlog
  <2>2. CASE m # l
    BY <1>1, <1>2, <2>2, RecoveryFacts DEF CurrentFlog
  <2> QED
    BY <2>1, <2>2
<1>4. \A m \in Lanes : pc[m] = "idle" /\ pc'[m] = "idle" /\ Live(m) /\ Live(m)'
  BY RecoveryFacts DEF Live, local
<1>5. \A m \in Lanes : m < recovered => ~InForce(m) /\ ~InForce(m)'
  BY <1>2, <1>4 DEF InForce
<1>6. ~InForce(l)'
  BY <1>2, <1>4 DEF InForce
<1>7. \A m \in Lanes : ~(m < recovered) => (InForce(m) <=> Incomplete(CurrentFlog(m), map))
  BY DEF InForce
<1>8. \A m \in Lanes : ~(m < recovered) /\ m # l => (InForce(m)' <=> Incomplete(CurrentFlog(m), map'))
  BY <1>2, <1>3 DEF InForce, Incomplete
<1>9. CASE InForce(l)
  <2>1. PICK x \in Lbas : x = CurrentFlog(l).lba
    BY CurrentFacts
  <2>2. map' = [map EXCEPT ![x] = CurrentFlog(l).new_map]
    BY <1>1, <1>9, <2>1, RecoveryFacts
  <2>3. map'[x] = CurrentFlog(l).new_map /\ \A y \in Lbas : y # x => map'[y] = map[y]
    BY <2>2 DEF TypeOK
  <2>4. ASSUME NEW m \in Lanes, m # l, ~(m < recovered)
        PROVE  Incomplete(CurrentFlog(m), map') <=> Incomplete(CurrentFlog(m), map)
    <3>1. PICK y \in Lbas : y = CurrentFlog(m).lba
      BY CurrentFacts
    <3>2. CASE y # x
      BY <2>3, <3>1, <3>2 DEF Incomplete
    <3>3. CASE y = x
      <4>1. ~Incomplete(CurrentFlog(m), map)
        <5>1. Incomplete(CurrentFlog(m), map) => Free(m) = InMap(x)
          BY <3>1, <3>3 DEF Incomplete, Free, InMap
        <5>2. Free(l) = InMap(x)
          BY <1>9, <2>1 DEF OwnersInv, Free, InMap
        <5> QED
          BY <1>4, <2>4, <5>1, <5>2, SMT DEF OwnersInv
      <4>2. ~Incomplete(CurrentFlog(m), map')
        <5>1. Resolve(map'[x], x) = CurrentFlog(l).new_map
          BY <1>9, <2>3 DEF OwnersInv, Resolve
        <5>2. Incomplete(CurrentFlog(m), map') => Free(m) = New(l)
          BY <3>1, <3>3, <5>1 DEF Incomplete, Free, New
        <5> QED
          BY <1>4, <1>9, <5>2 DEF OwnersInv
      <4> QED
        BY <4>1, <4>2
    <3> QED
      BY <3>2, <3>3
  <2>5. \A m \in Lanes : m # l => (InForce(m)' <=> InForce(m))
    BY <1>5, <1>7, <1>8, <2>4
  <2>6. \A m \in Lanes : CurrentFlog(m).lba \in Lbas
    BY CurrentFacts
  <2>7. OwnersInv'
    BY <1>3, <1>4, <1>6, <1>9, <2>1, <2>2, <2>5, <2>6, OwnersUpdate
  <2> QED
    BY <1>1, <1>3, <1>6, <1>9, <2>5, <2>7
<1>10. CASE ~InForce(l)
  <2>1. map' = map
    BY <1>1, <1>10, RecoveryFacts
  <2>2. \A m \in Lanes : InForce(m)' <=> InForce(m)
    BY <1>5, <1>6, <1>7, <1>8, <1>10, <2>1
  <2>3. OwnersInv'
    BY <1>3, <1>4, <2>1, <2>2, OwnersKept
  <2> QED
    BY <1>1, <1>3, <1>10, <2>2, <2>3
<1> QED
  BY <1>9, <1>10

LEMMA RecoveryPreserves ==
    ASSUME TypeOK, CallsInv, LocksInv, FlogInv, OwnersInv, ErrorInv, lost # "crashed", read_flog_pair
    PROVE  LocksInv' /\ FlogInv' /\ OwnersInv' /\ ErrorInv'
<1>1. \A m \in Lanes : pc'[m] = "idle" /\ pc[m] = "idle"
  BY RecoveryFacts DEF local
<1>2. LocksInv'
  BY <1>1 DEF LocksInv, Locked
<1>3. FlogInv'
  <2>1. PICK l \in Lanes : l = recovered
    BY RecoveryFacts
  <2>2. \A m \in Lanes : m < recovered' <=> m < recovered \/ m = l
    BY <2>1, RecoveryFacts, LaneFacts, SMT
  <2>3. \A m \in Lanes : m < recovered' =>
          /\ flog'[m][1 - flogs'[m].next] = flogs'[m].flog
          /\ Follows(flogs'[m].flog.seq, flog'[m][flogs'[m].next].seq)
    <3>1. \A m \in Lanes : m # l /\ m < recovered =>
            /\ flog'[m][1 - flogs'[m].next] = flogs'[m].flog
            /\ Follows(flogs'[m].flog.seq, flog'[m][flogs'[m].next].seq)
      BY <2>1, RecoveryFacts DEF FlogInv
    <3>2. /\ flog'[l][1 - flogs'[l].next] = flogs'[l].flog
          /\ Follows(flogs'[l].flog.seq, flog'[l][flogs'[l].next].seq)
      BY <2>1, RecoveryFacts
    <3> QED
      BY <2>2, <3>1, <3>2
  <2>4. flog' = flog
    BY RecoveryFacts
  <2> QED
    BY <1>1, <2>3, <2>4 DEF FlogInv
<1>4. ErrorInv'
  BY <1>1, RecoveryFacts, SMT DEF ErrorInv, Failing
<1> QED
  BY <1>2, <1>3, <1>4, RecoveryOwners
-----------------------------------------------------------------------------
\* What a step of lane l has done, by the place it leads to.
Arrives(l) ==
    /\ pc'[l] = "track" => entry'[l].flag = "normal"
    /\ pc'[l] = "recheck" => pc[l] = "track" /\ entry' = entry /\ rtt'[l] = entry[l]
    /\ pc'[l] = "copy" => /\ pc[l] = "recheck" /\ entry' = entry /\ rtt' = rtt
                          /\ map[call[l].lba] = entry[l]
    /\ pc'[l] = "scan" => \/ pc[l] = "flags" /\ scan'[l] = 0
                          \/ pc[l] = "scan" /\ ~BeingRead(l, scan[l]) /\ scan'[l] = scan[l] + 1
    /\ pc'[l] = "data" => pc[l] = "scan" /\ ~BeingRead(l, scan[l]) /\ scan[l] + 1 = nfree
    /\ pc'[l] = "data2" => pc[l] = "data"
    /\ pc'[l] = "lock" => \/ pc[l] = "data2" /\ call' = call
                               /\ data' = [data EXCEPT ![FreeEntry(l).lba] = call[l].new]
                          \/ pc[l] = "flags" /\ call' = call /\ call[l].new \notin Values
    /\ pc'[l] = "flog" => pc[l] = "lock" /\ call' = call
    /\ pc'[l] = "flog2" => pc[l] = "flog" /\ call' = call
    /\ pc'[l] = "unlock" => pc[l] = "flog2" /\ call' = call /\ FlogSecondHalf(l)
    /\ \/ data' = data
       \/ pc[l] \in {"data", "data2"} /\ \A b \in Blocks : b # FreeEntry(l).lba => data'[b] = data[b]
    /\ map' = map \/ map_unlock(l) \/ map_entry_setf(l)
    /\ flogs' = flogs \/ FlogSecondHalf(l)

LEMMA Arrivals ==
    ASSUME TypeOK, CallsInv, NEW l \in Lanes, LaneStep(l)
    PROVE  Arrives(l)
<1> USE DEF Arrives, media, arena, Goto
<1>0. l \in DOMAIN pc
  BY DEF TypeOK
<1>1. ASSUME NEW r, Finish(l, r) PROVE pc'[l] = "ret"
  BY <1>0, <1>1 DEF Finish
<1>2. ASSUME NEW e, ReadLoop(l, e) PROVE Arrives(l)
  <2>1. CASE \E r : Finish(l, r)
    BY <1>1, <1>2, <2>1 DEF ReadLoop
  <2>2. CASE e.flag = "normal" /\ Goto(l, "track") /\ entry' = [entry EXCEPT ![l] = e]
    BY <1>0, <1>2, <2>2 DEF ReadLoop, TypeOK
  <2> QED
    BY <1>2, <2>1, <2>2 DEF ReadLoop
<1>3. CASE Return(l)
  BY <1>0, <1>3 DEF Return
<1>4. CASE ReadMap(l)
  BY <1>2, <1>4 DEF ReadMap
<1>5. CASE TrackRead(l)
  BY <1>0, <1>5 DEF TrackRead, TypeOK
<1>6. CASE RecheckMap(l)
  <2>1. CASE ReadLoop(l, LatestEntry(l))
    BY <1>2, <2>1
  <2>2. CASE ~ReadLoop(l, LatestEntry(l))
    BY <1>0, <1>6, <2>2 DEF RecheckMap, LatestEntry
  <2> QED
    BY <2>1, <2>2
<1>7. CASE ReadData(l)
  BY <1>1, <1>7 DEF ReadData
<1>8. CASE CheckFlags(l)
  <2>1. scan[l] = 0
    BY <1>8 DEF CheckFlags, CallsInv
  <2> QED
    BY <1>0, <1>1, <1>8, <2>1 DEF CheckFlags
<1>9. CASE ScanRtt(l)
  BY <1>0, <1>9 DEF ScanRtt, TypeOK
<1>10. CASE WriteData(l)
  <2>b. data \in [Blocks -> Values \cup {NoData, Torn}]
    BY DEF TypeOK
  <2>0. CASE pc[l] = "data"
    <3>1. pc'[l] = "data2" /\ UNCHANGED <<map, flogs>> /\ data' = [data EXCEPT ![FreeEntry(l).lba] = Torn]
      BY <1>0, <1>10, <2>0 DEF WriteData
    <3> QED
      BY <2>0, <2>b, <3>1
  <2>1. CASE pc[l] = "data2"
    <3>1. /\ pc'[l] = "lock" /\ UNCHANGED <<map, flogs, call>>
          /\ data' = [data EXCEPT ![FreeEntry(l).lba] = call[l].new]
      BY <1>0, <1>10, <2>1 DEF WriteData
    <3> QED
      BY <2>1, <2>b, <3>1
  <2> QED
    BY <1>10, <2>0, <2>1 DEF WriteData
<1>11. CASE map_lock(l)
  BY <1>0, <1>11 DEF map_lock
<1>12. CASE FlogFirstHalf(l)
  BY <1>0, <1>12 DEF FlogFirstHalf
<1>13. CASE FlogSecondHalf(l)
  <2>1. pc[l] = "flog2" /\ pc'[l] = "unlock" /\ call' = call /\ data' = data /\ map' = map
    BY <1>0, <1>13 DEF FlogSecondHalf
  <2> QED
    BY <1>13, <2>1
<1>14. CASE map_unlock(l)
  <2>1. pc'[l] = "ret" /\ data' = data /\ flogs' = flogs
    BY <1>1, <1>14 DEF map_unlock
  <2> QED
    BY <1>14, <2>1
<1>15. CASE map_entry_setf(l)
  <2>1. pc'[l] = "ret" /\ data' = data /\ flogs' = flogs
    BY <1>1, <1>15 DEF map_entry_setf
  <2> QED
    BY <1>15, <2>1
<1>16. CASE set_arena_error(l)
  BY <1>0, <1>1, <1>16 DEF set_arena_error
<1>17. CASE IoError(l)
  BY <1>0, <1>1, <1>17 DEF IoError
<1>18. CASE \E c \in Calls : Start(l, c)
  BY <1>0, <1>18 DEF Start
<1> QED
  BY <1>3, <1>4, <1>5, <1>6, <1>7, <1>8, <1>9, <1>10, <1>11, <1>12, <1>13, <1>14, <1>15, <1>16, <1>17, <1>18
     DEF LaneStep, Step

\* The flog of a lane changes at its own second half of an update only.
LEMMA FlogsFrame ==
    ASSUME TypeOK, CallsInv, NEW l \in Lanes, LaneStep(l), NEW k \in Lanes, k # l \/ pc'[l] # "unlock"
    PROVE  flogs'[k] = flogs[k] /\ FreeEntry(k)' = FreeEntry(k)
<1>1. flogs' = flogs \/ FlogSecondHalf(l)
  BY Arrivals DEF Arrives
<1>2. ASSUME FlogSecondHalf(l), k # l PROVE flogs'[k] = flogs[k]
  BY <1>2 DEF FlogSecondHalf, TypeOK
<1>3. FlogSecondHalf(l) => pc'[l] = "unlock"
  BY DEF FlogSecondHalf, Goto, TypeOK
<1> QED
  BY <1>1, <1>2, <1>3 DEF FreeEntry

\* A lane in btt_write that has not switched its flog entry yet.
LEMMA WriterFacts ==
    ASSUME TypeOK, CallsInv, OwnersInv, NEW k \in Lanes, pc[k] \in {"scan", "data", "data2", "lock", "flog", "flog2"}
    PROVE  /\ Live(k) /\ FreeEntry(k).lba = Free(k) /\ recovered = nfree
           /\ \A x \in Lbas : FreeEntry(k).lba # InMap(x)
           /\ \A j \in Lanes : Live(j) /\ j # k => FreeEntry(k).lba # Free(j)
           /\ \A j \in Lanes : InForce(j) => FreeEntry(k).lba # New(j)
<1>1. Live(k)
  BY DEF Live, Storing
<1>2. recovered = nfree
  BY CallFacts
<1>3. FreeEntry(k).lba = Free(k) /\ ~InForce(k)
  BY <1>2, Running, FreeFacts DEF Free
<1> QED
  BY <1>1, <1>2, <1>3 DEF OwnersInv

LEMMA ReadersStep ==
    ASSUME TypeOK, CallsInv, OwnersInv, ReadersInv, NEW l \in Lanes, LaneStep(l)
    PROVE  ReadersInv'
<1>1. \A j \in Lanes : pc'[j] \in {"track", "recheck", "copy"} => entry'[j].flag = "normal"
  BY Arrivals, OthersKept, SMT DEF Arrives, ReadersInv
<1>2. \A j \in Lanes : pc'[j] \in {"recheck", "copy"} => rtt'[j] = entry'[j]
  BY Arrivals, OthersKept, SMT DEF Arrives, ReadersInv
<1>3. ASSUME NEW j \in Lanes, NEW k \in Lanes, pc'[j] = "copy",
             pc'[k] \in {"data", "data2"} \/ (pc'[k] = "scan" /\ j < scan'[k])
      PROVE  FreeEntry(k)'.lba # entry'[j].lba
  <2>1. FreeEntry(k)' = FreeEntry(k)
    BY <1>3, FlogsFrame
  <2>2. CASE j = l
    <3>1. entry'[l] = entry[l] /\ pc[l] = "recheck" /\ map[call[l].lba] = entry[l] /\ entry[l].flag = "normal"
      BY <1>3, <2>2, Arrivals DEF Arrives, ReadersInv
    <3>2. call[l].lba \in Lbas /\ InMap(call[l].lba) = entry[l].lba
      BY <3>1, CallFacts DEF InMap, Resolve
    <3>3. pc[k] \in {"scan", "data", "data2"}
      BY <1>3, <2>2, OthersKept
    <3> QED
      BY <2>1, <2>2, <3>1, <3>2, <3>3, WriterFacts
  <2>3. CASE j # l /\ k # l
    BY <1>3, <2>1, <2>3, OthersKept, SMT DEF ReadersInv
  <2>4. CASE j # l /\ k = l
    <3>1. pc[j] = "copy" /\ entry'[j] = entry[j]
      BY <1>3, <2>4, OthersKept
    <3>2. \/ pc[l] = "data"
          \/ pc[l] = "scan" /\ j < scan[l]
          \/ pc[l] = "scan" /\ j = scan[l] /\ ~BeingRead(l, j)
      <4>1. j \in Nat /\ scan[l] \in Nat /\ j < nfree
        BY LaneFacts DEF TypeOK
      <4>2. CASE pc'[l] = "data2"
        BY <4>2, Arrivals DEF Arrives
      <4>3. CASE pc'[l] = "data"
        <5>1. pc[l] = "scan" /\ ~BeingRead(l, scan[l]) /\ scan[l] + 1 = nfree
          BY <4>3, Arrivals DEF Arrives
        <5>2. j < scan[l] \/ j = scan[l]
          BY <4>1, <5>1, SMT
        <5> QED
          BY <5>1, <5>2
      <4>4. CASE pc'[l] = "scan" /\ j < scan'[l]
        <5>1. \/ pc[l] = "flags" /\ scan'[l] = 0
              \/ pc[l] = "scan" /\ ~BeingRead(l, scan[l]) /\ scan'[l] = scan[l] + 1
          BY <4>4, Arrivals DEF Arrives
        <5>2. scan'[l] = scan[l] + 1 => j < scan[l] \/ j = scan[l]
          BY <4>1, <4>4, SMT
        <5> QED
          BY <4>1, <4>4, <5>1, <5>2, SMT
      <4> QED
        BY <1>3, <2>4, <4>2, <4>3, <4>4
    <3>3. CASE pc[l] = "scan" /\ j = scan[l] /\ ~BeingRead(l, j)
      <4>1. rtt[j] = entry[j] /\ entry[j].flag = "normal" /\ entry[j] \in Entry
        BY <3>1 DEF ReadersInv, TypeOK
      <4>2. entry[j] # FreeEntry(l)
        BY <3>3, <4>1 DEF BeingRead
      <4>3. FreeEntry(l) \in Entry /\ FreeEntry(l).flag = "normal"
        BY FreeFacts
      <4> QED
        BY <2>1, <2>4, <3>1, <4>1, <4>2, <4>3, SMT DEF Entry
    <3> QED
      BY <2>1, <2>4, <3>1, <3>2, <3>3 DEF ReadersInv
  <2> QED
    BY <2>2, <2>3, <2>4
<1> QED
  BY <1>1, <1>2, <1>3 DEF ReadersInv

\* A write of the free block touches no block that counts.
LEMMA DataFrame ==
    ASSUME TypeOK, CallsInv, FlogInv, OwnersInv, ReadersInv, NEW l \in Lanes, LaneStep(l)
    PROVE  /\ \A x \in Lbas : data'[InMap(x)] = data[InMap(x)]
           /\ \A k \in Lanes : InForce(k) => data'[New(k)] = data[New(k)]
           /\ \A k \in Lanes : pc[k] = "copy" => data'[entry[k].lba] = data[entry[k].lba]
           /\ \A k \in Lanes : k # l /\ pc[k] \in {"lock", "flog", "flog2"} =>
                 data'[FreeEntry(k).lba] = data[FreeEntry(k).lba]
           /\ pc[l] \notin {"data", "data2"} => data' = data
<1>1. CASE data' = data
  BY <1>1
<1>2. CASE pc[l] \in {"data", "data2"} /\ \A b \in Blocks : b # FreeEntry(l).lba => data'[b] = data[b]
  <2>1. \A x \in Lbas : InMap(x) \in Blocks /\ InMap(x) # FreeEntry(l).lba
    BY <1>2, WriterFacts, EntryFacts DEF InMap, TypeOK
  <2>2. \A k \in Lanes : InForce(k) => New(k) \in Blocks /\ New(k) # FreeEntry(l).lba
    BY <1>2, WriterFacts, CurrentFacts
  <2>3. \A k \in Lanes : pc[k] = "copy" => entry[k].lba \in Blocks /\ entry[k].lba # FreeEntry(l).lba
    BY <1>2, EntryFacts, SMT DEF ReadersInv, TypeOK
  <2>4. \A k \in Lanes : k # l /\ pc[k] \in {"lock", "flog", "flog2"} =>
           FreeEntry(k).lba \in Blocks /\ FreeEntry(k).lba # FreeEntry(l).lba
    BY <1>2, WriterFacts, FreeFacts
  <2> QED
    BY <1>2, <2>1, <2>2, <2>3, <2>4
<1> QED
  BY <1>1, <1>2, Arrivals DEF Arrives

LEMMA DataStep ==
    ASSUME TypeOK, CallsInv, LocksInv, FlogInv, OwnersInv, ReadersInv, DataInv, NEW l \in Lanes, LaneStep(l)
    PROVE  DataInv'
<1>0. recovered = nfree /\ recovered' = nfree
  BY OthersKept
<1>1. \A x \in Lbas : map'[x].flag = "normal" => data'[map'[x].lba] \in Values
  <2> SUFFICES ASSUME NEW x \in Lbas, map'[x].flag = "normal" PROVE data'[map'[x].lba] \in Values
    OBVIOUS
  <2>1. CASE map'[x] = map[x]
    <3>1. InMap(x) = map[x].lba
      BY <2>1 DEF InMap, Resolve
    <3> QED
      BY <2>1, <3>1, DataFrame, SMT DEF DataInv
  <2>2. CASE map_unlock(l) /\ map'[x] # map[x]
    <3>1. pc[l] = "unlock" /\ x = call[l].lba /\ map'[x] = flogs[l].flog.new_map
      BY <2>2 DEF map_unlock, TypeOK
    <3>2. InForce(l) /\ New(l) = map'[x].lba
      BY <1>0, <3>1, Running DEF New
    <3> QED
      BY <3>2, DataFrame, SMT DEF DataInv
  <2>3. CASE map_entry_setf(l) /\ map'[x] # map[x]
    <3>1. map'[x].flag \in {"zero", "error"}
      BY <2>3 DEF map_entry_setf, TypeOK
    <3> QED
      BY <3>1
  <2> QED
    BY <2>1, <2>2, <2>3, Arrivals DEF Arrives
<1>2. \A k \in Lanes : k # l /\ pc[k] = "unlock" => New(k)' = New(k) /\ data'[New(k)] = data[New(k)] /\ InForce(k)
  <2> SUFFICES ASSUME NEW k \in Lanes, k # l, pc[k] = "unlock"
               PROVE  New(k)' = New(k) /\ data'[New(k)] = data[New(k)] /\ InForce(k)
    OBVIOUS
  <2>1. InForce(k) /\ CurrentFlog(k)' = CurrentFlog(k)
    BY <1>0, Running, RunningNext, FlogsFrame
  <2> QED
    BY <2>1, DataFrame DEF New
<1>3. pc'[l] = "unlock" => /\ pc[l] = "flog2" /\ call'[l] = call[l] /\ New(l)' = FreeEntry(l).lba
                          /\ data'[FreeEntry(l).lba] = call[l].new /\ call[l].new \in Values
  <2> SUFFICES ASSUME pc'[l] = "unlock"
               PROVE  /\ pc[l] = "flog2" /\ call'[l] = call[l] /\ New(l)' = FreeEntry(l).lba
                      /\ data'[FreeEntry(l).lba] = call[l].new /\ call[l].new \in Values
    OBVIOUS
  <2>1. pc[l] = "flog2" /\ call' = call /\ call[l].new \in Values
    BY Arrivals DEF Arrives, CallsInv, Storing
  <2>2. flogs'[l].flog = [lba |-> call[l].lba, old_map |-> entry[l], new_map |-> FreeEntry(l),
                          seq |-> NSEQ(flogs[l].flog.seq)]
    <3>1. FlogSecondHalf(l) /\ call[l].lba \in Lbas
      BY <2>1, Arrivals, CallFacts DEF Arrives
    <3> QED
      BY <3>1, SecondHalf
  <2>4. flogs'[l].flog.new_map = FreeEntry(l)
    BY <2>2, SMT
  <2>5. New(l)' = FreeEntry(l).lba
    BY <1>0, <2>4, RunningNext DEF New
  <2>6. data'[FreeEntry(l).lba] = call[l].new
    BY <2>1, DataFrame DEF DataInv
  <2> QED
    BY <2>1, <2>5, <2>6
<1>4. \A k \in Lanes : InForce(k)' => data'[New(k)'] \in Values
  BY <1>0, <1>2, <1>3, OthersKept, RunningNext, SMT DEF DataInv
<1>5. \A k \in Lanes : pc'[k] = "unlock" => data'[New(k)'] = call'[k].new
  BY <1>2, <1>3, OthersKept, SMT DEF DataInv
<1>6. \A k \in Lanes : pc'[k] = "copy" => data'[entry'[k].lba] \in Values
  <2> SUFFICES ASSUME NEW k \in Lanes, pc'[k] = "copy" PROVE data'[entry'[k].lba] \in Values
    OBVIOUS
  <2>1. CASE k = l
    <3>1. pc[l] = "recheck" /\ entry' = entry /\ map[call[l].lba] = entry[l] /\ entry[l].flag = "normal"
      BY <2>1, Arrivals DEF Arrives, ReadersInv
    <3>2. call[l].lba \in Lbas /\ data' = data
      BY <3>1, CallFacts, DataFrame
    <3> QED
      BY <2>1, <3>1, <3>2 DEF DataInv
  <2>2. CASE k # l
    BY <2>2, OthersKept, DataFrame, SMT DEF DataInv
  <2> QED
    BY <2>1, <2>2
<1>7. ASSUME NEW k \in Lanes, pc'[k] \in {"lock", "flog", "flog2"}, call'[k].new \in Values
      PROVE  data'[FreeEntry(k)'.lba] = call'[k].new
  <2>1. FreeEntry(k)' = FreeEntry(k)
    BY <1>7, FlogsFrame
  <2>2. CASE k = l
    <3>1. CASE pc[l] = "data2" /\ data' = [data EXCEPT ![FreeEntry(l).lba] = call[l].new] /\ call' = call
      BY <2>1, <2>2, <3>1, FreeFacts DEF TypeOK
    <3>2. CASE pc[l] \in {"lock", "flog"} /\ call' = call
      BY <1>7, <2>1, <2>2, <3>2, DataFrame DEF DataInv
    <3> QED
      BY <1>7, <2>2, <3>1, <3>2, Arrivals DEF Arrives
  <2>3. CASE k # l
    BY <1>7, <2>1, <2>3, OthersKept, DataFrame, SMT DEF DataInv
  <2> QED
    BY <2>2, <2>3
<1> QED
  BY <1>1, <1>4, <1>5, <1>6, <1>7 DEF DataInv
-----------------------------------------------------------------------------
LEMMA InitInv == Init => BTTInv
<1> SUFFICES ASSUME Init PROVE BTTInv
  OBVIOUS
<1>1. TypeOK /\ CallsInv
  BY InitTypes
<1>2. /\ recovered = nfree /\ ~flags /\ ~info_error /\ lost = "none"
      /\ \A l \in Lanes : /\ pc[l] = "idle" /\ flogs[l].flog = InitialFlog(l) /\ flogs[l].next = 1
                          /\ flog[l][0] = InitialFlog(l) /\ flog[l][1] = ZFlog
      /\ \A x \in Lbas : map[x] = Initial
  BY SMT DEF Init
<1>a. ZFlog.seq = 0 /\ \A l \in Lanes : InitialFlog(l).seq = 1 /\ InitialFlog(l).old_map.lba = nlba + l
  <2>1. ZFlog.seq = 0
    BY DEF ZFlog
  <2>2. ASSUME NEW l \in Lanes PROVE InitialFlog(l).seq = 1 /\ InitialFlog(l).old_map.lba = nlba + l
    <3> DEFINE free == [flag |-> "zero", lba |-> nlba + l]
    <3>1. InitialFlog(l) = [lba |-> l, old_map |-> free, new_map |-> free, seq |-> 1]
      BY DEF InitialFlog
    <3>2. free.lba = nlba + l
      OBVIOUS
    <3> HIDE DEF free
    <3> QED
      BY <3>1, <3>2, SMT
  <2> QED
    BY <2>1, <2>2
<1>3. LocksInv
  BY <1>2 DEF LocksInv, Locked
<1>4. FlogInv
  <2>1. \A l \in Lanes : Follows(flog[l][0].seq, flog[l][1].seq)
    <3>1. \A l \in Lanes : flog[l][0].seq = 1 /\ flog[l][1].seq = 0
      BY <1>2, <1>a
    <3> QED
      BY <3>1, SMT DEF Follows
  <2>2. \A l \in Lanes : /\ flog[l][1 - flogs[l].next] = flogs[l].flog
                         /\ Follows(flogs[l].flog.seq, flog[l][flogs[l].next].seq)
    BY <1>2, <2>1, SMT
  <2> QED
    BY <1>2, <2>1, <2>2, SMT DEF FlogInv
<1>5. OwnersInv
  <2>1. \A x \in Lbas : InMap(x) = x
    BY <1>2, SMT DEF InMap, Resolve, Initial, Normal
  <2>2. \A l \in Lanes : ~InForce(l) /\ Free(l) = nlba + l
    BY <1>2, <1>a, Running DEF Free
  <2>3. \A l \in Lanes, x \in Lbas : nlba + l # x
    BY LaneFacts, SMT DEF Lbas
  <2>4. \A l, k \in Lanes : l # k => nlba + l # nlba + k
    BY LaneFacts, SMT
  <2> QED
    BY <2>1, <2>2, <2>3, <2>4 DEF OwnersInv
<1>6. ErrorInv
  BY <1>2 DEF ErrorInv, Failing
<1>7. ReadersInv
  BY <1>2 DEF ReadersInv
<1>8. DataInv
  BY <1>2, Running, SMT DEF DataInv, Initial
<1> QED
  BY <1>1, <1>3, <1>4, <1>5, <1>6, <1>7, <1>8 DEF BTTInv

\* What a step of a lane preserves.
LEMMA LanePreserves ==
    ASSUME BTTInv, NEW l \in Lanes, LaneStep(l)
    PROVE  BTTInv'
<1>1. TypeOK /\ CallsInv /\ TypeOK' /\ CallsInv'
  BY NextTypes DEF BTTInv, LaneStep, Next
<1>2. lost = "crashed" => lost' = "crashed"
  BY DEF LaneStep, Step, Return, ReadMap, ReadLoop, TrackRead, RecheckMap, ReadData, CheckFlags, ScanRtt, WriteData,
         map_lock, FlogFirstHalf, FlogSecondHalf, map_unlock, map_entry_setf, set_arena_error, Start, IoError, count
<1> SUFFICES ASSUME lost' # "crashed" PROVE LocksInv' /\ FlogInv' /\ OwnersInv' /\ ErrorInv' /\ ReadersInv' /\ DataInv'
  BY <1>1 DEF BTTInv
<1>3. LocksInv /\ FlogInv /\ OwnersInv /\ ErrorInv /\ ReadersInv /\ DataInv
  BY <1>2 DEF BTTInv
<1>4. LocksInv' /\ FlogInv' /\ OwnersInv' /\ ErrorInv'
  <2>1. CASE Quiet(l)
    BY <1>1, <1>3, <2>1, QuietPreserves
  <2>2. CASE ~Quiet(l)
    <3>1. \/ map_lock(l) \/ FlogFirstHalf(l) \/ FlogSecondHalf(l) \/ map_unlock(l) \/ map_entry_setf(l)
          \/ set_arena_error(l)
          \/ IoError(l) /\ pc[l] \in Locked \cup Failing
      BY <1>1, <2>2, QuietSteps DEF LaneStep, Step
    <3> QED
      BY <1>1, <1>3, <3>1, LockPreserves, FirstHalfPreserves, SecondHalfPreserves, UnlockPreserves, SetfPreserves,
         SetErrorPreserves, FaultPreserves
  <2> QED
    BY <2>1, <2>2
<1> QED
  BY <1>1, <1>3, <1>4, ReadersStep, DataStep

LEMMA MediaPreserves ==
    ASSUME BTTInv, Crash \/ read_flog_pair
    PROVE  BTTInv'
<1>1. TypeOK /\ CallsInv /\ TypeOK' /\ CallsInv'
  BY NextTypes DEF BTTInv, Next
<1> SUFFICES ASSUME lost' # "crashed" PROVE LocksInv' /\ FlogInv' /\ OwnersInv' /\ ErrorInv' /\ ReadersInv' /\ DataInv'
  BY <1>1 DEF BTTInv
<1>2. lost # "crashed"
  BY DEF Crash, read_flog_pair, count
<1>3. LocksInv /\ FlogInv /\ OwnersInv /\ ErrorInv /\ ReadersInv /\ DataInv
  BY <1>2 DEF BTTInv
<1>4. LocksInv' /\ FlogInv' /\ OwnersInv' /\ ErrorInv'
  BY <1>1, <1>2, <1>3, CrashPreserves, RecoveryPreserves
<1>5. \A l \in Lanes : pc'[l] = "idle"
  BY <1>1, <1>2, <1>3, RecoveryFacts DEF Crash, local
<1>6. ReadersInv'
  BY <1>5 DEF ReadersInv
<1>7. \A l \in Lanes : InForce(l)' => InForce(l) /\ New(l)' = New(l)
  BY <1>1, <1>2, <1>3, CrashOwners, RecoveryOwners DEF New
<1>8. data' = data
  BY DEF Crash, read_flog_pair
<1>9. \A x \in Lbas : map'[x].flag = "normal" => data[map'[x].lba] \in Values
  <2>1. CASE Crash
    BY <1>3, <2>1 DEF Crash, DataInv
  <2>2. CASE read_flog_pair
    <3>1. PICK l \in Lanes : l = recovered
      BY <1>1, <1>2, <1>3, <2>2, RecoveryFacts
    <3>2. map' = IF InForce(l) THEN [map EXCEPT ![CurrentFlog(l).lba] = CurrentFlog(l).new_map] ELSE map
      BY <1>1, <1>2, <1>3, <2>2, <3>1, RecoveryFacts
    <3>3. CASE ~InForce(l)
      BY <1>3, <3>2, <3>3 DEF DataInv
    <3>4. CASE InForce(l)
      <4>1. data[CurrentFlog(l).new_map.lba] \in Values
        BY <1>3, <3>4 DEF DataInv, New
      <4>2. \A x \in Lbas : map'[x] = map[x] \/ map'[x] = CurrentFlog(l).new_map
        BY <1>1, <3>2, <3>4 DEF TypeOK
      <4> QED
        BY <1>3, <4>1, <4>2 DEF DataInv
    <3> QED
      BY <3>3, <3>4
  <2> QED
    BY <2>1, <2>2
<1>10. DataInv'
  BY <1>3, <1>5, <1>7, <1>8, <1>9 DEF DataInv
<1> QED
  BY <1>4, <1>6, <1>10

LEMMA NextPreserves == BTTInv /\ [Next]_vars => BTTInv'
<1> SUFFICES ASSUME BTTInv, [Next]_vars PROVE BTTInv'
  OBVIOUS
<1>1. CASE Next
  BY <1>1, LanePreserves, MediaPreserves DEF Next, LaneStep
<1>2. CASE UNCHANGED vars
  <2>1. UNCHANGED <<map, flog, data, info_error, flogs, rtt, map_locks, flags, recovered, pc, call, result, entry, scan, lost>>
    BY <1>2 DEF vars, media, arena, local, count
  <2>2. TypeOK' /\ CallsInv'
    BY <2>1 DEF BTTInv, TypeOK, CallsInv
  <2>3. LocksInv => LocksInv'
    BY <2>1 DEF LocksInv
  <2>4. FlogInv => FlogInv'
    BY <2>1 DEF FlogInv
  <2>5. \A l \in Lanes : CurrentFlog(l)' = CurrentFlog(l) /\ (InForce(l)' <=> InForce(l)) /\ (Live(l)' <=> Live(l))
                        /\ New(l)' = New(l) /\ FreeEntry(l)' = FreeEntry(l)
    BY <2>1 DEF CurrentFlog, InForce, Live, Incomplete, New, FreeEntry
  <2>6. OwnersInv => OwnersInv'
    BY <2>1, <2>5, OwnersKept
  <2>7. (ErrorInv => ErrorInv') /\ (ReadersInv => ReadersInv') /\ (DataInv => DataInv')
    BY <2>1, <2>5 DEF ErrorInv, ReadersInv, DataInv
  <2> QED
    BY <2>1, <2>2, <2>3, <2>4, <2>6, <2>7 DEF BTTInv
<1> QED
  BY <1>1, <1>2

LEMMA AlwaysInv == Spec => []BTTInv
  BY InitInv, NextPreserves, PTL DEF Spec

\* Where block x is: in the place an update in force will give it, or where the
\* map has it.
LEMMA MappedCases ==
    \A x \in Lbas :
        \/ \E l \in Lanes : InForce(l) /\ CurrentFlog(l).lba = x /\ MappedTo(x) = CurrentFlog(l).new_map
        \/ MappedTo(x) = map[x] /\ \A l \in Lanes : ~(InForce(l) /\ CurrentFlog(l).lba = x)
<1> SUFFICES ASSUME NEW x \in Lbas
             PROVE  \/ \E l \in Lanes : InForce(l) /\ CurrentFlog(l).lba = x /\ MappedTo(x) = CurrentFlog(l).new_map
                    \/ MappedTo(x) = map[x] /\ \A l \in Lanes : ~(InForce(l) /\ CurrentFlog(l).lba = x)
  OBVIOUS
<1> DEFINE c == CHOOSE l \in Lanes : InForce(l) /\ CurrentFlog(l).lba = x
<1>1. CASE \E l \in Lanes : InForce(l) /\ CurrentFlog(l).lba = x
  <2>1. c \in Lanes /\ InForce(c) /\ CurrentFlog(c).lba = x
    BY <1>1
  <2>2. MappedTo(x) = CurrentFlog(c).new_map
    BY <1>1 DEF MappedTo
  <2> HIDE DEF c
  <2> QED
    BY <2>1, <2>2
<1>2. CASE ~\E l \in Lanes : InForce(l) /\ CurrentFlog(l).lba = x
  BY <1>2 DEF MappedTo
<1> QED
  BY <1>1, <1>2

LEMMA InvOwned == BTTInv => BlocksOwned
<1> SUFFICES ASSUME BTTInv PROVE BlocksOwned
  OBVIOUS
<1>1. TypeOK
  BY DEF BTTInv
<1>2. ReadersUndisturbed
  BY DEF BTTInv, ReadersInv, ReadersUndisturbed
<1>3. ASSUME lost = "none"
      PROVE  check_arena([x \in Lbas |-> Resolve(MappedTo(x), x).lba], [l \in Lanes |-> CurrentFlog(l).old_map.lba])
  <2>1. OwnersInv /\ \A l \in Lanes : Live(l)
    BY <1>3 DEF BTTInv, ErrorInv, Live, Failing
  <2> DEFINE M(x) == Resolve(MappedTo(x), x).lba
  <2>2. ASSUME NEW x \in Lbas
        PROVE  \/ \E l \in Lanes : InForce(l) /\ CurrentFlog(l).lba = x /\ M(x) = New(l)
               \/ M(x) = InMap(x) /\ \A l \in Lanes : ~(InForce(l) /\ CurrentFlog(l).lba = x)
    BY <2>1, MappedCases DEF OwnersInv, New, InMap, Resolve
  <2> HIDE DEF M
  <2>3. \A x, y \in Lbas : x # y => M(x) # M(y)
    BY <2>1, <2>2, SMT DEF OwnersInv
  <2>4. \A l, k \in Lanes : l # k => Free(l) # Free(k)
    BY <2>1 DEF OwnersInv
  <2>5. \A x \in Lbas, l \in Lanes : M(x) # Free(l)
    BY <2>1, <2>2, SMT DEF OwnersInv
  <2> QED
    BY <2>3, <2>4, <2>5 DEF check_arena, M, Free
<1>4. lost = "entry" => flags \/ \E l \in Lanes : pc[l] = "seterror"
  BY DEF BTTInv, ErrorInv
<1>5. BlocksPartitioned
  BY <1>1, <1>3, <1>4 DEF BlocksPartitioned, TypeOK
<1> QED
  BY <1>1, <1>2, <1>5 DEF BlocksOwned

\* The arena of btt.c never loses a block or gives it two owners, and a read
\* that has verified its map entry is never disturbed by a write: for any
\* number of lanes, blocks, calls, failed callbacks and crashes.
THEOREM BlocksAlwaysOwned == Spec => []BlocksOwned
  BY AlwaysInv, InvOwned, PTL
-----------------------------------------------------------------------------
\* The device that a caller sees: the blocks and the outcomes of the calls.
LEMMA EntryValues ==
    ASSUME NEW e \in Entry
    PROVE  /\ e.flag \in {"initial", "zero"} => EntryValue(e) = Zero
           /\ e.flag = "error" => EntryValue(e) = Error
           /\ e.flag = "normal" => EntryValue(e) = data[e.lba]
  BY DEF EntryValue

LEMMA BlocksState ==
    /\ \A x \in Lbas : DeviceBlocks[x] = Contents(x) /\ DeviceBlocks'[x] = Contents(x)'
    /\ DeviceBlocks = [x \in Lbas |-> DeviceBlocks[x]] /\ DeviceBlocks' = [x \in Lbas |-> DeviceBlocks'[x]]
  BY SMT DEF DeviceBlocks

LEMMA ResultsState ==
    /\ \A l \in Lanes : DeviceResults[l] = Outcome(l) /\ DeviceResults'[l] = Outcome(l)'
    /\ DeviceResults = [l \in Lanes |-> DeviceResults[l]] /\ DeviceResults' = [l \in Lanes |-> DeviceResults'[l]]
  BY SMT DEF DeviceResults

LEMMA Changed ==
    ASSUME NEW S, NEW f, NEW g, f = [k \in S |-> f[k]], g = [k \in S |-> g[k]], NEW i \in S,
           \A k \in S : k # i => g[k] = f[k]
    PROVE  g = [f EXCEPT ![i] = g[i]]
  BY SMT

\* Steps of the abstract device, in terms of the map and the calls.
LEMMA Idles ==
    ASSUME call' = call, \A x \in Lbas : Contents(x)' = Contents(x), \A l \in Lanes : Outcome(l)' = Outcome(l)
    PROVE  UNCHANGED Device!vars
<1>1. DeviceBlocks' = DeviceBlocks
  BY DEF DeviceBlocks
<1>2. DeviceResults' = DeviceResults
  BY DEF DeviceResults
<1> QED
  BY <1>1, <1>2 DEF Device!vars

LEMMA ResultChanges ==
    ASSUME NEW l \in Lanes, \A k \in Lanes : k # l => Outcome(k)' = Outcome(k)
    PROVE  DeviceResults[l] = Outcome(l) /\ DeviceResults' = [DeviceResults EXCEPT ![l] = Outcome(l)']
<1>1. DeviceResults'[l] = Outcome(l)' /\ \A k \in Lanes : k # l => DeviceResults'[k] = DeviceResults[k]
  BY ResultsState
<1>2. DeviceResults' = [DeviceResults EXCEPT ![l] = DeviceResults'[l]]
  BY <1>1, ResultsState, Changed
<1> QED
  BY <1>1, <1>2, ResultsState

LEMMA Decides ==
    ASSUME NEW l \in Lanes, call' = call, \A x \in Lbas : Contents(x)' = Contents(x),
           \A k \in Lanes : k # l => Outcome(k)' = Outcome(k)
    PROVE  /\ UNCHANGED <<DeviceBlocks, call>>
           /\ DeviceResults[l] = Outcome(l) /\ DeviceResults' = [DeviceResults EXCEPT ![l] = Outcome(l)']
<1>1. DeviceBlocks' = DeviceBlocks
  BY DEF DeviceBlocks
<1> QED
  BY <1>1, ResultChanges

LEMMA DoesRead ==
    ASSUME NEW l \in Lanes, call' = call, \A x \in Lbas : Contents(x)' = Contents(x),
           \A k \in Lanes : k # l => Outcome(k)' = Outcome(k),
           call[l] \in [op : {"read"}, lba : Lbas], Outcome(l) = NoCall, NEW y \in Lbas, y = call[l].lba,
           Outcome(l)' = Contents(y)
    PROVE  Device!DoRead(l)
  BY Decides, BlocksState DEF Device!DoRead, Device!Reads

LEMMA Refuses ==
    ASSUME NEW l \in Lanes, call' = call, \A x \in Lbas : Contents(x)' = Contents(x),
           \A k \in Lanes : k # l => Outcome(k)' = Outcome(k), call[l] # NoCall,
           Outcome(l) = NoCall \/ call[l].op = "read", Outcome(l)' = "failed"
    PROVE  Device!Refuse(l)
<1>1. call[l] \in Device!Writes => call[l].op = "write"
  BY SMT DEF Device!Writes
<1> QED
  BY <1>1, Decides DEF Device!Refuse

LEMMA DoesWrite ==
    ASSUME NEW l \in Lanes, call' = call, NEW y \in Lbas, y = call[l].lba,
           \A x \in Lbas : x # y => Contents(x)' = Contents(x), Contents(y)' = call[l].new,
           \A k \in Lanes : k # l => Outcome(k)' = Outcome(k),
           call[l] \in [op : {"write"}, lba : Lbas, new : Values \cup {Zero, Error}],
           Outcome(l) = NoCall, Outcome(l)' = "ok"
    PROVE  Device!DoWrite(l)
<1>1. DeviceBlocks' = [DeviceBlocks EXCEPT ![y] = call[l].new]
  <2>1. DeviceBlocks'[y] = call[l].new /\ \A x \in Lbas : x # y => DeviceBlocks'[x] = DeviceBlocks[x]
    BY BlocksState
  <2>2. DeviceBlocks' = [DeviceBlocks EXCEPT ![y] = DeviceBlocks'[y]]
    BY <2>1, BlocksState, Changed
  <2> QED
    BY <2>1, <2>2
<1>2. DeviceResults[l] = NoCall /\ DeviceResults' = [DeviceResults EXCEPT ![l] = "ok"]
  BY ResultChanges
<1> QED
  BY <1>1, <1>2 DEF Device!DoWrite, Device!Writes
-----------------------------------------------------------------------------
\* While the arena runs, a block holds what its map entry says.
LEMMA RunningContents ==
    ASSUME NEW x \in Lbas
    PROVE  /\ recovered = nfree => Contents(x) = EntryValue(map[x])
           /\ recovered' = nfree => Contents(x)' = EntryValue(map[x])'
  BY LaneFacts, SMT DEF Contents

\* A block whose map entry a step leaves alone keeps its contents.
LEMMA ContentsKept ==
    ASSUME TypeOK, TypeOK', CallsInv, FlogInv, OwnersInv, ReadersInv, NEW l \in Lanes, LaneStep(l),
           NEW x \in Lbas, map'[x] = map[x]
    PROVE  Contents(x)' = Contents(x)
<1>1. Contents(x) = EntryValue(map[x]) /\ Contents(x)' = EntryValue(map[x])'
  BY OthersKept, RunningContents
<1>2. map[x] \in Entry
  BY DEF TypeOK
<1>3. map[x].flag = "normal" => data'[map[x].lba] = data[map[x].lba]
  BY DataFrame DEF InMap, Resolve
<1> QED
  BY <1>1, <1>2, <1>3, EntryFacts DEF EntryValue

LEMMA OutcomesKept ==
    ASSUME TypeOK, CallsInv, FlogInv, OwnersInv, ReadersInv, NEW l \in Lanes, LaneStep(l), NEW k \in Lanes, k # l
    PROVE  Outcome(k)' = Outcome(k)
<1>1. pc'[k] = pc[k] /\ entry'[k] = entry[k] /\ result'[k] = result[k]
  BY OthersKept
<1>2. pc[k] = "copy" => data'[entry[k].lba] = data[entry[k].lba]
  BY DataFrame
<1> QED
  BY <1>1, <1>2 DEF Outcome

LEMMA Finished ==
    ASSUME TypeOK, NEW l \in Lanes, NEW r, Finish(l, r)
    PROVE  pc'[l] = "ret" /\ result'[l] = r /\ Outcome(l)' = r /\ call' = call
<1>1. pc'[l] = "ret" /\ result'[l] = r /\ call' = call
  BY DEF Finish, Goto, TypeOK
<1> QED
  BY <1>1 DEF Outcome

\* A step that neither changes the map nor ends or starts a call.
LEMMA Silent ==
    ASSUME TypeOK, TypeOK', CallsInv, CallsInv', FlogInv, OwnersInv, ReadersInv, NEW l \in Lanes, LaneStep(l),
           UNCHANGED <<map, call>>, pc[l] \notin {"ret", "copy"}, pc'[l] \notin {"ret", "copy"}
    PROVE  UNCHANGED Device!vars
<1>1. \A x \in Lbas : Contents(x)' = Contents(x)
  BY ContentsKept
<1>2. \A k \in Lanes : k # l => Outcome(k)' = Outcome(k)
  BY OutcomesKept
<1>3. Outcome(l)' = Outcome(l)
  BY DEF Outcome, CallsInv
<1> QED
  BY <1>1, <1>2, <1>3, Idles

\* A step that ends the call with an error.
LEMMA Fails ==
    ASSUME TypeOK, TypeOK', CallsInv, FlogInv, OwnersInv, ReadersInv, NEW l \in Lanes, LaneStep(l),
           map' = map, pc[l] \notin {"idle", "ret"}, Finish(l, "failed")
    PROVE  Device!Refuse(l)
<1>1. \A x \in Lbas : Contents(x)' = Contents(x)
  BY ContentsKept
<1>2. \A k \in Lanes : k # l => Outcome(k)' = Outcome(k)
  BY OutcomesKept
<1>3. Outcome(l)' = "failed" /\ call' = call
  BY Finished
<1>4. Outcome(l) = NoCall \/ call[l].op = "read"
  BY DEF Outcome, CallsInv, Reading
<1>5. call[l] # NoCall
  BY CallFacts
<1> QED
  BY <1>1, <1>2, <1>3, <1>4, <1>5, Refuses

\* A step by which a read gets its result.
LEMMA ReadDecided ==
    ASSUME TypeOK, TypeOK', CallsInv, FlogInv, OwnersInv, ReadersInv, NEW l \in Lanes, LaneStep(l),
           UNCHANGED <<map, call>>, pc[l] \in {"map", "recheck"}, Outcome(l)' = EntryValue(map[call[l].lba])
    PROVE  Device!DoRead(l)
<1>1. \A x \in Lbas : Contents(x)' = Contents(x)
  BY ContentsKept
<1>2. \A k \in Lanes : k # l => Outcome(k)' = Outcome(k)
  BY OutcomesKept
<1>3. PICK y \in Lbas : y = call[l].lba
  BY CallFacts
<1>4. Outcome(l) = NoCall /\ call[l] \in [op : {"read"}, lba : Lbas]
  BY CallFacts DEF Outcome, CallsInv, Reading
<1>5. Outcome(l)' = Contents(y)
  BY <1>3, OthersKept, RunningContents
<1> QED
  BY <1>1, <1>2, <1>3, <1>4, <1>5, DoesRead

LEMMA ReadLoopRefines ==
    ASSUME TypeOK, TypeOK', CallsInv, CallsInv', FlogInv, OwnersInv, ReadersInv, NEW l \in Lanes, LaneStep(l),
           pc[l] \in {"map", "recheck"}, ReadLoop(l, LatestEntry(l))
    PROVE  Device!DoRead(l) \/ UNCHANGED Device!vars
<1>1. PICK e \in Entry : e = map[call[l].lba]
  BY CallFacts DEF TypeOK
<1>2. map' = map
  BY DEF ReadLoop, media
<1>3. ASSUME NEW r, Finish(l, r) PROVE call' = call /\ Outcome(l)' = r
  BY <1>3, Finished
<1>4. CASE e.flag = "error" /\ Finish(l, Error)
  BY <1>1, <1>2, <1>3, <1>4, EntryValues, ReadDecided
<1>5. CASE e.flag \in {"zero", "initial"} /\ Finish(l, Zero)
  BY <1>1, <1>2, <1>3, <1>5, EntryValues, ReadDecided
<1>6. CASE Goto(l, "track") /\ call' = call
  <2>1. pc'[l] = "track"
    BY <1>6 DEF Goto, TypeOK
  <2> QED
    BY <1>2, <1>6, <2>1, Silent
<1> QED
  BY <1>1, <1>4, <1>5, <1>6 DEF ReadLoop, LatestEntry

LEMMA RecheckRefines ==
    ASSUME TypeOK, TypeOK', CallsInv, CallsInv', FlogInv, OwnersInv, ReadersInv, NEW l \in Lanes, LaneStep(l),
           RecheckMap(l)
    PROVE  Device!DoRead(l) \/ UNCHANGED Device!vars
<1>1. pc[l] = "recheck"
  BY DEF RecheckMap
<1>2. CASE ReadLoop(l, LatestEntry(l))
  BY <1>1, <1>2, ReadLoopRefines
<1>3. CASE LatestEntry(l) = entry[l] /\ Goto(l, "copy") /\ UNCHANGED <<media, arena, recovered, call, result, entry, scan, count>>
  <2>1. pc'[l] = "copy" /\ map' = map /\ data' = data /\ entry' = entry /\ call' = call
    BY <1>3 DEF Goto, media, TypeOK
  <2>2. entry[l] \in Entry /\ entry[l].flag = "normal" /\ entry[l] = map[call[l].lba]
    BY <1>1, <1>3 DEF ReadersInv, LatestEntry, TypeOK
  <2>3. Outcome(l)' = data[entry[l].lba]
    BY <2>1 DEF Outcome
  <2>4. Outcome(l)' = EntryValue(map[call[l].lba])
    BY <2>2, <2>3, EntryValues
  <2> QED
    BY <1>1, <2>1, <2>4, ReadDecided
<1> QED
  BY <1>2, <1>3 DEF RecheckMap

LEMMA CopyRefines ==
    ASSUME TypeOK, TypeOK', CallsInv, CallsInv', FlogInv, OwnersInv, ReadersInv, NEW l \in Lanes, LaneStep(l),
           ReadData(l)
    PROVE  UNCHANGED Device!vars
<1>1. pc[l] = "copy" /\ map' = map /\ Finish(l, data[entry[l].lba])
  BY DEF ReadData, media
<1>2. Outcome(l)' = Outcome(l) /\ call' = call
  BY <1>1, Finished DEF Outcome
<1>3. \A x \in Lbas : Contents(x)' = Contents(x)
  BY <1>1, ContentsKept
<1>4. \A k \in Lanes : Outcome(k)' = Outcome(k)
  BY <1>2, OutcomesKept
<1> QED
  BY <1>2, <1>3, <1>4, Idles

\* A step by which a write takes effect: the map entry is written.
LEMMA WriteDecided ==
    ASSUME TypeOK, TypeOK', CallsInv, FlogInv, OwnersInv, ReadersInv, NEW l \in Lanes, LaneStep(l),
           pc[l] \in {"unlock", "setf"}, Finish(l, "ok"), NEW y \in Lbas, y = call[l].lba,
           \A x \in Lbas : x # y => map'[x] = map[x], EntryValue(map[y])' = call[l].new
    PROVE  Device!DoWrite(l)
<1>1. \A x \in Lbas : x # y => Contents(x)' = Contents(x)
  BY ContentsKept
<1>2. Contents(y)' = call[l].new
  BY OthersKept, RunningContents
<1>3. Outcome(l) = NoCall /\ Outcome(l)' = "ok" /\ call' = call
  BY Finished DEF Outcome, CallsInv
<1>4. call[l] \in [op : {"write"}, lba : Lbas, new : Values \cup {Zero, Error}]
  BY CallFacts DEF CallsInv, Writing, Storing
<1>5. \A k \in Lanes : k # l => Outcome(k)' = Outcome(k)
  BY OutcomesKept
<1> QED
  BY <1>1, <1>2, <1>3, <1>4, <1>5, DoesWrite

LEMMA UnlockRefines ==
    ASSUME TypeOK, TypeOK', CallsInv, FlogInv, OwnersInv, ReadersInv, DataInv, NEW l \in Lanes, LaneStep(l),
           map_unlock(l)
    PROVE  Device!DoWrite(l)
<1>1. /\ pc[l] = "unlock" /\ Finish(l, "ok") /\ data' = data
      /\ map' = [map EXCEPT ![call[l].lba] = flogs[l].flog.new_map]
  BY DEF map_unlock
<1>2. PICK y \in Lbas : y = call[l].lba
  BY <1>1, CallFacts
<1>3. PICK e : e = flogs[l].flog.new_map
  OBVIOUS
<1>4. map'[y] = e /\ \A x \in Lbas : x # y => map'[x] = map[x]
  BY <1>1, <1>2, <1>3 DEF TypeOK
<1>5. e.flag = "normal" /\ data[e.lba] = call[l].new
  <2>1. InForce(l) /\ CurrentFlog(l).new_map = e
    BY <1>1, <1>3, OthersKept, Running
  <2>2. e.flag = "normal"
    BY <2>1 DEF OwnersInv
  <2> QED
    BY <1>1, <2>1, <2>2 DEF DataInv, New
<1>6. EntryValue(map[y])' = call[l].new
  BY <1>1, <1>4, <1>5 DEF EntryValue
<1> QED
  BY <1>1, <1>2, <1>4, <1>6, WriteDecided

LEMMA SetfRefines ==
    ASSUME TypeOK, TypeOK', CallsInv, LocksInv, FlogInv, OwnersInv, ReadersInv, NEW l \in Lanes, LaneStep(l),
           map_entry_setf(l)
    PROVE  Device!DoWrite(l)
<1>1. /\ pc[l] = "setf" /\ Finish(l, "ok")
      /\ map' = [map EXCEPT ![call[l].lba] =
                     IF call[l].new = Zero /\ entry[l].flag = "zero" THEN @
                     ELSE [flag |-> IF call[l].new = Zero THEN "zero" ELSE "error", lba |-> entry[l].lba]]
  BY DEF map_entry_setf
<1>2. PICK y \in Lbas : y = call[l].lba
  BY <1>1, CallFacts
<1>3. call[l].new \in {Zero, Error}
  BY <1>1, CallFacts DEF CallsInv, Writing
<1>4. /\ map'[y] = IF call[l].new = Zero /\ entry[l].flag = "zero" THEN map[y]
                   ELSE [flag |-> IF call[l].new = Zero THEN "zero" ELSE "error", lba |-> entry[l].lba]
      /\ \A x \in Lbas : x # y => map'[x] = map[x]
  BY <1>1, <1>2 DEF TypeOK
<1>5. entry[l].flag = "zero" => map[y].flag = "zero"
  <2>1. entry[l] = Resolve(map[y], y)
    BY <1>1, <1>2 DEF LocksInv, Locked
  <2>2. Normal(y).flag = "normal"
    BY LaneFacts, EntryFacts
  <2> QED
    BY <2>1, <2>2 DEF Resolve
<1>6. map'[y].flag = IF call[l].new = Zero THEN "zero" ELSE "error"
  BY <1>4, <1>5, SMT
<1>7. EntryValue(map[y])' = call[l].new
  BY <1>3, <1>6 DEF EntryValue
<1> QED
  BY <1>1, <1>2, <1>4, <1>7, WriteDecided

LEMMA StartRefines ==
    ASSUME TypeOK, TypeOK', CallsInv, CallsInv', FlogInv, OwnersInv, ReadersInv, NEW l \in Lanes, LaneStep(l),
           NEW c \in Calls, Start(l, c)
    PROVE  Device!Start(l)
<1>1. /\ pc[l] = "idle" /\ map' = map /\ result' = result /\ call' = [call EXCEPT ![l] = c]
      /\ pc' = [pc EXCEPT ![l] = IF c.op = "read" THEN "map" ELSE "flags"]
  BY DEF Start, lane_enter, media, Goto
<1>2. pc'[l] # "copy" /\ result'[l] = result[l]
  BY <1>1 DEF TypeOK
<1>3. \A k \in Lanes : Outcome(k)' = Outcome(k)
  BY <1>1, <1>2, OutcomesKept DEF Outcome
<1>4. DeviceBlocks' = DeviceBlocks
  BY <1>1, ContentsKept DEF DeviceBlocks
<1>5. DeviceResults' = DeviceResults
  BY <1>3 DEF DeviceResults
<1>6. call[l] = NoCall
  BY <1>1 DEF CallsInv
<1> QED
  BY <1>1, <1>4, <1>5, <1>6, CallKinds DEF Device!Start, Device!Writes, Device!Reads

LEMMA ReturnRefines ==
    ASSUME TypeOK, TypeOK', CallsInv, FlogInv, OwnersInv, ReadersInv, NEW l \in Lanes, LaneStep(l), Return(l)
    PROVE  Device!Return(l)
<1>1. /\ pc[l] = "ret" /\ map' = map /\ result' = [result EXCEPT ![l] = NoCall] /\ call' = [call EXCEPT ![l] = NoCall]
      /\ pc' = [pc EXCEPT ![l] = "idle"]
  BY DEF Return, media, Goto
<1>2. pc'[l] = "idle" /\ result'[l] = NoCall /\ result[l] # NoCall
  <2>1. pc'[l] = "idle" /\ result'[l] = NoCall
    BY <1>1 DEF TypeOK
  <2>2. result[l] = NoCall <=> pc[l] # "ret"
    BY DEF CallsInv
  <2> QED
    BY <1>1, <2>1, <2>2
<1>3. Outcome(l) # NoCall /\ Outcome(l)' = NoCall
  BY <1>1, <1>2 DEF Outcome
<1>4. DeviceBlocks' = DeviceBlocks
  BY <1>1, ContentsKept DEF DeviceBlocks
<1>5. DeviceResults[l] # NoCall /\ DeviceResults' = [DeviceResults EXCEPT ![l] = NoCall]
  BY <1>3, OutcomesKept, ResultChanges
<1> QED
  BY <1>1, <1>4, <1>5 DEF Device!Return

LEMMA FaultRefines ==
    ASSUME TypeOK, TypeOK', CallsInv, CallsInv', FlogInv, OwnersInv, ReadersInv, NEW l \in Lanes, LaneStep(l),
           IoError(l)
    PROVE  Device!Refuse(l) \/ UNCHANGED Device!vars
<1>1. map' = map /\ pc[l] \notin {"idle", "ret"}
  BY DEF IoError, media
<1>2. CASE Finish(l, "failed")
  BY <1>1, <1>2, Fails
<1>3. CASE pc[l] = "unlock" /\ Goto(l, "seterror") /\ call' = call
  <2>1. pc'[l] = "seterror"
    BY <1>3 DEF Goto, TypeOK
  <2> QED
    BY <1>1, <1>3, <2>1, Silent
<1> QED
  BY <1>2, <1>3 DEF IoError

\* The steps of btt_write and map_entry_setf before the map is written.
LEMMA PrepareRefines ==
    ASSUME TypeOK, TypeOK', CallsInv, CallsInv', FlogInv, OwnersInv, ReadersInv, NEW l \in Lanes, LaneStep(l),
           \/ TrackRead(l) \/ CheckFlags(l) \/ ScanRtt(l) \/ WriteData(l) \/ map_lock(l)
           \/ FlogFirstHalf(l) \/ FlogSecondHalf(l) \/ set_arena_error(l)
    PROVE  Device!Refuse(l) \/ UNCHANGED Device!vars
<1>1. map' = map /\ pc[l] \notin {"idle", "ret", "copy"}
  BY DEF TrackRead, CheckFlags, ScanRtt, WriteData, map_lock, FlogFirstHalf, FlogSecondHalf, set_arena_error, media
<1>2. CASE Finish(l, "failed")
  BY <1>1, <1>2, Fails
<1>3. CASE call' = call /\ (pc' = pc \/ \E p \in Writing \cup {"recheck"} : Goto(l, p))
  <2>1. pc'[l] \notin {"ret", "copy"}
    BY <1>1, <1>3 DEF Goto, TypeOK, Writing, Storing, Failing
  <2> QED
    BY <1>1, <1>3, <2>1, Silent
<1>4. CASE TrackRead(l) \/ ScanRtt(l) \/ FlogFirstHalf(l) \/ FlogSecondHalf(l)
  BY <1>3, <1>4 DEF TrackRead, ScanRtt, FlogFirstHalf, FlogSecondHalf, Writing, Storing
<1>5. CASE WriteData(l)
  BY <1>3, <1>5 DEF WriteData, Writing, Storing
<1>6. CASE map_lock(l)
  BY <1>3, <1>6 DEF map_lock, Writing, Storing
<1>7. CASE CheckFlags(l) \/ set_arena_error(l)
  BY <1>2, <1>3, <1>7 DEF CheckFlags, set_arena_error, Writing, Storing, Failing
<1> QED
  BY <1>4, <1>5, <1>6, <1>7

LEMMA LaneRefines ==
    ASSUME TypeOK, TypeOK', CallsInv, CallsInv', LocksInv, FlogInv, OwnersInv, ReadersInv, DataInv,
           NEW l \in Lanes, LaneStep(l)
    PROVE  Device!Next \/ UNCHANGED Device!vars
<1>1. ReadMap(l) => Device!DoRead(l) \/ UNCHANGED Device!vars
  BY ReadLoopRefines DEF ReadMap
<1>2. Step(l) => Device!DoRead(l) \/ Device!DoWrite(l) \/ Device!Refuse(l) \/ Device!Return(l) \/ UNCHANGED Device!vars
  BY <1>1, ReturnRefines, RecheckRefines, CopyRefines, PrepareRefines, UnlockRefines, SetfRefines DEF Step
<1>3. (\E c \in Calls : Start(l, c)) => Device!Start(l)
  BY StartRefines
<1>4. IoError(l) => Device!Refuse(l) \/ UNCHANGED Device!vars
  BY FaultRefines
<1> QED
  BY <1>2, <1>3, <1>4 DEF LaneStep, Device!Next
-----------------------------------------------------------------------------
LEMMA MappedCasesNext ==
    \A x \in Lbas :
        \/ \E l \in Lanes : InForce(l)' /\ CurrentFlog(l)'.lba = x /\ MappedTo(x)' = CurrentFlog(l)'.new_map
        \/ MappedTo(x)' = map'[x] /\ \A l \in Lanes : ~(InForce(l)' /\ CurrentFlog(l)'.lba = x)
<1>1. (\A x \in Lbas :
          \/ \E l \in Lanes : InForce(l) /\ CurrentFlog(l).lba = x /\ MappedTo(x) = CurrentFlog(l).new_map
          \/ MappedTo(x) = map[x] /\ \A l \in Lanes : ~(InForce(l) /\ CurrentFlog(l).lba = x))'
  BY MappedCases, PTL
<1> QED
  BY <1>1

\* At most one update of a block is in force.
LEMMA UniqueUpdate ==
    ASSUME OwnersInv, NEW l \in Lanes, NEW k \in Lanes, Live(l), Live(k), InForce(l), InForce(k),
           CurrentFlog(l).lba = CurrentFlog(k).lba
    PROVE  l = k
<1>1. CurrentFlog(l).old_map = CurrentFlog(k).old_map
  BY DEF OwnersInv
<1>2. Free(l) = Free(k)
  BY <1>1 DEF Free
<1> QED
  BY <1>2 DEF OwnersInv

\* A block that an update in force concerns, and one that none does.
LEMMA InForceContents ==
    ASSUME OwnersInv, \A k \in Lanes : Live(k), NEW x \in Lbas, NEW l \in Lanes, InForce(l), CurrentFlog(l).lba = x
    PROVE  MappedTo(x) = CurrentFlog(l).new_map
  BY MappedCases, UniqueUpdate

\* At a crash a block keeps its contents, or an update in force completes.
LEMMA CrashContents ==
    ASSUME TypeOK, CallsInv, FlogInv, OwnersInv, ErrorInv, DataInv, Crash, lost' # "crashed", NEW x \in Lbas
    PROVE  \/ Contents(x)' = Contents(x)
           \/ \E l \in Lanes : /\ call[l] \in Device!Writes /\ Outcome(l) = NoCall
                               /\ call[l].lba = x /\ Contents(x)' = call[l].new
<1>1. map' = map /\ data' = data /\ recovered' = 0
  BY DEF Crash
<1>2. \A l \in Lanes : CurrentFlog(l)' = CurrentFlog(l) /\ Live(l) /\ (InForce(l)' <=> InForce(l))
  BY CrashOwners
<1>3. Contents(x)' = EntryValue(MappedTo(x)')
  <2>1. recovered' < nfree
    BY <1>1, LaneFacts, SMT
  <2> QED
    BY <1>1, <2>1 DEF Contents, EntryValue
<1>4. CASE MappedTo(x)' = map'[x] /\ \A l \in Lanes : ~(InForce(l)' /\ CurrentFlog(l)'.lba = x)
  <2>1. \A l \in Lanes : ~(InForce(l) /\ CurrentFlog(l).lba = x)
    BY <1>2, <1>4
  <2>2. MappedTo(x) = map[x]
    BY <2>1, MappedCases
  <2> QED
    BY <1>1, <1>3, <1>4, <2>2 DEF Contents
<1>5. CASE \E l \in Lanes : InForce(l)' /\ CurrentFlog(l)'.lba = x /\ MappedTo(x)' = CurrentFlog(l)'.new_map
  <2>1. PICK l \in Lanes : InForce(l) /\ CurrentFlog(l).lba = x /\ MappedTo(x)' = CurrentFlog(l).new_map
    BY <1>2, <1>5
  <2>2. CASE recovered < nfree
    BY <1>2, <1>3, <2>1, <2>2, InForceContents DEF Contents
  <2>3. CASE recovered = nfree
    <3>1. pc[l] = "unlock" /\ CurrentFlog(l) = flogs[l].flog
      BY <2>1, <2>3, Running
    <3>2. call[l].lba = x
      BY <2>1, <3>1 DEF FlogInv
    <3>3. data[CurrentFlog(l).new_map.lba] = call[l].new /\ CurrentFlog(l).new_map.flag = "normal"
      BY <2>1, <3>1 DEF DataInv, OwnersInv, New
    <3>4. Contents(x)' = call[l].new
      BY <1>3, <2>1, <3>3 DEF EntryValue
    <3>5. Outcome(l) = NoCall
      BY <3>1 DEF Outcome, CallsInv
    <3>6. call[l] \in Device!Writes
      BY <3>1, CallFacts DEF CallsInv, Writing, Storing, Device!Writes
    <3> QED
      BY <3>2, <3>4, <3>5, <3>6
  <2>4. recovered < nfree \/ recovered = nfree
    BY LaneFacts, SMT DEF TypeOK
  <2> QED
    BY <2>2, <2>3, <2>4
<1> QED
  BY <1>4, <1>5, MappedCasesNext

LEMMA CrashValues ==
    ASSUME TypeOK', OwnersInv', DataInv', NEW x \in Lbas
    PROVE  Contents(x)' \in Values \cup {Zero, Error}
<1>1. PICK e : e = IF recovered' < nfree THEN MappedTo(x)' ELSE map'[x]
  OBVIOUS
<1>2. Contents(x)' = EntryValue(e)'
  BY <1>1 DEF Contents
<1>3. e = map'[x] \/ \E l \in Lanes : InForce(l)' /\ e = CurrentFlog(l)'.new_map
  BY <1>1, MappedCasesNext
<1>4. CASE e = map'[x]
  <2>1. e \in Entry /\ (e.flag = "normal" => data'[e.lba] \in Values)
    BY <1>4 DEF TypeOK, DataInv
  <2> QED
    BY <1>2, <2>1, EntryFacts DEF EntryValue
<1>5. CASE \E l \in Lanes : InForce(l)' /\ e = CurrentFlog(l)'.new_map
  <2>1. e.flag = "normal" /\ data'[e.lba] \in Values
    BY <1>5 DEF OwnersInv, DataInv, New
  <2> QED
    BY <1>2, <2>1 DEF EntryValue
<1> QED
  BY <1>3, <1>4, <1>5

LEMMA CrashRefines ==
    ASSUME TypeOK, TypeOK', CallsInv, FlogInv, OwnersInv, OwnersInv', ErrorInv, DataInv, DataInv',
           Crash, lost' # "crashed"
    PROVE  Device!Crash
<1>1. DeviceBlocks' \in [Lbas -> Values \cup {Zero, Error}]
  BY CrashValues DEF DeviceBlocks
<1>2. call' = [l \in Lanes |-> NoCall]
  BY DEF Crash
<1>3. \A l \in Lanes : Outcome(l)' = NoCall
  BY DEF Crash, Outcome
<1>4. DeviceResults' = [l \in Lanes |-> NoCall]
  BY <1>3 DEF DeviceResults
<1>5. \A x \in Lbas :
         \/ DeviceBlocks'[x] = DeviceBlocks[x]
         \/ \E l \in Lanes : /\ call[l] \in Device!Writes /\ DeviceResults[l] = NoCall
                             /\ call[l].lba = x /\ DeviceBlocks'[x] = call[l].new
  <2> SUFFICES ASSUME NEW x \in Lbas
               PROVE  \/ DeviceBlocks'[x] = DeviceBlocks[x]
                      \/ \E l \in Lanes : /\ call[l] \in Device!Writes /\ DeviceResults[l] = NoCall
                                          /\ call[l].lba = x /\ DeviceBlocks'[x] = call[l].new
    OBVIOUS
  <2>1. DeviceBlocks[x] = Contents(x) /\ DeviceBlocks'[x] = Contents(x)'
    BY BlocksState
  <2>2. \A l \in Lanes : DeviceResults[l] = Outcome(l)
    BY ResultsState
  <2>3. \/ Contents(x)' = Contents(x)
        \/ \E l \in Lanes : /\ call[l] \in Device!Writes /\ Outcome(l) = NoCall
                            /\ call[l].lba = x /\ Contents(x)' = call[l].new
    BY CrashContents
  <2> QED
    BY <2>1, <2>2, <2>3
<1> QED
  BY <1>1, <1>2, <1>4, <1>5 DEF Device!Crash

\* The recovery completes the updates in force, which the device counts as
\* done since the crash.
LEMMA RecoveryMapped ==
    ASSUME TypeOK, CallsInv, FlogInv, OwnersInv, ErrorInv, lost # "crashed", read_flog_pair, NEW x \in Lbas
    PROVE  MappedTo(x)' = MappedTo(x)
<1>1. PICK l \in Lanes : l = recovered
  BY RecoveryFacts
<1>2. \A k \in Lanes : CurrentFlog(k)' = CurrentFlog(k) /\ (InForce(k)' <=> InForce(k) /\ k # l)
  BY <1>1, RecoveryOwners
<1>3. map' = IF InForce(l) THEN [map EXCEPT ![CurrentFlog(l).lba] = CurrentFlog(l).new_map] ELSE map
  BY <1>1, RecoveryFacts
<1>4. \A k \in Lanes : Live(k)
  BY RecoveryFacts DEF Live
<1>5. CASE InForce(l) /\ CurrentFlog(l).lba = x
  <2>1. \A k \in Lanes : ~(InForce(k)' /\ CurrentFlog(k)'.lba = x)
    BY <1>2, <1>4, <1>5, UniqueUpdate
  <2>2. MappedTo(x)' = map'[x]
    BY <2>1, MappedCasesNext
  <2>3. map'[x] = CurrentFlog(l).new_map
    BY <1>3, <1>5 DEF TypeOK
  <2> QED
    BY <1>4, <1>5, <2>2, <2>3, InForceContents
<1>6. CASE ~(InForce(l) /\ CurrentFlog(l).lba = x)
  <2>1. map'[x] = map[x]
    BY <1>3, <1>6 DEF TypeOK
  <2>2. \A k \in Lanes : InForce(k)' /\ CurrentFlog(k)'.lba = x <=> InForce(k) /\ CurrentFlog(k).lba = x
    BY <1>2, <1>6
  <2>3. CASE \A k \in Lanes : ~(InForce(k) /\ CurrentFlog(k).lba = x)
    <3>1. MappedTo(x)' = map'[x]
      BY <2>2, <2>3, MappedCasesNext
    <3>2. MappedTo(x) = map[x]
      BY <2>3, MappedCases
    <3> QED
      BY <2>1, <3>1, <3>2
  <2>4. CASE \E k \in Lanes : InForce(k) /\ CurrentFlog(k).lba = x
    <3>1. PICK k \in Lanes : InForce(k)' /\ CurrentFlog(k)'.lba = x /\ MappedTo(x)' = CurrentFlog(k)'.new_map
      BY <2>2, <2>4, MappedCasesNext
    <3>2. MappedTo(x) = CurrentFlog(k).new_map
      BY <1>4, <2>2, <3>1, InForceContents
    <3> QED
      BY <1>2, <3>1, <3>2
  <2> QED
    BY <2>3, <2>4
<1> QED
  BY <1>5, <1>6

LEMMA RecoveryRefines ==
    ASSUME TypeOK, CallsInv, FlogInv, OwnersInv, ErrorInv, lost # "crashed", read_flog_pair
    PROVE  UNCHANGED Device!vars
<1>1. recovered < nfree /\ recovered' \in Nat /\ data' = data /\ UNCHANGED <<pc, call, result, entry>>
  <2>1. recovered < nfree /\ data' = data /\ UNCHANGED local /\ recovered' = recovered + 1 /\ recovered \in Lanes
    BY RecoveryFacts
  <2>2. recovered' \in Nat
    BY <2>1, SMT DEF Lanes
  <2> QED
    BY <2>1, <2>2 DEF local
<1>2. \A k \in Lanes : pc'[k] = "idle"
  BY <1>1, RecoveryFacts
<1>3. ASSUME NEW x \in Lbas PROVE Contents(x)' = Contents(x)
  <2>1. ~(recovered' < nfree) => MappedTo(x)' = map'[x]
    <3> SUFFICES ASSUME ~(recovered' < nfree) PROVE MappedTo(x)' = map'[x]
      OBVIOUS
    <3>1. \A k \in Lanes : k < recovered'
      BY <1>1, LaneFacts, SMT
    <3>2. \A k \in Lanes : ~InForce(k)'
      BY <1>2, <3>1 DEF InForce
    <3> QED
      BY <3>2, MappedCasesNext
  <2>2. Contents(x)' = EntryValue(MappedTo(x)')
    BY <1>1, <2>1 DEF Contents, EntryValue
  <2> QED
    BY <1>1, <2>2, RecoveryMapped DEF Contents
<1>4. \A k \in Lanes : Outcome(k)' = Outcome(k)
  BY <1>1 DEF Outcome
<1> QED
  BY <1>1, <1>3, <1>4, Idles

LEMMA NextRefines ==
    ASSUME BTTInv, BTTInv', [Next]_vars
    PROVE  [lost' # "crashed" => Device!Next \/ UNCHANGED Device!vars]_vars
<1> SUFFICES ASSUME Next, lost' # "crashed" PROVE Device!Next \/ UNCHANGED Device!vars
  OBVIOUS
<1>1. lost # "crashed"
  <2>1. ASSUME NEW l \in Lanes, LaneStep(l) PROVE lost = "crashed" => lost' = "crashed"
    BY <2>1 DEF LaneStep, Step, Return, ReadMap, ReadLoop, TrackRead, RecheckMap, ReadData, CheckFlags, ScanRtt,
                WriteData, map_lock, FlogFirstHalf, FlogSecondHalf, map_unlock, map_entry_setf, set_arena_error,
                Start, IoError, count
  <2>2. Crash \/ read_flog_pair => (lost = "crashed" => lost' = "crashed")
    BY DEF Crash, read_flog_pair, count
  <2> QED
    BY <2>1, <2>2 DEF Next, LaneStep
<1>2. TypeOK /\ CallsInv /\ LocksInv /\ FlogInv /\ OwnersInv /\ ErrorInv /\ ReadersInv /\ DataInv
  BY <1>1 DEF BTTInv
<1>3. TypeOK' /\ CallsInv' /\ OwnersInv' /\ DataInv'
  BY DEF BTTInv
<1>4. ASSUME NEW l \in Lanes, LaneStep(l) PROVE Device!Next \/ UNCHANGED Device!vars
  BY <1>2, <1>3, <1>4, LaneRefines
<1>5. Crash => Device!Next
  BY <1>2, <1>3, CrashRefines DEF Device!Next
<1>6. read_flog_pair => UNCHANGED Device!vars
  BY <1>1, <1>2, RecoveryRefines
<1> QED
  BY <1>4, <1>5, <1>6 DEF Next, LaneStep

LEMMA InitRefines == Init => Device!Init
<1> SUFFICES ASSUME Init PROVE Device!Init
  OBVIOUS
<1>1. \A x \in Lbas : Contents(x) = Zero
  <2>1. recovered = nfree /\ \A x \in Lbas : map[x] = Initial
    BY DEF Init
  <2>2. Initial \in Entry /\ Initial.flag = "initial"
    BY EntryFacts, SMT DEF Initial
  <2> QED
    BY <2>1, <2>2, RunningContents, EntryValues
<1>2. \A l \in Lanes : Outcome(l) = NoCall
  BY DEF Init, Outcome
<1>3. DeviceBlocks = [x \in Lbas |-> Zero]
  BY <1>1 DEF DeviceBlocks
<1>4. DeviceResults = [l \in Lanes |-> NoCall]
  BY <1>2 DEF DeviceResults
<1> QED
  BY <1>3, <1>4 DEF Init, Device!Init

\* btt.c gives power-fail write atomicity, for any number of lanes, blocks,
\* calls, failed callbacks and crashes: a call takes effect at one instant, and
\* a write cut short by a crash has happened completely or not at all, unless
\* an earlier write had lost its map entry.
THEOREM DeviceIsAtomic == Spec => ImplementsAtomicBlocks
  BY AlwaysInv, InitRefines, NextRefines, PTL DEF Spec, ImplementsAtomicBlocks
=============================================================================
