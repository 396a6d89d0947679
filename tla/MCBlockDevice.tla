--------------------------- MODULE MCBlockDevice ---------------------------
(***************************************************************************)
(* A block device of libpmemblk: the calls on a namespace with a layout    *)
(* (BTT) and the layout itself (BTTLayout), each with crashes and with     *)
(* callbacks that fail.  The variable part names the situation of a        *)
(* behaviour, one of Parts; the variables of the other module keep their   *)
(* first values.                                                           *)
(***************************************************************************)
EXTENDS BTT

CONSTANT Parts

VARIABLES part,
          rawsize, lbasize, is_zeroed, Arenas, layout, narena, btt_nlba, laidout,
          layout_write_mutex, layout_pc, layout_arena, pair, written, layout_crashes, layout_faults

layoutVars == <<rawsize, lbasize, is_zeroed, Arenas, layout, narena, btt_nlba, laidout,
                layout_write_mutex, layout_pc, layout_arena, pair, written, layout_crashes, layout_faults>>
allVars == <<part, vars, layoutVars>>
-----------------------------------------------------------------------------
\* Calls: reads of one block, writes of all values to it and of one value to
\* another, marks on the first.
MCReads  == [op : {"read"}, lba : {0}]
MCWrites == {w \in [op : {"write"}, lba : {0, 1}, new : Values] :
                w.lba = 1 => w.new = CHOOSE v \in Values : TRUE}
MCMarks  == [op : {"write"}, lba : {0}, new : {Zero, Error}]
MCCalls  == MCReads \cup MCWrites \cup MCMarks

\* ... all on one block, which is read, written with one value or zeroed.
OneBlock ==
    \A l \in Lanes : call'[l] # NoCall =>
        /\ call'[l].lba = 0
        /\ call'[l].op = "write" => call'[l].new \in {Zero, CHOOSE v \in Values : TRUE}

\* The variables of BTTLayout where a behaviour is not about it.
NoLayout ==
    /\ rawsize = 0 /\ lbasize = 0 /\ is_zeroed = 0 /\ Arenas = 0 /\ layout = 0 /\ narena = 0
    /\ btt_nlba = 0 /\ laidout = 0 /\ layout_write_mutex = 0 /\ layout_pc = 0 /\ layout_arena = 0
    /\ pair = 0 /\ written = 0 /\ layout_crashes = 0 /\ layout_faults = 0

\* From the smallest namespace to one of three arenas, with remainders below
\* and above the smallest arena, and several sizes of blocks.
Layout(crashBound, faultBound) == INSTANCE BTTLayout WITH
    BTT_ALIGNMENT <- 4, BTT_MIN_SIZE <- 40, BTT_MAX_ARENA <- 64, BTT_MIN_LBA_SIZE <- 2,
    BTT_INTERNAL_LBA_ALIGNMENT <- 2, BTT_MAP_ENTRY_SIZE <- 1, BTT_FLOG_PAIR_ALIGN <- 2, InfoSize <- 4,
    nfree <- 2, RawSizes <- {40, 47, 65, 104, 128, 170}, LbaSizes <- 1..4,
    Lanes <- {"l1", "l2"}, MaxCrashes <- crashBound, MaxFaults <- faultBound,
    media <- layout, nlba <- btt_nlba, pc <- layout_pc, arena <- layout_arena,
    crashes <- layout_crashes, faults <- layout_faults

ASSUME LayoutAssumption == Layout(1, 1)!LayoutAssumption

IsLayout == part \in {"layout", "layout fails"}

MCInit ==
    /\ part \in Parts
    /\ Init
    /\ \/ /\ IsLayout /\ Layout(1, 1)!Init
          /\ part = "layout fails" => rawsize \in {40, 104, 170} /\ lbasize \in {2, 3}
       \/ ~IsLayout /\ NoLayout

NextCalls ==
    /\ Next
    /\ \/ part = "calls" /\ faults' = 0 /\ calls' <= 3 /\ (calls' = 3 => OneBlock)
       \/ part = "calls mixed" /\ calls' <= 2
       \/ part = "calls fail" /\ crashes' = 0 /\ calls' <= 3 /\ OneBlock
       \/ part = "calls wait" /\ crashes' = 0 /\ faults' = 0 /\ OneBlock
    /\ UNCHANGED <<part, layoutVars>>

NextLayout ==
    /\ \/ part = "layout" /\ Layout(1, 0)!Next
       \/ part = "layout fails" /\ Layout(1, 1)!Next
    /\ UNCHANGED <<part, vars>>

MCNext == NextCalls \/ NextLayout

\* The parts without crashes: there is no end to the calls of a lane but its own.
IsFair == part \in {"calls fail", "calls wait"}

\* A lane that can take a step of its call takes one in the end.
MCSpec ==
    /\ MCInit /\ [][MCNext]_allVars
    /\ \A l \in Lanes : WF_vars(IsFair /\ Step(l))
-----------------------------------------------------------------------------
\* Lane l waits for the reader of lane i.
WaitsFor(l, i) == pc[l] = "scan" /\ BeingRead(l, i)

\* Lane i is in a read that uses its slot of the read tracking table.
Reading(i) == pc[i] \in {"track", "recheck", "copy"}

\* Every call returns, those that fail too: the waits of btt_write for the map
\* lock and for outstanding reads end.  The exception is a write that meets, in
\* the read tracking table, the slot of a read that has returned: btt_read does
\* not clear the slot when a second look at the map shows a zeroed block.
CallsReturn ==
    \A l \in Lanes :
        IsFair /\ pc[l] # "idle" ~> \/ pc[l] = "idle"
                                    \/ \E i \in Lanes : WaitsFor(l, i) /\ ~Reading(i)

\* What btt_write says of its scan of the read tracking table: it waits for
\* reads to finish, so each slot it waits for belongs to a read in progress.
WaitsForReaders == \A l, i \in Lanes : WaitsFor(l, i) => Reading(i)

\* The pieces of an arena do not overlap and fill it: blocks, map, flog, info
\* block and copy, whatever the size of the namespace and of a block
\* (btt_info_set_params, btt_info_set_offs).  The blocks of the namespace are
\* all blocks of the arenas, each once (lba_to_arena_lba).
\* read_layout and write_layout count the same arenas and blocks, before the
\* layout is written, after, and after a crash at any moment.  Whatever crash in
\* the middle of write_layout came before, a layout in use has all its flogs and
\* info blocks, the copies of all arenas but possibly the last, and a zero map
\* in the first arena.  Once data has been written the layout is not written
\* again, whichever lanes met the namespace without one (the double test of
\* laidout), where no callback fails.
LayoutExact ==
    /\ IsLayout =>
          /\ Layout(1, 1)!TypeOK /\ Layout(1, 1)!PiecesDisjoint /\ Layout(1, 1)!LbasDistinct
          /\ Layout(1, 1)!CountsStable /\ Layout(1, 1)!LayoutComplete
    /\ part = "layout" => Layout(1, 1)!LaidOutOnce
=============================================================================
