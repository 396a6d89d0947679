------------------------------ MODULE Tracing ------------------------------
(***************************************************************************)
(* The run-time of the tracer (giri/runtime/Giri/Tracing.cpp) under an     *)
(* instrumented program of several threads: the trace file and the file of *)
(* store values, both written through a window that is mapped into memory, *)
(* the mutex that orders accesses and their records, and the end of the    *)
(* program, by exit or by a signal at any step.                            *)
(*                                                                         *)
(* What the pass of TracingNoGiri.cpp inserts around an instruction is a   *)
(* script: the calls between recordLock and recordUnlock, with "exec" for  *)
(* the instruction itself.  Addresses count bytes.  The device that the    *)
(* program maps at DupAddr is the one that is mapped at PmAddr.            *)
(***************************************************************************)
EXTENDS Integers, Sequences, SequencesExt, FiniteSets

CONSTANTS Threads,
          Main,                \* the thread that exits
          Programs,            \* the programs: [threads, instructions, length]
          PmAddr, DupAddr, PmSize,
          CACHELINE_SIZE,
          ByteValues,
          EntryCacheSize,      \* entries in the window of the trace file
          StoreValueCacheBytes

\* What is assumed of the constants.
TracingAssumption ==
    /\ Main \in Threads
    /\ {PmAddr, DupAddr, PmSize, CACHELINE_SIZE, EntryCacheSize, StoreValueCacheBytes} \subseteq Nat \ {0}
    /\ PmAddr % CACHELINE_SIZE = 0 /\ DupAddr % CACHELINE_SIZE = 0
    /\ PmAddr + PmSize <= DupAddr
    /\ \A p \in Programs :
          /\ p.threads \subseteq Threads
          /\ \A i \in p.instructions :
                i.bytes \in Seq(ByteValues) /\ Len(i.bytes) <= StoreValueCacheBytes

VARIABLES test,                             \* the program, never changed
          recording, EntryCacheMutex,       \* the mutex: its holder, or "free"
          BBStack, mem,
          file, index, fileOffset,          \* the trace file, its window
          values, currOffset, valueOffset,  \* the value file, its window
          script, blocks,                   \* per thread: calls to come; blocks entered
          ending,                           \* how far finish is
          log, executed,                    \* what the program did, in this order
          upTo          \* its length when recording ended, or -1 in the midst of an instruction

entryCache == <<file, index, fileOffset>>
storeValueCache == <<values, currOffset, valueOffset>>
program == <<test, mem, blocks, log, executed>>
vars == <<recording, EntryCacheMutex, BBStack, entryCache, storeValueCache, script, program, ending, upTo>>

Entry(type, t, addr, length) == [type |-> type, tid |-> t, addr |-> addr, length |-> length]

Init ==
    /\ test \in Programs
    /\ recording = TRUE                     \* enableRecording, first thing in main
    /\ EntryCacheMutex = "free"
    /\ BBStack = [t \in Threads |-> <<>>]
    /\ mem = [a \in 0..(PmAddr + PmSize - 1) |-> CHOOSE x \in ByteValues : TRUE]
    /\ file = <<>> /\ index = 0 /\ fileOffset = 0
    /\ values = <<>> /\ currOffset = 0 /\ valueOffset = 0
    /\ script = [t \in Threads |-> <<>>]
    /\ blocks = [t \in Threads |-> <<>>]
    /\ ending = "no"
    /\ log = <<>> /\ executed = 0 /\ upTo = -1
-----------------------------------------------------------------------------
\* The file with x at position p, counted from 0; what lies between is a hole.
Hole == -1
NoEntry == Entry("hole", Main, 0, 0)
PutAt(f, p, x, hole) ==
    [i \in 1..(IF p < Len(f) THEN Len(f) ELSE p + 1) |->
        IF i = p + 1 THEN x ELSE IF i <= Len(f) THEN f[i] ELSE hole]

\* Mutant: the window moves one entry late.
WindowFullLate(c) == c.index > EntryCacheSize

WindowFull(c) == c.index = EntryCacheSize

\* addToEntryCache, on a cache c: a full window moves on to the next portion of
\* the file.
addToEntryCache(c, e) ==
    LET w == IF WindowFull(c) THEN [c EXCEPT !.fileOffset = @ + EntryCacheSize, !.index = 0] ELSE c
    IN  [w EXCEPT !.file = PutAt(@, w.fileOffset + w.index, e, NoEntry), !.index = @ + 1]

EntryCache == [file |-> file, index |-> index, fileOffset |-> fileOffset]
SetEntryCache(c) == file' = c.file /\ index' = c.index /\ fileOffset' = c.fileOffset

PutBytes(f, p, bs) == FoldLeft(LAMBDA g, k : PutAt(g, p + k - 1, bs[k], Hole), f, [k \in 1..Len(bs) |-> k])

\* Mutant: the position in the old window is kept.
RemappedOffsetKept == currOffset

\* mapCache: the position in a new window.
RemappedOffset == 0

\* addToStoreValueCache: a value that does not fit the rest of the window goes
\* to the beginning of the next one.
addToStoreValueCache(bs) ==
    LET remap == currOffset + Len(bs) > StoreValueCacheBytes
        off   == IF remap THEN valueOffset + StoreValueCacheBytes ELSE valueOffset
        curr  == IF remap THEN RemappedOffset ELSE currOffset
    IN  /\ values' = PutBytes(values, off + curr, bs)
        /\ currOffset' = curr + Len(bs)
        /\ valueOffset' = off
-----------------------------------------------------------------------------
\* What an instruction does; length is the number of bytes.
Does ==
    [store |-> {"store"}, cmpxchg |-> {"store"}, load |-> {"load"}, clflush |-> {"line"}, mfence |-> {"fence"},
     pmem_flush |-> {"flush"}, pmem_drain |-> {"fence"}, pmem_persist |-> {"flush", "fence"},
     pmem_memcpy |-> {"load", "store"}, pmem_memcpy_nodrain |-> {"load", "store", "flush"},
     pmem_memcpy_persist |-> {"load", "store", "flush", "fence"}, pmem_memset |-> {"store"},
     pmem_memset_nodrain |-> {"store", "flush"}, pmem_memset_persist |-> {"store", "flush", "fence"},
     mmap |-> {"mmap"}, tx_begin |-> {"tx_begin"}, tx_end |-> {"tx_end"}, tx_add |-> {"tx_add"},
     tx_alloc |-> {"tx_alloc"}, start |-> {"start"}, end |-> {"end"}]

\* The address in the device, for one in its second mapping.
Phys(a) == IF a \in DupAddr..(DupAddr + PmSize - 1) THEN a - DupAddr + PmAddr ELSE a

Aligned(a) == (a \div CACHELINE_SIZE) * CACHELINE_SIZE

\* The lines of a range, as recordFlushWrapper and pmem_flush run through them.
LinesOf(a, length) ==
    LET n == Cardinality({x \in Aligned(a)..(a + length - 1) : x % CACHELINE_SIZE = 0})
    IN  [k \in 1..n |-> Aligned(a) + (k - 1) * CACHELINE_SIZE]

\* The part of a script or of the log that is there if the instruction does x.
Part(i, x, s) == IF x \in Does[i.call] THEN s ELSE <<>>

Call(op) == [op |-> op]
Rec(e) == [op |-> "record", entry |-> e]

\* Mutant: the value is recorded before it is stored.
VisitStoreEarly(t, i) ==
    Part(i, "store", <<Rec(Entry("S", t, i.addr, Len(i.bytes)))>>) \o <<[op |-> "exec", ins |-> i]>>

\* visitStoreInst: the store comes first, so that its value can be recorded.
visitStoreInst(t, i) ==
    <<[op |-> "exec", ins |-> i]>> \o Part(i, "store", <<Rec(Entry("S", t, i.addr, Len(i.bytes)))>>)

visitPmemCall(t, i) ==
    LET lines == LinesOf(i.addr, Len(i.bytes))
    IN  Part(i, "load", <<Rec(Entry("L", t, 0, Len(i.bytes)))>>)
        \o visitStoreInst(t, i)
        \o Part(i, "flush", [k \in DOMAIN lines |-> Rec(Entry("H", t, lines[k], 0))])
        \o Part(i, "fence", <<Rec(Entry("F", t, 0, 0))>>)

visitInlineAsm(t, i) == Part(i, "line", <<Rec(Entry("H", t, i.addr, 0))>>)

\* mmap, recorded after it has returned its address; and other calls, with a
\* record before and one after, each under the lock.  The length is the number
\* of the function in ext.tracing.func.txt, all of PMDK's taken for one.
visitCallInst(t, i) ==
    LET kind == IF i.call = "tx_begin" THEN 1 ELSE IF i.call = "tx_end" THEN 2 ELSE 3
    IN  IF i.call = "mmap"
        THEN <<[op |-> "exec", ins |-> i], Rec(Entry("M", t, i.addr, PmSize))>>
        ELSE <<Rec(Entry("C", t, 0, kind)), Call("unlock"), [op |-> "exec", ins |-> i],
               Call("lock"), Rec(Entry("R", t, 0, kind))>>
             \o Part(i, "tx_add", <<Rec(Entry("T", t, i.addr, Len(i.bytes)))>>)
             \o Part(i, "tx_alloc", <<Rec(Entry("A", t, i.addr, Len(i.bytes)))>>)

instrumentBasicBlock(t, i) ==
    IF i.call = "start" THEN <<[op |-> "exec", ins |-> i], [op |-> "push", id |-> i.addr]>>
    ELSE <<Rec(Entry("B", t, i.addr, 0)), [op |-> "exec", ins |-> i]>>

\* The calls that are inserted for instruction i, and the instruction.
Script(t, i) ==
    <<Call("lock")>>
    \o (IF i.call \in {"start", "end"} THEN instrumentBasicBlock(t, i)
        ELSE IF Does[i.call] \subseteq {"mmap", "tx_begin", "tx_end", "tx_add", "tx_alloc"} THEN visitCallInst(t, i)
        ELSE visitPmemCall(t, i) \o visitInlineAsm(t, i))
    \o <<Call("unlock")>>

\* What the instruction is to the device: stores, flushes and fences, and the
\* marks of transactions.  A call of PMDK begins, ends, and has a range.
Effects(t, i) ==
    LET lines == LinesOf(i.addr, Len(i.bytes))
        op(k, a, bs) == [op |-> k, tid |-> t, addr |-> a, bytes |-> bs]
    IN  Part(i, "store", <<op("Store", i.addr, i.bytes)>>)
        \o Part(i, "flush", [k \in DOMAIN lines |-> op("Flush", lines[k], <<>>)])
        \o Part(i, "line", <<op("Flush", i.addr, <<>>)>>)
        \o Part(i, "fence", <<op("Fence", 0, <<>>)>>)
        \o Part(i, "mmap", <<op("Mmap", 0, <<>>)>>)
        \o Part(i, "start", <<op("Start", i.addr, <<>>)>>)
        \o Part(i, "tx_begin", <<op("TXStart", 0, <<>>)>>)
        \o Part(i, "tx_end", <<op("TXEnd", 0, <<>>)>>)
        \o Part(i, "tx_add", <<op("PMDKStart", 0, <<>>), op("PMDKEnd", 0, <<>>), op("TXAdd", i.addr, i.bytes)>>)
        \o Part(i, "tx_alloc", <<op("PMDKStart", 0, <<>>), op("PMDKEnd", 0, <<>>), op("TXAlloc", i.addr, i.bytes)>>)
-----------------------------------------------------------------------------
Running == ending # "exited"
At(t, op) == Running /\ script[t] # <<>> /\ Head(script[t]).op = op
Continue(t) == script' = [script EXCEPT ![t] = Tail(@)]
Instead(t, step) == script' = [script EXCEPT ![t] = <<step>> \o Tail(@)]

\* The control flow of the program: a thread leaves the block it is in, and the
\* second mapping is made once and used after that.
Possible(t, i) ==
    LET mapped == \E k \in DOMAIN log : log[k].op = "Mmap"
    IN  /\ i.call = "start" => i.addr = Len(blocks[t]) + 1
        /\ i.call = "end" => blocks[t] # <<>> /\ Last(blocks[t]) = i.addr
        /\ i.call = "mmap" => t = Main /\ ~mapped
        /\ i.call # "mmap" /\ Phys(i.addr) # i.addr => mapped

Begin(t, i) ==
    /\ Running /\ script[t] = <<>> /\ Possible(t, i)
    /\ executed < test.length /\ executed' = executed + 1
    /\ script' = [script EXCEPT ![t] = Script(t, i)]
    /\ UNCHANGED <<recording, EntryCacheMutex, BBStack, entryCache, storeValueCache, test, mem, blocks, log, ending, upTo>>

\* Mutant: the lock is not waited for.
LockAvailableAlways == TRUE

LockAvailable == EntryCacheMutex = "free"

recordLock(t) ==
    /\ At(t, "lock") /\ Continue(t)
    /\ \/ ~recording /\ UNCHANGED EntryCacheMutex
       \/ recording /\ LockAvailable /\ EntryCacheMutex' = t
    /\ UNCHANGED <<recording, BBStack, entryCache, storeValueCache, program, ending, upTo>>

recordUnlock(t) ==
    /\ At(t, "unlock") /\ Continue(t)
    /\ EntryCacheMutex' = IF recording THEN "free" ELSE EntryCacheMutex
    /\ UNCHANGED <<recording, BBStack, entryCache, storeValueCache, program, ending, upTo>>

\* What instruction i leaves in memory.  A compare-and-exchange that fails is
\* instrumented like one that succeeds: it counts as a store of what it found.
Left(i) ==
    {i.bytes} \cup
    (IF i.call = "cmpxchg" THEN {[k \in DOMAIN i.bytes |-> mem[Phys(i.addr) + k - 1]]} ELSE {})

\* The instruction itself.
Exec(t) ==
    /\ At(t, "exec") /\ Continue(t)
    /\ \E bs \in Left(Head(script[t]).ins) :
       LET i == [Head(script[t]).ins EXCEPT !.bytes = bs]
       IN  /\ log' = log \o Effects(t, i)
           /\ mem' = [a \in DOMAIN mem |->
                        IF "store" \in Does[i.call] /\ a - Phys(i.addr) \in 0..(Len(i.bytes) - 1)
                        THEN i.bytes[a - Phys(i.addr) + 1] ELSE mem[a]]
           /\ blocks' = [blocks EXCEPT ![t] = IF i.call = "start" THEN Append(@, i.addr)
                                              ELSE IF i.call = "end" THEN Front(@) ELSE @]
    /\ UNCHANGED <<recording, EntryCacheMutex, BBStack, entryCache, storeValueCache, test, executed, ending, upTo>>

\* The test of recording at the top of recordLoad, recordStore, recordFlush ...
Record(t) ==
    /\ At(t, "record")
    /\ IF recording THEN Instead(t, [op |-> "add", entry |-> Head(script[t]).entry]) ELSE Continue(t)
    /\ UNCHANGED <<recording, EntryCacheMutex, BBStack, entryCache, storeValueCache, program, ending, upTo>>

\* The rest of them, while the window is mapped; recordStore goes on with the
\* value and recordBB with the stack.
Add(t) ==
    /\ At(t, "add") /\ ending \in {"no", "disable", "entries"}
    /\ LET e == Head(script[t]).entry
       IN  /\ SetEntryCache(addToEntryCache(EntryCache, e))
           /\ IF e.type = "S" THEN Instead(t, [op |-> "value", entry |-> e]) ELSE Continue(t)
           /\ BBStack' = IF e.type = "B" THEN [BBStack EXCEPT ![t] = Front(@)] ELSE BBStack
    /\ UNCHANGED <<recording, EntryCacheMutex, storeValueCache, program, ending, upTo>>

\* The value is what the store has left in memory.
AddValue(t) ==
    /\ At(t, "value") /\ Continue(t)
    /\ LET e == Head(script[t]).entry
       IN  addToStoreValueCache([k \in 1..e.length |-> mem[Phys(e.addr) + k - 1]])
    /\ UNCHANGED <<recording, EntryCacheMutex, BBStack, entryCache, program, ending, upTo>>

recordStartBB(t) ==
    /\ At(t, "push") /\ Continue(t)
    /\ BBStack' = IF recording THEN [BBStack EXCEPT ![t] = Append(@, Head(script[t]).id)] ELSE BBStack
    /\ UNCHANGED <<recording, EntryCacheMutex, entryCache, storeValueCache, program, ending, upTo>>
-----------------------------------------------------------------------------
\* main returns, or cleanup_only_tracing is called in any thread at any step:
\* exit calls finish, and the thread does nothing else.
Exit(t) ==
    /\ ending = "no" /\ ending' = "disable"
    /\ t = Main /\ script[t] = <<>>
    /\ script' = [script EXCEPT ![t] = <<Call("finish")>>]
    /\ UNCHANGED <<recording, EntryCacheMutex, BBStack, entryCache, storeValueCache, program, upTo>>

cleanup_only_tracing(t) ==
    /\ ending = "no" /\ ending' = "disable"
    /\ script' = [script EXCEPT ![t] = <<Call(IF @ = <<>> THEN "finish" ELSE "interrupted")>>]
    /\ UNCHANGED <<recording, EntryCacheMutex, BBStack, entryCache, storeValueCache, program, upTo>>

Finish(from, to) == ending = from /\ ending' = to

\* finish: no record is begun from now on, but others may be in the midst of one.
disableRecording ==
    /\ Finish("disable", "entries") /\ recording' = FALSE
    /\ upTo' = IF \A t \in Threads : script[t] \in {<<>>, <<Call("finish")>>} THEN Len(log) ELSE -1
    /\ UNCHANGED <<EntryCacheMutex, BBStack, entryCache, storeValueCache, script, program>>

\* Mutant: the innermost block of a thread only.
ClosedBlocksTop(t) == IF BBStack[t] = <<>> THEN <<>> ELSE <<Last(BBStack[t])>>

\* The blocks that thread t is in, from the innermost outwards.
ClosedBlocks(t) == Reverse(BBStack[t])

\* closeCacheFile of the trace: a record for every block that was entered and
\* not left, of the threads in any order; the end; the length of the file.
CloseEntryCache ==
    /\ Finish("entries", "values")
    /\ \E ts \in SetToSeqs(Threads) :
          LET open(t) == [k \in DOMAIN ClosedBlocks(t) |-> Entry("B", t, ClosedBlocks(t)[k], 0)]
              es == FlattenSeq([k \in DOMAIN ts |-> open(ts[k])]) \o <<Entry("E", Main, 0, 0)>>
              c  == FoldLeft(addToEntryCache, EntryCache, es)
          IN  SetEntryCache([c EXCEPT !.file = SubSeq(@, 1, c.fileOffset + c.index)])
    /\ BBStack' = [t \in Threads |-> <<>>]
    /\ UNCHANGED <<recording, EntryCacheMutex, storeValueCache, script, program, upTo>>

CloseStoreValueCache ==
    /\ Finish("values", "exited")
    /\ values' = SubSeq(values, 1, valueOffset + currOffset)
    /\ UNCHANGED <<recording, EntryCacheMutex, BBStack, entryCache, currOffset, valueOffset, script, program, upTo>>

ThreadStep(t) ==
    \/ \E i \in test.instructions : Begin(t, i)
    \/ recordLock(t) \/ recordUnlock(t) \/ Exec(t) \/ Record(t) \/ Add(t) \/ AddValue(t) \/ recordStartBB(t)

Next ==
    \/ \E t \in test.threads : ThreadStep(t) \/ Exit(t) \/ cleanup_only_tracing(t)
    \/ disableRecording \/ CloseEntryCache \/ CloseStoreValueCache
-----------------------------------------------------------------------------
\* The types, and the windows: they begin at a multiple of their size, and
\* together they cover the trace without a hole.
TypeOK ==
    /\ recording \in BOOLEAN /\ ending \in {"no", "disable", "entries", "values", "exited"}
    /\ EntryCacheMutex \in Threads \cup {"free"}
    /\ index \in 0..EntryCacheSize /\ fileOffset % EntryCacheSize = 0
    /\ NoEntry \notin Range(file) /\ Len(file) = fileOffset + index
    /\ currOffset \in 0..StoreValueCacheBytes /\ valueOffset % StoreValueCacheBytes = 0
    /\ \A a \in DOMAIN mem : mem[a] \in ByteValues
    /\ upTo \in -1..Len(log)

\* The stores, flushes and fences that the trace and the log hold.
DeviceRecords == SelectSeq(file, LAMBDA e : e.type \in {"S", "H", "F"})
DeviceOps(l) == SelectSeq(l, LAMBDA o : o.op \in {"Store", "Flush", "Fence"})

\* When the program has ended between instructions, every block that a thread
\* entered has its record, those it was in at the end included.
BlocksClosed ==
    ending = "exited" /\ upTo # -1 =>
        \A t \in Threads, b \in 1..test.length :
            Cardinality({k \in DOMAIN file : file[k].type = "B" /\ file[k].tid = t /\ file[k].addr = b}) =
            Cardinality({k \in 1..upTo : log[k].op = "Start" /\ log[k].tid = t /\ log[k].addr = b})

\* The trace lists what the threads did in the order in which they did it: the
\* instruction and its records are one under the mutex, whatever else runs and
\* wherever the program is ended, and the windows lose none of them.  No block
\* that a thread entered is missing in the end.
RecordedInOrder ==
    LET ops == DeviceOps(log)
    IN  /\ TypeOK /\ BlocksClosed
        /\ Len(DeviceRecords) <= Len(ops)
        /\ \A k \in DOMAIN DeviceRecords :
              LET e == DeviceRecords[k]  o == ops[k]
              IN  /\ e.type = (CASE o.op = "Store" -> "S" [] o.op = "Flush" -> "H" [] OTHER -> "F")
                  /\ e.tid = o.tid /\ e.addr = o.addr
                  /\ e.type = "S" => e.length = Len(o.bytes)
=============================================================================
