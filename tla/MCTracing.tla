----------------------------- MODULE MCTracing -----------------------------
(***************************************************************************)
(* Giri, from the program to the dependences of its accesses.  A behaviour *)
(* is about one part of it, which the variable part names:                 *)
(*   "trace"   Tracing and PMTrace one after the other: the program runs   *)
(*             under the tracer, and WitcherPMTrace reads the two files    *)
(*             when it has ended;                                          *)
(*   "search"  TraceFile, on the trace of a recursive program;             *)
(*   "graph"   DependenceGraph, on the trace of one function.              *)
(* The variables of the other parts keep the value they start with.        *)
(***************************************************************************)
EXTENDS Tracing

CONSTANTS Bases, Parts

VARIABLES part,
          position, base, readOffset, pm_addr_start_dup, pm_addr_end_dup, pmtrace, done,
          code, search_trace, frames, count,
          exec, graph_trace, pc, currIndex, curr_range, graphs, toProcess, processedValues,
          processedBBs, ForceAtLeastOnceCache, lines

readerVars == <<position, base, readOffset, pm_addr_start_dup, pm_addr_end_dup, pmtrace, done>>
searchVars == <<code, search_trace, frames, count>>
graphVars == <<exec, graph_trace, pc, currIndex, curr_range, graphs, toProcess, processedValues,
               processedBBs, ForceAtLeastOnceCache, lines>>

Pass == INSTANCE PMTrace WITH currOffset <- readOffset

ASSUME TracingAssumption
-----------------------------------------------------------------------------
\* Bytes of the device: 4..7, and of its second mapping: 8..11.
Ins(call, addr, bytes) == [call |-> call, addr |-> addr, bytes |-> bytes]

NoProgram == [threads |-> {Main}, length |-> 0, instructions |-> {}]

MCPrograms ==
    {[threads |-> {Main}, length |-> 4, instructions |->
        {Ins("mmap", 8, <<>>), Ins("store", 4, <<1, 1>>), Ins("store", 9, <<1>>), Ins("store", 0, <<1, 2>>),
         Ins("pmem_memset", 4, <<>>)}],
     [threads |-> Threads, length |-> 2, instructions |->
        {Ins("store", 4, <<1, 1>>), Ins("cmpxchg", 5, <<2>>), Ins("pmem_memcpy_persist", 5, <<1, 2>>),
         Ins("load", 5, <<>>), Ins("clflush", 5, <<>>), Ins("mfence", 0, <<>>)}],
     [threads |-> Threads, length |-> 3, instructions |->
        {Ins("start", 1, <<>>), Ins("start", 2, <<>>), Ins("end", 1, <<>>)}],
     [threads |-> Threads, length |-> 2, instructions |->
        {Ins("tx_begin", 0, <<>>), Ins("tx_end", 0, <<>>), Ins("tx_add", 4, <<1>>),
         Ins("tx_alloc", 6, <<1>>), Ins("store", 5, <<2>>)}],
     NoProgram}
-----------------------------------------------------------------------------
\* Function 10 calls function 20, which calls itself between stores that the
\* loads around it overlap in part, and ends with a memcpy and a select.  Or two threads run
\* a function that calls itself once or not.
At1(a, l) == {<<a, a, l>>}
Acc(id, op, ranges) == [id |-> id, op |-> op, fun |-> 0, ranges |-> ranges]
Calls(id, fun) == [id |-> id, op |-> "call", fun |-> fun, ranges |-> {}]
Blk(fun, entry, body, succ) == [fun |-> fun, entry |-> entry, body |-> body, succ |-> succ]

MCCodes ==
    {[root |-> <<10>>, limit |-> 36, block |->
        <<Blk(20, TRUE, <<Acc(4, "load", At1(1, 2))>>, {2, 3}),
          Blk(20, FALSE, <<Acc(1, "store", At1(1, 1) \cup At1(2, 1)), Acc(2, "load", At1(1, 2)), Calls(5, 20),
                           Acc(3, "store", At1(2, 2)), Acc(8, "load", At1(1, 2))>>, {2, 3}),
          Blk(20, FALSE, <<Acc(9, "memcpy", {<<1, 2, 2>>}), Acc(11, "select", {<<0, 0, 0>>, <<1, 1, 0>>})>>, {}),
          Blk(10, TRUE, <<Calls(6, 20)>>, {})>>],
     [root |-> <<20, 20>>, limit |-> 12, block |->
        <<Blk(20, TRUE, <<>>, {2, 3}),
          Blk(20, FALSE, <<Acc(1, "store", At1(1, 1)), Calls(5, 20), Acc(8, "load", At1(1, 2))>>, {3}),
          Blk(20, FALSE, <<>>, {})>>]}

Search == INSTANCE TraceFile WITH Codes <- MCCodes, trace <- search_trace
-----------------------------------------------------------------------------
\* A conditional with stores to the device (x, y) and to memory (v), executed
\* once or in two transactions; and a loop behind a conditional memcpy, whose
\* second run takes values from the first.  The uses of operands vary.
Node(id, op, addr, uses) == [id |-> id, op |-> op, addr |-> addr, to |-> "y", uses |-> uses]

Conditional(u2, u4, u7, u8) ==
    [succ |-> <<{2, 3}, {3}, {}>>,
     code |-> <<<<Node(1, "load", "x", {}), Node(2, "other", "", u2), Node(3, "branch", "", {2})>>,
                <<Node(4, "store", "y", u4), Node(10, "store", "v", u4), Node(5, "branch", "", {})>>,
                <<Node(6, "load", "v", {}), Node(7, "other", "", u7), Node(8, "store", "x", u8),
                  Node(9, "branch", "", {})>>>>]
Loop(u2, u4, u7, u8) ==
    [succ |-> <<{2, 3}, {3}, {3, 4}, {}>>,
     code |-> <<<<Node(1, "load", "x", {}), Node(2, "other", "", u2), Node(3, "branch", "", {2})>>,
                <<Node(4, "memcpy", "x", {}), Node(5, "branch", "", {})>>,
                <<Node(6, "load", "y", u4), Node(7, "other", "", u7), Node(8, "store", "x", u8),
                  Node(9, "branch", "", {6})>>,
                <<Node(11, "load", "x", {}), Node(12, "branch", "", {})>>>>]

Along(f, path, skip, cut) == [succ |-> f.succ, code |-> f.code, path |-> path, skip |-> skip, cut |-> cut]

MCExecutions ==
    UNION {{Along(Conditional(u2, u4, u7, u8), p, c, c) : p \in {<<1, 2, 3>>, <<1, 2, 3, 1, 3>>}, c \in {0, 1}}
           \cup {Along(Loop(u2, u4, u7, u8), p, 0, 0) : p \in {<<1, 3, 3, 4>>, <<1, 2, 3, 3, 4>>}} :
           u2 \in SUBSET {1}, u4 \in SUBSET {1, 2}, u7 \in SUBSET {2, 6}, u8 \in SUBSET {1, 7}}

Graph == INSTANCE DependenceGraph WITH Executions <- MCExecutions, Pm <- {"x", "y"}, trace <- graph_trace
-----------------------------------------------------------------------------
NoSearch == code = 0 /\ search_trace = 0 /\ frames = 0 /\ count = 0
NoGraph ==
    /\ exec = 0 /\ graph_trace = 0 /\ pc = 0 /\ currIndex = 0 /\ curr_range = 0 /\ graphs = 0
    /\ toProcess = 0 /\ processedValues = 0 /\ processedBBs = 0 /\ ForceAtLeastOnceCache = 0 /\ lines = 0

MCInit ==
    /\ Init /\ Pass!init /\ part \in Parts
    /\ \/ part = "trace" /\ test # NoProgram /\ NoSearch /\ NoGraph
       \/ part = "search" /\ test = NoProgram /\ Search!Init /\ NoGraph
       \/ part = "graph" /\ test = NoProgram /\ NoSearch /\ Graph!Init

MCNext ==
    /\ UNCHANGED part
    /\ \/ /\ part = "trace"
          /\ \/ Next /\ UNCHANGED readerVars
             \/ /\ ending = "exited" /\ Pass!run
                /\ UNCHANGED <<recording, EntryCacheMutex, BBStack, index, fileOffset, currOffset, valueOffset,
                               script, program, ending, upTo>>
          /\ UNCHANGED <<searchVars, graphVars>>
       \/ part = "search" /\ Search!Next /\ UNCHANGED <<vars, readerVars, graphVars>>
       \/ part = "graph" /\ Graph!Next /\ UNCHANGED <<vars, readerVars, searchVars>>

MCSpec == MCInit /\ [][MCNext]_<<part, vars, readerVars, searchVars, graphVars>>
-----------------------------------------------------------------------------
\* The searches back stay in the execution of the function they start in, see
\* TraceFile.  A load is found from the record of its block, and its sources are
\* the stores that last wrote its bytes, each in the right execution of its
\* block.  Calls, returns and the blocks that return are matched, and the
\* arguments of a function execution are those of the call that started it.
SearchesExact ==
    part = "search" => Search!BlocksFound /\ Search!SourcesFound /\ Search!CallsMatched

\* The graph that is printed for a transaction has exactly the dependences
\* between its accesses of the device, see DependenceGraph.
PpdgExact == part = "graph" => Graph!PpdgExact
-----------------------------------------------------------------------------
\* What the program did to the device, in the terms of the device.
OfDevice(l) ==
    LET kept(o) == \/ o.op \in {"Fence", "TXStart", "TXEnd", "PMDKStart", "PMDKEnd", "TXAdd", "TXAlloc"}
                   \/ o.op = "Flush" /\ Phys(o.addr) \in PmAddr..(PmAddr + PmSize - 1)
                   \/ o.op = "Store" /\ Phys(o.addr) \in PmAddr..(PmAddr + PmSize - 1) /\ o.bytes # <<>>
        s == SelectSeq(l, kept)
    IN  [k \in DOMAIN s |-> [s[k] EXCEPT !.addr = Phys(@), !.bytes = IF s[k].op \in {"TXAdd", "TXAlloc"} THEN <<>> ELSE @]]

OfThread(t, l) == SelectSeq(l, LAMBDA o : o.tid = t)

SameButLastValue(s, l) ==
    \A k \in DOMAIN s : s[k] = l[k] \/ (k = Len(s) /\ [s[k] EXCEPT !.bytes = l[k].bytes] = l[k])

WithoutValues(l) == [k \in DOMAIN l |-> [l[k] EXCEPT !.bytes = <<>>]]

\* The trace of the device is what the program did: the stores, flushes and
\* fences in the order of all threads, and with the marks of transactions and
\* the ranges added to them in the order of every thread.  The stores have
\* their values if checkCacheBoundaryAndUpdateCurrOffset steps over the gaps
\* that the writer left: the value file is mapped at a multiple of the size of
\* the window, or lies in one such window (mmap promises neither).  A
\* compare-and-exchange that failed appears as a store of what it found.
\* The trace is complete when the program ended between instructions.  When it
\* ended in the midst of one, it is a beginning; the value of the last store,
\* or a mark not reached yet, is all that may differ.
PMTraceFaithful ==
    done =>
        LET Kept(l) == IF Pass!ValuesAligned THEN l ELSE WithoutValues(l)
            ran == Kept(OfDevice(IF upTo = -1 THEN log ELSE SubSeq(log, 1, upTo)))
            trace == Kept(pmtrace)
            out == DeviceOps(trace)
        IN  /\ Len(out) <= Len(DeviceOps(ran))
            /\ SameButLastValue(out, DeviceOps(ran))
            /\ \A t \in Threads :
                  LET mine == OfThread(t, trace)  his == OfThread(t, ran)
                      n == IF Len(mine) = Len(his) + 1 /\ upTo = -1 /\ Last(mine).op \in {"TXStart", "TXEnd", "PMDKStart"}
                           THEN Len(his) ELSE Len(mine)
                  IN  n <= Len(his) /\ SameButLastValue(SubSeq(mine, 1, n), his)
            /\ upTo # -1 => /\ out = DeviceOps(ran)
                            /\ \A t \in Threads : OfThread(t, trace) = OfThread(t, ran)
=============================================================================
