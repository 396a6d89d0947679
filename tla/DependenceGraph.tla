-------------------------- MODULE DependenceGraph --------------------------
(***************************************************************************)
(* From the trace of a program to the accesses of the device that depend   *)
(* on each other: WitcherPDG, which slices back from every access of a     *)
(* transaction, and WitcherPPDG, which keeps the accesses of the device.   *)
(*                                                                         *)
(* A function with the graph succ of its blocks runs once or several times *)
(* (path); block 1 is its entry.  The searches in the trace are those that *)
(* TraceFile shows to be right.  A dynamic value is <<id, i>>: instruction *)
(* id in the execution of a block that record i stands for.  normalize     *)
(* turns the i of a block that uses the value into that of its own.        *)
(***************************************************************************)
EXTENDS Integers, Sequences, FiniteSets, FiniteSetsExt, SequencesExt

CONSTANTS Executions,   \* [succ, code, path, skip, cut]
          Pm            \* the addresses of the device

VARIABLES exec, trace,            \* never changed
          pc,
          currIndex, curr_range,  \* the next record; the transaction
          graphs,                 \* per transaction: edges [from, to, type]
          toProcess, processedValues, processedBBs,
          ForceAtLeastOnceCache,  \* empty until the first question
          lines                   \* per transaction: the edges of the ppdg

searchVars == <<toProcess, processedValues, processedBBs, ForceAtLeastOnceCache>>
vars == <<exec, trace, pc, currIndex, curr_range, graphs, searchVars, lines>>

Blocks == DOMAIN exec.succ
Block(id) == CHOOSE b \in Blocks : \E n \in DOMAIN exec.code[b] : exec.code[b][n].id = id
Instr(id) == CHOOSE n \in Range(exec.code[Block(id)]) : n.id = id
getTerminator(b) == Last(exec.code[b]).id

\* The records of an execution of block b; memcpy reads addr and writes to.
Accesses(n, run) ==
    LET load == [type |-> "L", id |-> n.id, run |-> run, addr |-> n.addr]
        store(a) == [type |-> "S", id |-> n.id, run |-> run, addr |-> a]
    IN  CASE n.op = "load" -> <<load>> [] n.op = "store" -> <<store(n.addr)>>
          [] n.op = "memcpy" -> <<load, store(n.to)>> [] OTHER -> <<>>

Records(e) ==
    FlattenSeq([run \in DOMAIN e.path |->
        FlattenSeq([k \in DOMAIN e.code[e.path[run]] |-> Accesses(e.code[e.path[run]][k], run)])
        \o <<[type |-> "B", id |-> e.path[run], run |-> run, addr |-> "none"]>>])

RecordOf(run) == CHOOSE i \in DOMAIN trace : trace[i].type = "B" /\ trace[i].run = run

\* The calls of the function, and the transaction of each: its records but for
\* the first skip and the last cut.
Entries == {run \in DOMAIN exec.path : exec.path[run] = 1}
NumTx == Cardinality(Entries)
CallOf(run) == Cardinality({r \in Entries : r <= run})
TxRange(t) ==
    LET call == {i \in DOMAIN trace : CallOf(trace[i].run) = t}
    IN  (Min(call) + exec.skip)..(Max(call) - exec.cut)

Init ==
    /\ exec \in Executions /\ trace = Records(exec)
    /\ pc = "pdg" /\ currIndex = Len(trace) /\ curr_range = NumTx
    /\ graphs = [t \in 1..NumTx |-> {}]
    /\ toProcess = <<>> /\ processedValues = {} /\ processedBBs = <<>> /\ ForceAtLeastOnceCache = <<>>
    /\ lines = [t \in 1..NumTx |-> <<>>]
-----------------------------------------------------------------------------
\* The latest of the blocks bs that was executed up to record i in its call.
Latest(i, bs) ==
    LET runs == {r \in 1..trace[i].run : exec.path[r] \in bs /\ CallOf(r) = CallOf(trace[i].run)}
    IN  IF runs = {} THEN 0 ELSE RecordOf(Max(runs))

normalize(v) == <<v[1], Latest(v[2], {Block(v[1])})>>

\* The value of the access at index i.
getDynValueFromIndex(i) == <<trace[i].id, RecordOf(trace[i].run)>>

\* The stores that the loads of v take their values from.
getSourcesForLoad(v) ==
    LET loads == {i \in 1..v[2] : trace[i].type = "L" /\ getDynValueFromIndex(i) = v}
        stores(l) == {i \in 1..(l - 1) : trace[i].type = "S" /\ trace[i].addr = trace[l].addr}
    IN  {getDynValueFromIndex(Max(stores(l))) : l \in {k \in loads : stores(k) # {}}}

\* Operands are given with the index of their user.
getSourcesFor(v) == {<<o, v[2]>> : o \in Instr(v[1]).uses} \cup getSourcesForLoad(v)
-----------------------------------------------------------------------------
\* The blocks that can reach a return without block b.
EndsWithout(b) ==
    LET closed == {S \in SUBSET (Blocks \ {b}) :
                      \A x \in Blocks \ {b} : exec.succ[x] = {} \/ exec.succ[x] \cap S # {} => x \in S}
    IN  {x \in Blocks : \A S \in closed : x \in S}

\* PostDominatorTree and PostDominanceFrontier, of LLVM.
PostDominates(b, x) == x \notin EndsWithout(b)
properlyDominates(b, x) == b # x /\ PostDominates(b, x)
PostDominanceFrontier(b) == {x \in Blocks : ~properlyDominates(b, x) /\ \E y \in exec.succ[x] : PostDominates(b, y)}

\* The first answer of findExecForcers: the blocks that can force b to run.
ExecForcers(b) == PostDominanceFrontier(b) \cup (IF properlyDominates(b, 1) THEN {1} ELSE {})

\* The first question, about block b, fills the caches for all blocks of the
\* function.  But each of them sets the flag of b, and the last one remains.
CacheAfter(b) ==
    IF DOMAIN ForceAtLeastOnceCache = {}
    THEN [x \in {b} |-> properlyDominates(Max(Blocks), 1)]
    ELSE ForceAtLeastOnceCache

\* The second answer; a map gives FALSE for what it does not hold.
AtLeastOnce(b) == b \in DOMAIN CacheAfter(b) /\ CacheAfter(b)[b]

NULL == <<>>

\* The terminator that v is controlled by, if it is to be recorded: the choice
\* that slicingCtrlDep makes for a block that it meets first.  (If nothing can
\* force the block, it looks again next time.)
CtrlDep(v) ==
    LET b == Block(v[1])  forcer == Latest(RecordOf(trace[v[2]].run - 1), ExecForcers(b))
    IN  IF forcer # 0 /\ (trace[forcer].id # 1 \/ ~AtLeastOnce(b) \/ ExecForcers(b) = {1})
        THEN <<getTerminator(trace[forcer].id), forcer>> ELSE NULL

\* Mutant: a block's control dependence is recorded for its first value only.
CtrlDepsOnce(v) == IF v[2] \in DOMAIN processedBBs \/ CtrlDep(v) = NULL THEN {} ELSE {CtrlDep(v)}

\* With the results of blocks met before.
CtrlDeps(v) ==
    LET d == IF v[2] \in DOMAIN processedBBs THEN processedBBs[v[2]] ELSE CtrlDep(v)
    IN  IF d = NULL THEN {} ELSE {d}

slicingCtrlDep(v) ==
    IF Block(v[1]) = 1 \/ v[2] \in DOMAIN processedBBs
    THEN UNCHANGED <<processedBBs, ForceAtLeastOnceCache>>
    ELSE /\ ForceAtLeastOnceCache' = CacheAfter(Block(v[1]))
         /\ processedBBs' = [i \in DOMAIN processedBBs \cup {v[2]} |->
                                IF i = v[2] THEN CtrlDep(v) ELSE processedBBs[i]]
-----------------------------------------------------------------------------
\* getNextLoadOrStore and what generatePDGs does with the access: it begins a
\* slice, or it lies outside of the transaction.
NextLoadOrStore ==
    /\ pc = "pdg" /\ toProcess = <<>> /\ currIndex > 0
    /\ \/ /\ currIndex \in TxRange(curr_range) /\ trace[currIndex].type # "B"
          /\ toProcess' = <<getDynValueFromIndex(currIndex)>>
          /\ currIndex' = currIndex - 1 /\ UNCHANGED curr_range
       \/ /\ trace[currIndex].type # "B" /\ currIndex < Min(TxRange(curr_range))
          /\ \/ curr_range > 1 /\ curr_range' = curr_range - 1 /\ UNCHANGED currIndex
             \/ curr_range = 1 /\ currIndex' = 0 /\ UNCHANGED curr_range
          /\ UNCHANGED toProcess
       \/ /\ trace[currIndex].type = "B" \/ currIndex > Max(TxRange(curr_range))
          /\ currIndex' = currIndex - 1 /\ UNCHANGED <<curr_range, toProcess>>
    /\ UNCHANGED <<exec, trace, pc, graphs, processedValues, processedBBs, ForceAtLeastOnceCache, lines>>

IsProcessed(v) == v \in processedValues

\* One value of slicing.  The edges name operands as getSourcesFor gives them;
\* they are normalized when their turn comes, and sliced under this new name.
slicing ==
    /\ pc = "pdg" /\ toProcess # <<>>
    /\ LET v == normalize(Head(toProcess))
           ctrl == IF Block(v[1]) = 1 THEN {} ELSE CtrlDeps(v)
           data == getSourcesFor(v)
       IN  \/ /\ v[2] \notin TxRange(curr_range) \/ IsProcessed(v)
              /\ toProcess' = Tail(toProcess)
              /\ UNCHANGED <<graphs, processedValues, processedBBs, ForceAtLeastOnceCache>>
           \/ /\ v[2] \in TxRange(curr_range) /\ ~IsProcessed(v)
              /\ processedValues' = processedValues \cup {v}
              /\ slicingCtrlDep(v)
              /\ graphs' = [graphs EXCEPT ![curr_range] = @
                              \cup {[from |-> v, to |-> d, type |-> "ctrl"] : d \in ctrl}
                              \cup {[from |-> v, to |-> d, type |-> "data"] : d \in data}]
              /\ toProcess' = SetToSeq(data) \o SetToSeq(IF v[2] \in DOMAIN processedBBs THEN {} ELSE ctrl)
                              \o Tail(toProcess)
    /\ UNCHANGED <<exec, trace, pc, currIndex, curr_range, lines>>
-----------------------------------------------------------------------------
Vertices(t) == UNION {{e.from, e.to} : e \in graphs[t]}
Targets(t, v, type) == {e.to : e \in {d \in graphs[t] : d.from = v /\ d.type = type}}

\* generateVertices: the accesses of the device that the pdg has.
generateVertices(t) ==
    {i \in TxRange(t) : trace[i].type # "B" /\ trace[i].addr \in Pm /\ getDynValueFromIndex(i) \in Vertices(t)}
getVertices(t, value) == {i \in generateVertices(t) : getDynValueFromIndex(i) = value}

\* Mutant: accesses of the same instruction stop the search too.
StopsAtItself(t, v, u) == getVertices(t, normalize(v)) # {}

\* The search for u stops at another access of the device.
Stops(t, v, u) == getVertices(t, normalize(v)) # {} /\ normalize(v) # u

RECURSIVE getDataEdges(_, _, _, _)
\* The vertices that were processed, and the accesses that were found.
getDataEdges(t, v, u, processed) ==
    IF Stops(t, v, u) THEN <<processed \cup {v}, getVertices(t, normalize(v))>>
    ELSE FoldLeft(LAMBDA r, d : IF d \in r[1] THEN r
                                ELSE LET n == getDataEdges(t, d, u, r[1]) IN <<n[1], r[2] \cup n[2]>>,
                  <<processed \cup {v}, {}>>, SetToSeq(Targets(t, v, "data")))

\* Mutant: conditions are not searched for accesses behind them.
CtrlEdgesDirect(t, u) == UNION {getVertices(t, normalize(d)) : d \in Targets(t, u, "ctrl")}

getCtrlEdges(t, u) == UNION {getDataEdges(t, d, u, {})[2] : d \in Targets(t, u, "ctrl")}

InOrder(S) == SelectSeq([i \in DOMAIN trace |-> i], LAMBDA i : i \in S)
Lines(i, found, type) == LET js == InOrder(found) IN [k \in DOMAIN js |-> [edge |-> <<i, js[k]>>, type |-> type]]

\* Mutant: the control dependences of a vertex first.
EdgesOfCtrlFirst(t, i) ==
    LET u == getDynValueFromIndex(i)
    IN  Lines(i, getCtrlEdges(t, u), "ctrl") \o Lines(i, getDataEdges(t, u, u, {})[2], "data")

\* The edges of one vertex.
EdgesOf(t, i) ==
    LET u == getDynValueFromIndex(i)
    IN  Lines(i, getDataEdges(t, u, u, {})[2], "data") \o Lines(i, getCtrlEdges(t, u), "ctrl")

generaeteEdges(t) == FoldLeft(LAMBDA s, i : s \o EdgesOf(t, i), <<>>, InOrder(generateVertices(t)))

generatePPDGs ==
    /\ pc = "pdg" /\ toProcess = <<>> /\ currIndex = 0
    /\ pc' = "done"
    /\ lines' = [t \in 1..NumTx |-> generaeteEdges(t)]
    /\ UNCHANGED <<exec, trace, currIndex, curr_range, graphs, searchVars>>

Next == NextLoadOrStore \/ slicing \/ generatePPDGs

Spec == Init /\ [][Next]_vars /\ WF_vars(Next)
-----------------------------------------------------------------------------
\* The reference, from the execution: what a value depends on, and what it
\* depends on in the block that computes it or through memory.
DependsOn(v) == {normalize(d) : d \in getSourcesFor(v)}
DependsLocally(v) == {d \in getSourcesFor(v) : normalize(d) = d}
HasUse(t, S, w) == \E v \in S : v[2] \in TxRange(t) /\ w \in DependsLocally(v)

\* The branch that the run of v's block is put down to: that of the latest block
\* that can force it, not the entry if the block runs in every call.  What the
\* flag of the cache decides is taken from the graph.
DependsOnFlag(v) ==
    /\ ExecForcers(Block(v[1])) # {1}
    /\ Latest(RecordOf(trace[v[2]].run - 1), ExecForcers(Block(v[1]))) = Latest(v[2], {1})
Decider(t, v) ==
    LET r == Latest(RecordOf(trace[v[2]].run - 1), ExecForcers(Block(v[1])))
    IN  IF Block(v[1]) = 1 \/ v[2] \notin TxRange(t) THEN {}
        ELSE IF DependsOnFlag(v) THEN Targets(t, v, "ctrl")
        ELSE IF r = 0 THEN {} ELSE {<<getTerminator(trace[r].id), r>>}

RECURSIVE Sliced(_, _)
\* What the values S depend on, within transaction t.
Sliced(t, S) ==
    LET new == UNION {DependsOn(v) \cup Decider(t, v) : v \in {x \in S : x[2] \in TxRange(t)}} \ S
    IN  IF new = {} THEN S ELSE Sliced(t, S \cup new)

DeviceAccesses(t) == {i \in TxRange(t) : trace[i].type # "B" /\ trace[i].addr \in Pm}

\* The accesses of the device that depend on something, or are used where they
\* are made: others get no vertex.
Related(t) ==
    LET all == Sliced(t, {getDynValueFromIndex(i) : i \in {k \in TxRange(t) : trace[k].type # "B"}})
    IN  {i \in DeviceAccesses(t) :
            LET v == getDynValueFromIndex(i)
            IN  \/ v[2] \in TxRange(t) /\ (getSourcesFor(v) # {} \/ Decider(t, v) # {})
                \/ HasUse(t, all, v)}

RECURSIVE Behind(_, _, _, _)
\* The values that S takes its own from, up to accesses of the device.
Behind(t, S, u, pm) ==
    LET new == UNION {DependsLocally(v) : v \in {x \in S : x[2] \in TxRange(t) /\ (x = u \/ x \notin pm)}} \ S
    IN  IF new = {} THEN S ELSE Behind(t, S \cup new, u, pm)

\* The accesses among related that the values S depend on directly.
Sources(t, S, u, related) ==
    LET pm == {getDynValueFromIndex(i) : i \in related}
        via == {v \in Behind(t, S, u, pm) : v[2] \in TxRange(t) /\ (v = u \/ v \notin pm)}
        found == (S \cup UNION {DependsOn(v) : v \in via}) \ {u}
    IN  {i \in related : getDynValueFromIndex(i) \in found}

Dependences(t) ==
    LET related == Related(t)
        edges(i) == LET u == getDynValueFromIndex(i)
                        ctrl == UNION {Sources(t, {d}, u, related) : d \in Decider(t, u)}
                    IN  ([edge : {<<i, j>> : j \in Sources(t, {u}, u, related)}, type : {"data"}]
                         \cup [edge : {<<i, j>> : j \in ctrl}, type : {"ctrl"}])
    IN  UNION {edges(i) : i \in related}
-----------------------------------------------------------------------------
\* The graph that is printed for a transaction has exactly the dependences
\* between its accesses of the device, through any values in between that are
\* used in the block that computes them, however the slices of the accesses
\* overlap.  (A value that another block uses has two vertices, the one that
\* this edge leads to without edges of its own.)  The data line of a pair comes
\* before its control line, as BeliefDatabase needs it.
PpdgExact ==
    pc = "done" =>
        \A t \in 1..NumTx :
            /\ Range(lines[t]) = Dependences(t)
            /\ \A m, n \in DOMAIN lines[t] :
                  lines[t][m].edge = lines[t][n].edge /\ lines[t][m].type = "data" /\ lines[t][n].type = "ctrl" => m < n
=============================================================================
