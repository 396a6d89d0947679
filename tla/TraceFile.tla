------------------------------ MODULE TraceFile ------------------------------
(***************************************************************************)
(* How the analyses find their way in a trace: the searches of giri's      *)
(* TraceFile.cpp.  A record says which instruction or block of the program *)
(* it is of, not which execution of it.  The searches recover that, with a *)
(* count of nested executions for recursive programs.                      *)
(*                                                                         *)
(* A program runs and writes records as the tracer does: a block when it   *)
(* ends (type "B"), loads and stores ("L", "S"), the choice of a select as *)
(* an address ("P"), calls before ("C") and returns after the callee       *)
(* ("R"), and "E" last.  Blocks and instructions are numbered apart, so    *)
(* that the same number may be one of each.  Calls are direct: the tracer  *)
(* does not record others.  In every record, run and act are the execution *)
(* of the block and of the function that it belongs to, and to is the      *)
(* execution of the function called; the searches do not see them.         *)
(***************************************************************************)
EXTENDS Integers, Sequences, FiniteSets, FiniteSetsExt, SequencesExt

CONSTANT Codes   \* the programs: [block, root, limit]

VARIABLES code,        \* the program, never changed
          trace,
          frames,      \* per thread: the functions under way, [act, block, run, at, call]
          count        \* executions of functions and blocks so far

vars == <<code, trace, frames, count>>

\* block[b] has a function, its instructions and its successors, none for a
\* block that returns.  An instruction: [id, op, fun, ranges].  root gives the
\* functions that the threads run, limit bounds the length of the trace.
Blocks == DOMAIN code.block
BlockOf(id) == CHOOSE b \in Blocks : \E i \in Range(code.block[b].body) : i.id = id
EntryBlock(f) == CHOOSE b \in Blocks : code.block[b].fun = f /\ code.block[b].entry
Tids == DOMAIN code.root

Frame(f, n) == [act |-> n, block |-> EntryBlock(f), run |-> n, at |-> 1, call |-> 0]

Init ==
    /\ code \in Codes
    /\ trace = <<>>
    /\ frames = [t \in Tids |-> <<Frame(code.root[t], -t)>>]
    /\ count = 0

Ended == trace # <<>> /\ Last(trace).type = "E"
Returned == Ended /\ \A t \in Tids : frames[t] = <<>>

Record(type, id, t, address, length, f, to) ==
    [type |-> type, id |-> id, tid |-> t, address |-> address, length |-> length,
     run |-> f.run, act |-> f.act, to |-> to]

Top(t) == Last(frames[t])
Body(f) == code.block[f.block].body
FunOf(f) == code.block[f.block].fun
SetTop(t, f) == frames' = [frames EXCEPT ![t] = Append(Front(@), f)]
AccessRecords == [load |-> <<"L">>, store |-> <<"S">>, memcpy |-> <<"L", "S">>, select |-> <<"P">>]
Runs(t) == ~Ended /\ frames[t] # <<>> /\ Len(trace) < code.limit

\* A load, a store, both, or a select: memcpy records its load and then its store.
Access(t) ==
    /\ Runs(t) /\ Top(t).at <= Len(Body(Top(t)))
    /\ LET f == Top(t)  i == Body(f)[f.at]
       IN  /\ i.op \in DOMAIN AccessRecords
           /\ \E r \in i.ranges :
                 trace' = trace \o [k \in DOMAIN AccessRecords[i.op] |->
                                      Record(AccessRecords[i.op][k], i.id, t, r[k], r[3], f, 0)]
           /\ SetTop(t, [f EXCEPT !.at = @ + 1])
    /\ UNCHANGED <<code, count>>

Call(t) ==
    /\ Runs(t) /\ Top(t).at <= Len(Body(Top(t))) /\ Top(t).call = 0
    /\ LET f == Top(t)  i == Body(f)[f.at]
       IN  /\ i.op = "call"
           /\ trace' = Append(trace, Record("C", i.id, t, i.fun, 0, f, count + 1))
           /\ frames' = [frames EXCEPT ![t] = Append(Front(@), [f EXCEPT !.call = count + 1])
                                              \o <<Frame(i.fun, count + 1)>>]
    /\ count' = count + 1 /\ UNCHANGED code

\* The end of a block, with the next one or the return to the caller.
EndBlock(t) ==
    /\ Runs(t) /\ Top(t).at > Len(Body(Top(t)))
    /\ LET f == Top(t)  next == code.block[f.block].succ
       IN  /\ trace' = Append(trace, Record("B", f.block, t, FunOf(f), 0, f, 0))
           /\ \/ \E b \in next : SetTop(t, [f EXCEPT !.block = b, !.run = count + 1, !.at = 1])
              \/ next = {} /\ frames' = [frames EXCEPT ![t] = Front(@)]
    /\ count' = count + 1 /\ UNCHANGED code

Return(t) ==
    /\ Runs(t) /\ Top(t).at <= Len(Body(Top(t))) /\ Top(t).call # 0
    /\ LET f == Top(t)  i == Body(f)[f.at]
       IN  /\ trace' = Append(trace, Record("R", i.id, t, i.fun, 0, f, f.call))
           /\ SetTop(t, [f EXCEPT !.at = @ + 1, !.call = 0])
    /\ UNCHANGED <<code, count>>

\* exit: the blocks that are under way are recorded, the innermost first.
closeCacheFile ==
    /\ ~Ended /\ trace # <<>>
    /\ LET open(t) == [k \in 1..Len(frames[t]) |->
                          LET f == frames[t][Len(frames[t]) + 1 - k]
                          IN  Record("B", f.block, t, FunOf(f), 0, f, 0)]
           all == FoldLeft(LAMBDA s, t : s \o open(t), <<>>, SetToSeq(Tids))
       IN  trace' = trace \o all \o <<Record("E", 0, 0, 0, 0, [run |-> 0, act |-> 0], 0)>>
    /\ UNCHANGED <<code, frames, count>>

Next == closeCacheFile \/ \E t \in Tids : Access(t) \/ Call(t) \/ EndBlock(t) \/ Return(t)

Spec == Init /\ [][Next]_vars
-----------------------------------------------------------------------------
\* The trace as the reader sees it: indices start at 0, and maxIndex is also
\* what a search returns that finds nothing.  Failed stands for a fatal error,
\* an assert or a read outside of the trace.
At(i) == trace[i + 1]
maxIndex == Len(trace) - 1
Failed == -1

RECURSIVE ScanToBlock(_, _, _)
\* The rest of the loop of getDynValueFromIndex.
ScanToBlock(b, i, stack) ==
    LET e == At(i)
    IN  IF i >= maxIndex THEN Failed
        ELSE IF e.type = "C" THEN ScanToBlock(b, i + 1, <<e.address>> \o stack)
        ELSE IF e.type = "R" /\ stack # <<>> /\ Head(stack) = e.address THEN ScanToBlock(b, i + 1, Tail(stack))
        ELSE IF stack = <<>> /\ e.type = "B" /\ e.id = b THEN i
        ELSE ScanToBlock(b, i + 1, stack)

\* The block execution of the access at start.
getDynValueFromIndex(start) == ScanToBlock(BlockOf(At(start).id), start + 1, <<>>)

\* buildTraceFunAddrMap: only functions that are called have an address.
traceFunAddr(f) == IF \E i \in 0..(maxIndex - 1) : At(i).type = "C" /\ At(i).address = f THEN f ELSE Failed

\* Mutant: the blocks of inner executions are taken too.
NestingNone(e, tid, funAddr) == 0

\* How an entry changes the level, on the way back: a return leads into an
\* inner execution of the function, a call out of it.
Nesting(e, tid, funAddr) ==
    IF e.tid # tid \/ e.address # funAddr THEN 0
    ELSE CASE e.type = "R" -> 1 [] e.type = "C" -> -1 [] OTHER -> 0

RECURSIVE ScanBack(_, _, _, _, _, _)
\* The rest of the loop of findPreviousID.  It ends at index 0 without a look at
\* it, and a search that starts there runs out of the trace.
ScanBack(funAddr, i, type, tid, ids, nesting) ==
    LET e == At(i)  hit == e.type = type /\ e.tid = tid /\ e.id \in ids
    IN  IF nesting < 0 THEN Failed
        ELSE IF hit /\ (nesting = 0 \/ (nesting = 1 /\ type = "C" /\ e.address = funAddr)) THEN i
        ELSE IF i = 0 THEN Failed
        ELSE IF i = 1 THEN maxIndex
        ELSE ScanBack(funAddr, i - 1, type, tid, ids, nesting + Nesting(e, tid, funAddr))

findPreviousID(fun, start, type, tid, ids) == ScanBack(traceFunAddr(fun), start, type, tid, ids, 0)

\* The execution of block b at or before record i.  A value whose block is not
\* found is remembered in BuggyValues, and not looked for again; here every
\* search is the first.
normalize(i, b) == findPreviousID(code.block[b].fun, i, "B", At(i).tid, {b})

\* The latest execution of one of the blocks ids before that of block b.
getExecForcer(i, b, ids) ==
    LET n == normalize(i, b)
    IN  IF n = maxIndex THEN maxIndex
        ELSE findPreviousID(code.block[b].fun, n - 1, "B", At(n).tid, ids)

\* The execution that block b, with a phi node, was entered from.
getSourcesForPHI(i, b) == getExecForcer(i, b, {p \in Blocks : b \in code.block[p].succ})

\* The record of select id in the execution of its block at or before record i.
getSourceForSelect(i, id) ==
    LET n == normalize(i, BlockOf(id))
    IN  findPreviousID(code.block[BlockOf(id)].fun, n, "P", At(n).tid, {id})

RECURSIVE ScanNested(_, _, _, _, _, _)
\* The rest of the loop of findPreviousNestedID.
ScanNested(i, type, tid, id, nestedID, nesting) ==
    LET e == At(i)
        level == nesting + (IF e.type = "B" /\ e.tid = tid /\ e.id = nestedID THEN 1 ELSE 0)
    IN  IF i < 0 THEN Failed
        ELSE IF e.type = type /\ e.tid = tid /\ e.id = id
             THEN IF nesting = 0 THEN i ELSE ScanNested(i - 1, type, tid, id, nestedID, nesting - 1)
        ELSE ScanNested(i - 1, type, tid, id, nestedID, level)

findPreviousNestedID(start, type, tid, id, nestedID) == ScanNested(start - 1, type, tid, id, nestedID, 0)

\* Mutant: the number of a block is taken for that of an instruction.
NestsAnyType(e, nestID, tid) == e.id = nestID /\ e.tid = tid

Nests(e, nestID, tid) == e.type # "B" /\ e.id = nestID /\ e.tid = tid

RECURSIVE ScanForward(_, _, _, _, _, _)
\* The rest of the loop of findNextNestedID.
ScanForward(i, type, id, nestID, tid, nesting) ==
    LET e == At(i)  hit == e.type = type /\ e.id = id /\ e.tid = tid
    IN  IF i > maxIndex THEN Failed
        ELSE IF hit /\ nesting = 0 THEN i
        ELSE ScanForward(i + 1, type, id, nestID, tid,
                         nesting - (IF hit THEN 1 ELSE 0) + (IF Nests(e, nestID, tid) THEN 1 ELSE 0))

findNextNestedID(start, type, id, nestID, tid) == ScanForward(start, type, id, nestID, tid, 0)

overlaps(a1, l1, a2, l2) ==
    /\ ~(a1 < a2 /\ a1 + l1 - 1 < a2)
    /\ ~(a2 < a1 /\ a2 + l2 - 1 < a1)

\* Mutant: one store is the source of a whole load.
RemaindersNone(s, address, length) == {}

\* The parts of a load before and behind the store s.
Remainders(s, address, length) ==
    {p \in {<<address, s.address - address>>,
            <<s.address + s.length, (address + length) - (s.address + s.length)>>} : p[2] > 0}

RECURSIVE findAllStoresForLoad(_, _, _)
\* The stores that a load of length bytes at address takes its bytes from: the
\* indices of the records of their blocks, with those of the stores.
findAllStoresForLoad(store_index, address, length) ==
    LET found == {i \in 0..store_index : At(i).type = "S" /\ overlaps(At(i).address, At(i).length, address, length)}
        i == Max(found)
    IN  IF found = {} THEN {}
        ELSE {<<i, findNextNestedID(i + 1, "B", BlockOf(At(i).id), At(i).id, At(i).tid)>>}
             \cup UNION {findAllStoresForLoad(i - 1, p[1], p[2]) : p \in Remainders(At(i), address, length)}

\* The record of load id in the execution of its block at or before record i,
\* and its stores.
getSourcesForLoad(i, id) ==
    LET n == normalize(i, BlockOf(id))
        l == findPreviousNestedID(n, "L", At(n).tid, id, BlockOf(id))
    IN  <<l, findAllStoresForLoad(l - 1, At(l).address, At(l).length)>>

RECURSIVE ScanToReturn(_, _, _, _, _)
\* The rest of the loop of matchReturnWithCall.
ScanToReturn(i, bbID, callID, tid, nesting) ==
    LET e == At(i)
        level == nesting + (IF e.type = "B" /\ e.tid = tid /\ e.id = bbID THEN 1 ELSE 0)
    IN  IF i < 0 THEN Failed
        ELSE IF e.type = "R" /\ e.id = callID /\ e.tid = tid /\ nesting = 0 THEN i
        ELSE IF e.type = "C" /\ e.id = callID /\ e.tid = tid
             THEN IF nesting = 0 THEN Failed ELSE ScanToReturn(i - 1, bbID, callID, tid, nesting - 1)
        ELSE ScanToReturn(i - 1, bbID, callID, tid, level)

matchReturnWithCall(start, bbID, callID, tid) == ScanToReturn(start - 1, bbID, callID, tid, 0)

\* The record of the return from call id in the execution of its block at or
\* before record i, and that of the block that returned: the last block record
\* of all threads, if it is one of the function.  Otherwise the call is treated
\* like one of a library.
Library == -2
getSourcesForCall(i, id) ==
    LET n == normalize(i, BlockOf(id))
        r == matchReturnWithCall(n, BlockOf(id), id, At(n).tid)
        k == Max({j \in 0..(r - 1) : At(j).type = "B"})
    IN  <<r, IF At(k).tid = At(r).tid /\ At(k).address = At(r).address THEN k ELSE Library>>

\* Mutant: inner executions of the calling block are not counted.
CallsAgainNever(e, call) == FALSE

CallsAgain(e, call) == e.type = "C" /\ e.tid = call.tid /\ e.id = call.id

RECURSIVE ScanToCaller(_, _, _, _)
\* The rest of the second loop of getSourcesForArg.
ScanToCaller(i, call, bbid, nesting) ==
    LET e == At(i)
        level == nesting - (IF e.type = "B" /\ e.tid = call.tid /\ e.id = bbid THEN 1 ELSE 0)
    IN  IF CallsAgain(e, call) THEN ScanToCaller(i + 1, call, bbid, nesting + 1)
        ELSE IF e.type = "E" \/ (level = 0 /\ nesting > 0) THEN i
        ELSE ScanToCaller(i + 1, call, bbid, level)

\* The record of the call that the arguments of the function execution of block
\* record i come from, and the record of the block that calls.
getSourcesForArg(i) ==
    LET n == normalize(i, EntryBlock(At(i).address))
        calls == {k \in 0..(n - 1) : At(k).type = "C" /\ At(k).tid = At(n).tid /\ At(k).address = At(n).address}
        c == Max(calls)
    IN  IF calls = {} THEN <<Failed, Failed>>
        ELSE <<c, ScanToCaller(c + 1, At(c), BlockOf(At(c).id), 1)>>
-----------------------------------------------------------------------------
\* The record of the block execution that record i belongs to.
BlockRecord(i) == CHOOSE k \in 0..maxIndex : At(k).type = "B" /\ At(k).run = At(i).run

Records(type) == {i \in 0..maxIndex : At(i).type = type}

\* The types of the execution: block executions have one record each.
TypeOK ==
    /\ Len(trace) <= code.limit + 2 + FoldFunction(LAMBDA s, n : Len(s) + n, 0, frames)
    /\ Ended => \A i, k \in Records("B") : At(i).run = At(k).run => i = k

\* getDynValueFromIndex finds the execution of the block that an access was
\* part of, over calls in between, in the trace of one thread.  It finds none
\* if the program ended within such a call.
AccessesPlaced ==
    Ended /\ Cardinality(Tids) = 1 =>
        \A i \in Records("L") \cup Records("S") :
            LET k == getDynValueFromIndex(i)
            IN  k = BlockRecord(i) \/ (k = Failed /\ ~Returned)

\* The searches back stay in the execution of the function they start in: they
\* return its latest block among the ones asked for, and the one that a block
\* was entered from, whatever was executed in between.  The first record of a
\* trace is never found.  (The end of the program within a call leaves a call
\* without return, and the assert on the level fails.)
BlocksFound ==
    /\ TypeOK /\ AccessesPlaced
    /\ Returned =>
          \A i \in Records("B") \ {0} :
             LET mine == {k \in Records("B") : k < i /\ At(k).act = At(i).act}
             IN  /\ normalize(i, At(i).id) = i
                 /\ \A b \in {At(k).id : k \in mine} :
                       LET last == Max({k \in mine : At(k).id = b})
                       IN  last # 0 /\ b # At(i).id => normalize(i, b) = last
                 /\ \A ids \in SUBSET {At(k).id : k \in mine} \ {{}} :
                       LET last == Max({k \in mine : At(k).id \in ids})
                       IN  last # 0 => getExecForcer(i, At(i).id, ids) = last
                 /\ mine \ {0} # {} => getSourcesForPHI(i, At(i).id) = Max(mine)

\* The last store to byte x before i.
LastWriter(i, x) ==
    Max({Failed} \cup {k \in Records("S") : k < i /\ x \in At(k).address..(At(k).address + At(k).length - 1)})

\* A load is found from the record of its block, and its sources are the stores
\* that last wrote its bytes, each with the right execution of its block.  A
\* select is found too.
SourcesFound ==
    Returned =>
        /\ \A i \in Records("P") : getSourceForSelect(BlockRecord(i), At(i).id) = i
        /\ \A i \in Records("L") :
              LET found == getSourcesForLoad(BlockRecord(i), At(i).id)
                  bytes == At(i).address..(At(i).address + At(i).length - 1)
              IN  /\ found[1] = i
                  /\ found[2] = {<<s, BlockRecord(s)>> : s \in {LastWriter(i, x) : x \in bytes} \ {Failed}}

\* The return of a call is matched with it, and the block that returned with
\* both, unless another thread ended a block in between.  The arguments of a
\* function execution are found, from all its blocks, as those of the call that
\* started it, in the right execution of its block.
CallsMatched ==
    Returned =>
        \A r \in Records("R") :
            LET found  == getSourcesForCall(BlockRecord(r), At(r).id)
                callee == {k \in Records("B") : At(k).act = At(r).to}
                call   == CHOOSE c \in Records("C") : At(c).to = At(r).to
            IN  /\ found[1] = r
                /\ \/ found[2] = Max(callee)
                   \/ /\ found[2] = Library
                      /\ \E k \in Records("B") : Max(callee) < k /\ k < r /\ At(k).tid # At(r).tid
                /\ \A i \in callee : getSourcesForArg(i) = <<call, BlockRecord(call)>>
=============================================================================
