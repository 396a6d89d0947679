----------------------------- MODULE MCEngines ------------------------------
(***************************************************************************)
(* The replay on the simulated cache that all engines share, the           *)
(* exhaustive engine, the engine for PMDK transactions, the validators and *)
(* the checker of traces, side by side.  A behaviour is about one of them, *)
(* which the variable part names; the variables of the others keep the     *)
(* value they start with.                                                  *)
(***************************************************************************)
EXTENDS FullEngine

CONSTANTS BodyLen,     \* the operations of a TX between TXStart and TXEnd
          ReplayLen    \* the operations of a trace that is only replayed

VARIABLES part,
          replay_ops, replay_pos, replay_lines, replay_flushed, replay_file, replay_image,
          input, step, tx_pos, witcher_tx_index, pmdk_tx_stack, rangeable_list,
          store_without_logging_list, store_list, store_list_by_pmdk_tx, pre,
          crash_points, crash_point_list, double_logging_list,
          stores_outside, tx_file, crash_point_index, tx_tested,
          test, phase, run, oracles, judged, reported_crash_plans, runs,
          trace, label, index_in, tx, atomic_write_ops, tx_ranges, index, tx_start, stores,
          in_PMDK_TX, use_PMDK_TX, pmdk_tx_depth, pmdk_call_stack, pmdk_logs, res

replayVars == <<replay_ops, replay_pos, replay_lines, replay_flushed, replay_file, replay_image>>
checkerVars == <<trace, label, index_in, tx, atomic_write_ops, tx_ranges, index, tx_start, stores,
                 in_PMDK_TX, use_PMDK_TX, pmdk_tx_depth, pmdk_call_stack, pmdk_logs, res>>
validatorVars == <<test, phase, run, oracles, judged, reported_crash_plans, runs>>
txVars == <<input, step, tx_pos, witcher_tx_index, pmdk_tx_stack, rangeable_list,
            store_without_logging_list, store_list, store_list_by_pmdk_tx, pre,
            crash_points, crash_point_list, double_logging_list,
            stores_outside, tx_file, crash_point_index, tx_tested>>

NoReplay ==
    /\ replay_ops = 0 /\ replay_pos = 0 /\ replay_lines = 0 /\ replay_flushed = 0
    /\ replay_file = 0 /\ replay_image = 0

NoTxEngine ==
    /\ input = 0 /\ step = 0 /\ tx_pos = 0 /\ witcher_tx_index = 0 /\ pmdk_tx_stack = 0
    /\ rangeable_list = 0 /\ store_without_logging_list = 0 /\ store_list = 0
    /\ store_list_by_pmdk_tx = 0 /\ pre = 0 /\ crash_points = 0 /\ crash_point_list = 0
    /\ double_logging_list = 0 /\ stores_outside = 0 /\ tx_file = 0 /\ crash_point_index = 0
    /\ tx_tested = 0

NoValidator ==
    /\ test = 0 /\ phase = 0 /\ run = 0 /\ oracles = 0 /\ judged = 0
    /\ reported_crash_plans = 0 /\ runs = 0

NoChecker ==
    /\ trace = 0 /\ label = 0 /\ index_in = 0 /\ tx = 0 /\ atomic_write_ops = 0 /\ tx_ranges = 0
    /\ index = 0 /\ tx_start = 0 /\ stores = 0 /\ in_PMDK_TX = 0 /\ use_PMDK_TX = 0
    /\ pmdk_tx_depth = 0 /\ pmdk_call_stack = 0 /\ pmdk_logs = 0 /\ res = 0
-----------------------------------------------------------------------------
\* The exhaustive engine: TXs of BodyLen operations over two lines.
MCLines == {"A", "B"}
MCCells == {"a1", "a2", "b1"}
MCLineOf == [c \in MCCells |-> IF c = "b1" THEN "B" ELSE "A"]

Op(type, line, cells) == [type |-> type, line |-> line, cells |-> cells, obj |-> "none"]
Mark(type) == Op(type, "A", {})
Flush(line) == Op("Flush", line, {})

Stores == {Op("Store", "A", {"a1"}), Op("Store", "A", {"a1", "a2"}), Op("Store", "B", {"b1"})}
Alphabet == Stores \cup {Flush("A"), Flush("B"), Mark("Fence")}

\* A TX that starts with a store and ends with a fence.
Bodies == {b \in [1..BodyLen -> Alphabet] : b[1] \in Stores /\ b[BodyLen].type = "Fence"}

\* A store between the TXs is left in line A when the second one starts.
Before == <<Op("Store", "A", {"a2"}), Mark("PMDK"), Mark("TXStart"), Op("Store", "B", {"b1"}),
            Flush("B"), Mark("Fence"), Mark("TXEnd"), Op("Store", "A", {"a1"})>>

Alone(b, p) ==
    [ops |-> <<Mark("TXStart")>> \o b \o <<Mark("TXEnd")>>,
     ranges |-> <<[lo |-> 1, hi |-> Len(b) + 2]>>, plan |-> <<p>>]

Second(b, p) ==
    [ops |-> Before \o <<Mark("TXStart")>> \o b \o <<Mark("TXEnd")>>,
     ranges |-> <<[lo |-> 3, hi |-> 7],
                  [lo |-> Len(Before) + 1, hi |-> Len(Before) + Len(b) + 2]>>,
     plan |-> <<0, p>>]

Idle == Alone(<<>>, 0)

\* Numbers of crash states stay below 2^20.
MCRounded(a, b) == a \div b + 1

MCInputs == {Alone(b, p) : b \in Bodies, p \in {0, 2, 5, 7}} \cup {Second(b, 0) : b \in Bodies} \cup {Idle}
-----------------------------------------------------------------------------
\* The replay: all traces of ReplayLen operations over the same lines.
Replay == INSTANCE CacheReplay WITH
    Programs <- [1..ReplayLen -> Alphabet \cup {Mark("TXEnd")}],
    ops <- replay_ops, pos <- replay_pos, cacheline_dict <- replay_lines, flushed <- replay_flushed,
    file <- replay_file, image <- replay_image

ASSUME Replay!ProgramsAssumption
-----------------------------------------------------------------------------
\* The engine for transactions: two of them, or one in the other, with stores
\* outside and a second TX.
TxOp(type, cells, obj) == [type |-> type, cells |-> cells, obj |-> obj]
TxMark(type) == <<TxOp(type, {}, "none")>>
x == TxOp("Store", {1}, "x")
y == TxOp("Store", {2}, "y")
Logs == {TxOp("TXAdd", {1}, "none"), TxOp("TXAdd", {1, 2}, "none"), TxOp("TXAlloc", {2}, "none")}

Contents == {<<>>} \cup {<<o>> : o \in Logs \cup {x, y}} \cup {<<o, p>> : o, p \in Logs \cup {x, y}}
Fewer == {<<o>> : o \in Logs \cup {x, y}} \cup {<<o, p>> : o \in Logs, p \in {x, y}}
Outside == {<<>>, <<x>>, <<y, TxOp("Flush", {2}, "none"), TxOp("Fence", {}, "none")>>}

Pmdk(b) == TxMark("begin") \o b \o TxMark("end")

TxTrace(body) ==
    [ops |-> TxMark("TXStart") \o body \o TxMark("TXEnd")
             \o <<x>> \o TxMark("Fence") \o TxMark("TXStart") \o <<y>> \o TxMark("Fence") \o TxMark("TXEnd"),
     ranges |-> <<[lo |-> 1, hi |-> Len(body) + 2], [lo |-> Len(body) + 5, hi |-> Len(body) + 8]>>]

TxInputs ==
    {[ops |-> t.ops, ranges |-> t.ranges, critical |-> b[1], hb |-> b[2]] :
        t \in {TxTrace(Pmdk(b) \o o \o Pmdk(d)) : b \in Contents, o \in Outside, d \in Fewer}
              \cup {TxTrace(TxMark("begin") \o b \o Pmdk(d) \o <<y>> \o TxMark("end")) : b \in Fewer, d \in Fewer},
        b \in {<<{"x"}, {}>>, <<{}, {<<"y", "x">>}>>}}

Tx == INSTANCE TxEngine WITH
    Inputs <- TxInputs, Cells <- {1, 2}, Objects <- {"x", "y"}, NoObject <- "none",
    pc <- step, pos <- tx_pos, file <- tx_file, tested <- tx_tested

ASSUME Tx!InputsAssumption
-----------------------------------------------------------------------------
\* The validators: two images of the same TX or of different ones, in tests that
\* end with a lookup.
Put(op, val) == [op |-> op, val |-> val]
Get == Put("g", 0)
Three == {<<a, b, Get>> : a, b \in {Put("i", 1), Put("i", 2), Put("d", 0), Get}}

ValidatorTests ==
    [kind : {"exe", "memcached", "redis", "NoLogging", "InterTx"}, ops : Three, threads : {1},
     txs : {<<0, 0>>, <<1, 0>>, <<2, 1>>}]
    \cup {[kind |-> "mt", ops |-> o \o <<Get>>, threads |-> 2, txs |-> <<t, t>>] : o \in Three, t \in {0, 1}}

Validator == INSTANCE CrashValidator WITH
    Tests <- ValidatorTests, Values <- {0, 1, 2}, pc <- phase, tested <- judged
-----------------------------------------------------------------------------
\* The checker: words of two bytes, lines of four; stores across words and lines,
\* flushes between two TXs, logs and stores in transactions, nested ones and
\* calls, and a TX that is left out.
Entry(type, addr, size) == [type |-> type, addr |-> addr, size |-> size, func |-> "", note |-> ""]
Call(f, n) == [Entry("Call", 0, 0) EXCEPT !.func = f, !.note = n]
Called(f, b) == <<Call(f, "start")>> \o b \o <<Call(f, "end")>>
Section(b) == <<Entry("TXStart", 0, 0)>> \o b \o <<Entry("TXEnd", 0, 0)>>
InPmdk(b) == Called("pmemobj_tx_begin", <<>>) \o b \o Called("pmemobj_tx_end", <<>>)

Accesses == {Entry("Store", 1, 2), Entry("Store", 3, 4), Entry("Store", 4, 1),
             Entry("Flush", 2, 0), Entry("Flush", 4, 0), Entry("Fence", 0, 0)}
Logging == {<<Entry("Store", 1, 2)>>, <<Entry("Store", 3, 4)>>, <<Entry("TXAdd", 0, 2)>>,
            <<Entry("TXAlloc", 4, 1)>>, InPmdk(<<Entry("TXAdd", 3, 1)>>),
            Called("pmemobj_tx_alloc", <<Entry("Store", 0, 1)>>)}

CheckerTraces ==
    {Section(<<s, a, b>>) \o <<Entry("Flush", 0, 0), Entry("Fence", 0, 0)>> \o Section(<<d, e>>) :
        s \in {f \in Accesses : f.type = "Store"}, a, b \in Accesses,
        d, e \in {Entry("Store", 4, 1), Entry("Flush", 2, 0), Entry("Fence", 0, 0)}}
    \cup {Section(InPmdk(a \o b \o d) \o e) : a, b, d, e \in Logging \ {<<Entry("TXAdd", 0, 2)>>, <<Entry("TXAlloc", 4, 1)>>}}
    \cup {Section(InPmdk(a \o b) \o <<Entry("Store", 3, 4)>>) \o Section(InPmdk(d) \o <<Entry("Store", 1, 2)>>) : a, b, d \in Logging}

Checker == INSTANCE TraceChecker WITH
    Traces <- CheckerTraces, ATOMIC_WRITE_BYTES <- 2, CACHELINE_BYTES <- 4, TooLong <- 17,
    pc <- label, pos <- index_in, ranges <- tx_ranges, pmdk_tx_stack <- pmdk_tx_depth

ASSUME Checker!CheckerAssumption
-----------------------------------------------------------------------------
MCInit ==
    /\ part \in {"replay", "full", "tx", "validator", "checker"}
    /\ Init
    /\ part # "full" => ops = Idle.ops
    /\ IF part = "replay" THEN Replay!Init ELSE NoReplay
    /\ IF part = "tx" THEN Tx!Init ELSE NoTxEngine
    /\ IF part = "validator" THEN Validator!Init ELSE NoValidator
    /\ IF part = "checker" THEN Checker!Init ELSE NoChecker

MCNext ==
    /\ UNCHANGED part
    /\ \/ part = "replay" /\ Replay!Next /\ UNCHANGED <<vars, txVars, validatorVars, checkerVars>>
       \/ part = "full" /\ Next /\ UNCHANGED <<replayVars, txVars, validatorVars, checkerVars>>
       \/ part = "tx" /\ Tx!Next /\ UNCHANGED <<vars, replayVars, validatorVars, checkerVars>>
       \/ part = "validator" /\ Validator!Next /\ UNCHANGED <<vars, replayVars, txVars, checkerVars>>
       \/ part = "checker" /\ Checker!Next /\ UNCHANGED <<vars, replayVars, txVars, validatorVars>>

allVars == <<vars, part, replayVars, txVars, validatorVars, checkerVars>>
MCSpec == MCInit /\ [][MCNext]_allVars

\* A line of the simulated cache holds exactly the stores replayed to it that no
\* fence has made durable, and the pool file what the others wrote, the later
\* one winning where two overlap, whenever WitcherCache writes back.
CacheExact == part = "replay" => Replay!CacheExact

\* Every image the cache builds for a crash plan is one the persistent memory
\* may leave behind, and the cache keeps what the memory guarantees
\* (WitcherCache.accept, the write-backs, get_stores_from_crash_plan).
ImplementsPersistentMemory ==
    [][part = "replay" => Replay!PM!Next \/ UNCHANGED Replay!PM!vars]_allVars

\* Without nested transactions the crash points listed are those that the trace
\* asks for, each once and in order, and so are the ranges logged twice.  The
\* replay of the trace tests all of them in their order, unless two crash at the
\* same operation, and the image tested at one holds what is durable there, for
\* cells that are stored to only inside or only outside of transactions.
CrashPointsExact ==
    part = "tx" => Tx!TypeOK /\ Tx!CrashPointsExact /\ Tx!AllTested /\ Tx!ImagesCurrent

\* get_stores splits a store into writes that each lie in one word and have all
\* of its bytes, and the ids are the places in the list, on which the ranges of
\* the TXs rely.  WitcherTCEngine reports exactly the bytes that may be lost when
\* a TX starts or at the end, and the flushes, fences and logs without need,
\* as they follow from the bytes of the trace.
ChecksExact == part = "checker" => Checker!Parsed /\ Checker!Reported

\* An image is passed by the validators only if the program recovers from it to
\* what the operations allow, and reported only if not, see CrashValidator.
VerdictsExact == part = "validator" => Validator!VerdictsExact
=============================================================================
