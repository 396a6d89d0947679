--------------------------- MODULE CrashValidator ---------------------------
(***************************************************************************)
(* How a crash image is judged: WitcherCrashValidator and its variants     *)
(* with a server ("memcached", "redis"), for operations of several threads *)
(* ("mt") and for the crash points of PMDK transactions ("NoLogging", and  *)
(* "InterTx" for the two other types).  The program recovers from the      *)
(* image and runs the rest of the operations.  Its output is compared with *)
(* oracles:                                                                *)
(* the outputs of runs without a crash in which the operations that the    *)
(* crash hit took effect or did not.                                       *)
(*                                                                         *)
(* The program is a map of one key: its state is a value, 0 for none.      *)
(* What it recovers from an image may be any state.  The run may break off *)
(* at any operation, or never end.  The runs for the oracles may break off *)
(* too.  TXs count from 0, as the lines of the files do.                   *)
(***************************************************************************)
EXTENDS Naturals, Sequences, SequencesExt

CONSTANTS Tests,    \* [kind, ops, threads, txs]: txs are the TXs of the images
          Values

VARIABLES test,      \* never changed
          pc,
          run,       \* of the image: its TX and how the rest of the operations ran
          oracles,   \* the files, by the operations that took effect
          tested, reported_crash_plans,
          runs       \* all runs so far (history)

vars == <<test, pc, run, oracles, tested, reported_crash_plans, runs>>

NoRun == [tx |-> 0, ends |-> "none", output |-> <<>>]
NoFile == [there |-> FALSE, lines |-> <<>>]
File(lines) == [there |-> TRUE, lines |-> lines]

Init ==
    /\ test \in Tests
    /\ pc = "validate" /\ run = NoRun /\ oracles = <<>>
    /\ tested = <<>> /\ reported_crash_plans = <<>> /\ runs = <<>>
-----------------------------------------------------------------------------
\* The program: a state and the lines that were written.
run_op(r, o) ==
    [state |-> CASE o.op = "i" -> o.val [] o.op = "d" -> 0 [] OTHER -> r.state,
     lines |-> Append(r.lines, IF o.op = "g" THEN r.state ELSE 0)]

read_op_and_run(state, ops) == FoldLeft(run_op, [state |-> state, lines |-> <<>>], ops)

\* The operations before the crash, those it hit, and the rest: all for the TX
\* tx but for several threads, whose operations are the last before the rest.
Prefix(tx) == SubSeq(test.ops, 1, tx)
Crashed(tx) == SubSeq(test.ops, tx + 1, tx + test.threads)
Suffix(tx) == SubSeq(test.ops, tx + test.threads + 1, Len(test.ops))

\* Mutant: the threads' operations are taken to have all taken effect.
EffectsAll(tx) ==
    IF test.kind = "mt"
    THEN {p \in [1..test.threads -> 1..test.threads] : \A i, j \in DOMAIN p : p[i] = p[j] => i = j}
    ELSE {<<>>, <<1>>}

\* The oracles: for one thread, with the operation and without it; for several,
\* every permutation of some of their operations.
Effects(tx) ==
    IF test.kind = "mt"
    THEN UNION {{p \in [1..n -> 1..test.threads] : \A i, j \in 1..n : p[i] = p[j] => i = j} : n \in 0..test.threads}
    ELSE {<<>>, <<1>>}

\* The operations of an oracle's run.
OracleOps(tx, p) == Prefix(tx) \o [i \in DOMAIN p |-> Crashed(tx)[p[i]]] \o Suffix(tx)
OracleLines(tx, p) == read_op_and_run(0, OracleOps(tx, p)).lines

\* A run for an oracle leaves all lines, some of them or no file.
OracleFiles(tx, p) == {File(SubSeq(OracleLines(tx, p), 1, n)) : n \in {0, tx, Len(OracleOps(tx, p))}} \cup {NoFile}
-----------------------------------------------------------------------------
\* The program recovers a state and runs the rest, to its end or up to a point
\* where it breaks off, or is still running after 10 seconds.  A server that
\* breaks off is seen as short output by run_memcached.
execute_from_crash_state(tx, state, ends) ==
    LET lines == read_op_and_run(state, Suffix(tx)).lines
        cut == {SubSeq(lines, 1, n) : n \in 0..(Len(lines) - 1)}
    IN  CASE ends = "done" -> {[tx |-> tx, ends |-> "done", output |-> lines]}
          [] ends = "broken" /\ test.kind = "memcached" ->
                {[tx |-> tx, ends |-> "done", output |-> c] : c \in cut}
          [] OTHER -> {[tx |-> tx, ends |-> ends, output |-> <<>>]}

\* update_result, for the run r: a report says what it is for, the core dump or
\* how the comparisons ended.
update_result(r, should_report, reason) ==
    /\ tested' = Append(tested, Len(tested) + 1)
    /\ reported_crash_plans' =
          IF should_report THEN Append(reported_crash_plans, [plan |-> Len(tested) + 1, reason |-> reason])
          ELSE reported_crash_plans
    /\ runs' = Append(runs, r)

\* check_consistency, up to the oracles.  redis.Redis raises an exception that
\* ends the unit.  WitcherTxCrashValidator waits without a limit, and so do the
\* clients of the servers.
check_consistency ==
    /\ pc = "validate" /\ Len(runs) < Len(test.txs)
    /\ \E state \in Values, ends \in {"done", "broken", "long"} :
          \E r \in execute_from_crash_state(test.txs[Len(runs) + 1], state, ends) :
             \/ /\ r.ends = "long" /\ test.kind \in {"exe", "mt"}
                /\ update_result(r, TRUE, <<"timeout">>)
                /\ UNCHANGED <<pc, run>>
             \/ /\ r.ends = "long" /\ test.kind \notin {"exe", "mt"}
                /\ pc' = "waits" /\ UNCHANGED <<run, tested, reported_crash_plans, runs>>
             \/ /\ r.ends = "broken" /\ test.kind # "redis"
                /\ update_result(r, TRUE, <<"core dump">>)
                /\ UNCHANGED <<pc, run>>
             \/ /\ r.ends = "broken" /\ test.kind = "redis"
                /\ pc' = "died" /\ UNCHANGED <<run, tested, reported_crash_plans, runs>>
             \/ /\ r.ends = "done"
                /\ pc' = "oracles" /\ run' = r /\ UNCHANGED <<tested, reported_crash_plans, runs>>
    /\ UNCHANGED <<test, oracles>>

\* The keys of the oracles of TX tx: 'full' is that of all TXs.
Key(tx, p) == IF test.kind = "mt" THEN <<"mt", p>> ELSE IF p = <<>> THEN <<"skip", tx>> ELSE <<"full">>
FileOf(tx, p) == oracles[Key(tx, p)]

\* The oracles that are needed: after a crash within a transaction, undo logging
\* must take the operation back (CrashPointNoLogging).
Needed(tx) == IF test.kind = "NoLogging" THEN {<<>>} ELSE Effects(tx)

\* get_oracles: the output of the traced run is there, the others are made once.
\* (At most one of the runs breaks off.)
get_oracles ==
    /\ pc = "oracles"
    /\ LET new == {p \in Needed(run.tx) : Key(run.tx, p) \notin DOMAIN oracles}
           made(q, f) == [k \in DOMAIN oracles \cup {Key(run.tx, p) : p \in new} |->
                            IF k \in DOMAIN oracles THEN oracles[k] ELSE IF k = q THEN f
                            ELSE File(OracleLines(run.tx, CHOOSE p \in new : Key(run.tx, p) = k))]
       IN  IF new = {} THEN UNCHANGED oracles
           ELSE \E p \in new : \E f \in OracleFiles(run.tx, p) :
                   /\ Key(run.tx, p) = <<"full">> => f = File(OracleLines(run.tx, p))
                   /\ oracles' = made(Key(run.tx, p), f)
    /\ pc' = "compare"
    /\ UNCHANGED <<test, run, tested, reported_crash_plans, runs>>

\* Mutant: the lines of both oracles are compared from the same one on.
OracleIndexFull(tx, p) == tx + test.threads

\* The first line to compare with.
OracleIndex(tx, p) == tx + Len(p)

\* What is compared, and its outcome.
compare_to_oracle_from_index(output, file, oracle_index) ==
    LET rest == SubSeq(file.lines, oracle_index + 1, Len(file.lines))
        differ == {i \in DOMAIN output : output[i] # rest[i]}
    IN  IF ~file.there \/ Len(output) # Len(rest) THEN <<"crash">>
        ELSE IF differ = {} THEN <<"match">>
        ELSE <<"tx", oracle_index + (CHOOSE i \in differ : \A j \in differ : i <= j) - 1>>

compare_to_oracles ==
    /\ pc = "compare"
    /\ LET outcome == [p \in Needed(run.tx) |->
                          compare_to_oracle_from_index(run.output, FileOf(run.tx, p), OracleIndex(run.tx, p))]
       IN  update_result(run, \A p \in DOMAIN outcome : outcome[p] # <<"match">>, outcome)
    /\ pc' = "validate" /\ run' = NoRun
    /\ UNCHANGED <<test, oracles>>

Next == check_consistency \/ get_oracles \/ compare_to_oracles

Spec == Init /\ [][Next]_vars
-----------------------------------------------------------------------------
\* The reference: the states that the program may be in after a crash in tx,
\* when each operation that it hit has taken effect at once or not at all, one
\* after the other.  A transaction that was not committed has no effect.
Allowed(tx) ==
    LET orders == {<<>>} \cup
                  IF test.kind = "NoLogging" THEN {} ELSE UNION {SetToSeqs({Crashed(tx)[i] : i \in S}) : S \in SUBSET (1..test.threads)}
    IN  {read_op_and_run(0, Prefix(tx) \o o).state : o \in orders}

Explained(r) == \E s \in Allowed(r.tx) : read_op_and_run(s, Suffix(r.tx)).lines = r.output

IsReported(k) == \E i \in DOMAIN reported_crash_plans : reported_crash_plans[i].plan = k

\* An oracle of TX tx is not what a whole run of the program writes.
BadOracle(tx) ==
    \E p \in Needed(tx) : Key(tx, p) \in DOMAIN oracles /\ FileOf(tx, p) # File(OracleLines(tx, p))

\* The verdicts: every image is tested once and reported at most once.  An image
\* is passed only if the program ran to the end and wrote what it would have
\* written after a recovery to one of the states that are allowed.  And none is
\* reported that did, unless the run for an oracle broke off: it is kept for all
\* images of the TX.  (If memcached breaks off at the same operation in both, the
\* outputs match.)
VerdictsExact ==
    /\ tested = [k \in DOMAIN runs |-> k]
    /\ \A i, j \in DOMAIN reported_crash_plans : reported_crash_plans[i].plan = reported_crash_plans[j].plan => i = j
    /\ \A k \in DOMAIN runs :
          LET r == runs[k]
          IN  IF IsReported(k) THEN r.ends # "done" \/ ~Explained(r) \/ BadOracle(r.tx)
              ELSE r.ends = "done" /\ (Explained(r) \/ (test.kind = "memcached" /\ BadOracle(r.tx)))
=============================================================================
