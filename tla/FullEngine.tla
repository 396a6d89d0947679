----------------------------- MODULE FullEngine -----------------------------
(***************************************************************************)
(* The exhaustive engine (engines/witcherparallelfull): it numbers the     *)
(* crash states of a TX, fence after fence, cuts the numbers into budgets  *)
(* and has every budget tested by a process of its own.                    *)
(*                                                                         *)
(* Two replays have to agree on the numbers: the engine counts with the    *)
(* cache of yatengine.py, a unit (WitcherParallelFullCrashManager) decodes *)
(* a number with WitcherCache.  The units share nothing; here they run one *)
(* after the other, each from the beginning of the trace.                  *)
(***************************************************************************)
EXTENDS WitcherCache, Integers, FiniteSets, FiniteSetsExt, SequencesExt

CONSTANTS Inputs,   \* [ops, ranges, plan]: trace, its TXs, plans by TX (0: none)
          BUDGET,   \* the crash states that a unit tests
          FloatExact,      \* below it a division in floating point is exact
          Rounded(_, _)    \* what such a division, truncated, gives from there on

ASSUME InputsAssumption ==
    /\ BUDGET \in Nat \ {0} /\ FloatExact \in Nat
    /\ \A i \in Inputs :
          /\ IsTrace(i.ops)
          /\ i.ranges \in Seq([lo : DOMAIN i.ops, hi : DOMAIN i.ops]) /\ i.ranges # <<>>
          /\ i.plan \in [DOMAIN i.ranges -> Nat]
          /\ \A k \in DOMAIN i.ranges :
                /\ i.ranges[k].lo < i.ranges[k].hi
                /\ k > 1 => i.ranges[k - 1].hi < i.ranges[k].lo
          /\ \A j \in DOMAIN i.ops :
                /\ i.ops[j].type = "TXStart" <=> \E k \in DOMAIN i.ranges : j = i.ranges[k].lo
                /\ i.ops[j].type = "TXEnd" <=> \E k \in DOMAIN i.ranges : j = i.ranges[k].hi

VARIABLES ranges, plan,                                 \* never changed
          pc,
          stores_list, yat_flushed,                     \* the YatCache
          permutation_count, permutation_count_list,
          tx_id, plans,                                 \* the TX, its budgets to come
          crash_targets,                                \* of the unit, those to come
          last_permutation_count,
          tested, ntested                               \* <<fence, stores>>; how many

counting == <<stores_list, yat_flushed, permutation_count_list>>
unit == <<crash_targets, last_permutation_count>>
frozen == <<ops, ranges, plan>>
results == <<tested, ntested>>
vars == <<frozen, pos, cacheVars, image, pc, counting, permutation_count, tx_id, plans, unit, results>>

Init ==
    /\ \E i \in Inputs : ops = i.ops /\ ranges = i.ranges /\ plan = i.plan
    /\ pos = ranges[1].lo
    /\ image = [c \in Cells |-> 0] /\ file = [c \in Cells |-> 0]
    /\ cacheline_dict = [l \in Lines |-> {}] /\ flushed = [i \in DOMAIN ops |-> Clear]
    /\ pc = "count"
    /\ stores_list = [l \in Lines |-> {}] /\ yat_flushed = {}
    /\ permutation_count = 0 /\ permutation_count_list = <<>>
    /\ tx_id = 1 /\ plans = <<>> /\ crash_targets = {} /\ last_permutation_count = 0
    /\ tested = {} /\ ntested = 0

\* YatPermutator.run, and permutation_count of a unit: every line keeps some
\* beginning of its stores, not all lines none.
Permutations_(lists) == FoldSet(LAMBDA l, p : p * (Cardinality(lists[l]) + 1), 1, Lines) - 1

InTX == \E k \in DOMAIN ranges : pos \in (ranges[k].lo + 1)..(ranges[k].hi - 1)
-----------------------------------------------------------------------------
\* Mutant: a count is listed at both marks.
CountMarkBoth ==
    /\ ops[pos].type \in {"TXStart", "TXEnd"}
    /\ permutation_count' = IF ops[pos].type = "TXStart" THEN 0 ELSE permutation_count
    /\ permutation_count_list' = Append(permutation_count_list, permutation_count)
    /\ stores_list' = [l \in Lines |-> {}] /\ yat_flushed' = {}

\* TXStart and TXEnd empty the cache.
CountMark ==
    /\ ops[pos].type \in {"TXStart", "TXEnd"}
    /\ permutation_count' = IF ops[pos].type = "TXStart" THEN 0 ELSE permutation_count
    /\ permutation_count_list' = IF ops[pos].type = "TXEnd"
                                 THEN Append(permutation_count_list, permutation_count)
                                 ELSE permutation_count_list
    /\ stores_list' = [l \in Lines |-> {}] /\ yat_flushed' = {}

\* A store or a flush; outside a TX it is passed over.
CountAccept ==
    /\ ops[pos].type \in {"Store", "Flush", "PMDK"} \/ ~InTX
    /\ ops[pos].type \notin {"TXStart", "TXEnd"}
    /\ stores_list' = IF InTX /\ ops[pos].type = "Store"
                      THEN [stores_list EXCEPT ![ops[pos].line] = @ \cup {pos}] ELSE stores_list
    /\ yat_flushed' = IF InTX /\ ops[pos].type = "Flush"
                      THEN yat_flushed \cup stores_list[ops[pos].line] ELSE yat_flushed
    /\ UNCHANGED <<permutation_count, permutation_count_list>>

\* Mutant: the states are counted when the flushed stores have left.
CountFenceLate ==
    /\ ops[pos].type = "Fence" /\ InTX
    /\ stores_list' = [l \in Lines |-> stores_list[l] \ yat_flushed]
    /\ permutation_count' = permutation_count + Permutations_(stores_list')
    /\ yat_flushed' = {}
    /\ UNCHANGED permutation_count_list

\* A fence in a TX: its states are counted and the flushed stores leave.
CountFence ==
    /\ ops[pos].type = "Fence" /\ InTX
    /\ permutation_count' = permutation_count + Permutations_(stores_list)
    /\ stores_list' = [l \in Lines |-> stores_list[l] \ yat_flushed]
    /\ yat_flushed' = {}
    /\ UNCHANGED permutation_count_list

Count ==
    /\ pc = "count" /\ pos <= Len(ops)
    /\ CountMark \/ CountAccept \/ CountFence
    /\ pos' = pos + 1
    /\ UNCHANGED <<frozen, cacheVars, image, pc, tx_id, plans, unit, results>>

EndCount ==
    /\ pc = "count" /\ pos > Len(ops)
    /\ pc' = "plan"
    /\ UNCHANGED <<frozen, pos, cacheVars, image, counting, permutation_count, tx_id, plans, unit, results>>

\* int(a / b): the quotient is rounded to a float before it is truncated, which
\* makes no difference while a + b <= 2^53.
Quotient(a, b) == IF a < FloatExact THEN a \div b ELSE Rounded(a, b)

\* Mutant: a share may be smaller than a budget.
ShareSmall(total, n) == Quotient(total, n)

\* The numbers that go to one of n units, at least a budget.
Share(total, n) == LET length == Quotient(total, n) IN IF length < BUDGET THEN BUDGET ELSE length

\* The budgets [start, end, budget] for planned of total crash states.
Budgets(total, planned) ==
    LET num    == Quotient(planned, BUDGET)
        rest   == planned % BUDGET
        length == Share(total, IF rest > 0 THEN num + 1 ELSE num)
    IN  [i \in 1..num |-> [start |-> (i - 1) * length, end |-> i * length - 1, budget |-> BUDGET]]
        \o (IF rest > 0 THEN <<[start |-> num * length, end |-> total - 1, budget |-> rest]>> ELSE <<>>)

Total == permutation_count_list[tx_id]
Planned == IF plan[tx_id] > 0 THEN plan[tx_id] ELSE Total

\* The loop over the TXs; one without crash states is passed over.
PlanTx ==
    /\ pc = "plan" /\ tx_id <= Len(ranges)
    /\ \/ Total = 0 /\ tx_id' = tx_id + 1 /\ UNCHANGED <<pc, plans>>
       \/ Total > 0 /\ plans' = Budgets(Total, Planned) /\ pc' = "unit" /\ UNCHANGED tx_id
    /\ UNCHANGED <<frozen, pos, cacheVars, image, counting, permutation_count, unit, results>>

Size(p) == p.end - p.start + 1

\* A unit starts: init_plans draws its targets, the cache and the file are new.
StartUnit ==
    /\ pc = "unit" /\ plans # <<>>
    /\ LET p == Head(plans)
       IN  p.budget <= Size(p) /\ crash_targets' \in kSubset(p.budget, p.start..p.end)
    /\ plans' = Tail(plans) /\ pc' = "before"
    /\ pos' = 1 /\ permutation_count' = 0 /\ last_permutation_count' = 0
    /\ cacheline_dict' = [l \in Lines |-> {}] /\ flushed' = [i \in DOMAIN ops |-> Clear]
    /\ file' = [c \in Cells |-> 0]
    /\ UNCHANGED <<frozen, image, counting, tx_id, results>>

\* A plan beyond the number of crash states: there is nothing to draw from and
\* the unit dies of an exception, or too little and it draws forever.
FailUnit ==
    /\ pc = "unit" /\ plans # <<>>
    /\ LET p == Head(plans)
       IN  p.budget > Size(p) /\ pc' = IF Size(p) > 0 THEN "hang" ELSE pc
    /\ plans' = Tail(plans)
    /\ UNCHANGED <<frozen, pos, cacheVars, image, counting, permutation_count, tx_id, unit, results>>

EndTx ==
    /\ pc = "unit" /\ plans = <<>>
    /\ tx_id' = tx_id + 1 /\ pc' = "plan"
    /\ UNCHANGED <<frozen, pos, cacheVars, image, counting, permutation_count, plans, unit, results>>
-----------------------------------------------------------------------------
Target == ranges[tx_id]

\* Everything is written back after a TXEnd and before the first TXStart.
run_before_target ==
    /\ pc = "before" /\ pos < Target.lo
    /\ IF ops[pos].type = "Fence" THEN write_back_all_flushing_stores ELSE accept(pos)
    /\ pos' = pos + 1
    /\ pc' = IF ops[pos].type = "TXEnd" \/ pos = ranges[1].lo - 1 THEN "settle" ELSE pc
    /\ UNCHANGED <<frozen, image, counting, permutation_count, tx_id, plans, unit, results>>

Settle ==
    /\ pc = "settle" /\ pc' = "before"
    /\ write_back_all_stores
    /\ UNCHANGED <<frozen, pos, image, counting, permutation_count, tx_id, plans, unit, results>>

\* run_try_traget: the operations of the TX.
run_try_traget ==
    /\ pc = "before" /\ pos \in Target.lo..(Target.hi - 1)
    /\ IF ops[pos].type = "Fence"
       THEN /\ pc' = "fence"
            /\ last_permutation_count' = permutation_count
            /\ permutation_count' = permutation_count + Permutations_(cacheline_dict)
            /\ UNCHANGED <<cacheVars, pos>>
       ELSE /\ accept(pos) /\ pos' = pos + 1
            /\ UNCHANGED <<pc, permutation_count, last_permutation_count>>
    /\ UNCHANGED <<frozen, image, counting, tx_id, plans, crash_targets, results>>

\* The lines in the order of the dict; the i-th store of a line.
LineSeq == SetToSeq(Lines)
Ith(l, i) == CHOOSE s \in cacheline_dict[l] : Cardinality({t \in cacheline_dict[l] : t <= s}) = i

\* Mutant: the digits are counted from the target itself.
FirstNumberZero == 0

\* Number 0 stands for the first state that keeps a store.
FirstNumber == 1

\* The stores up to which the lines persist in state target of this fence: the
\* digits of target in a number system with one place per line.
get_stores_from_target(target) ==
    LET weight(k) == FoldSet(LAMBDA j, p : p * (Cardinality(cacheline_dict[LineSeq[j]]) + 1), 1,
                             (k + 1)..Len(LineSeq))
        digit(k)  == ((target + FirstNumber) \div weight(k))
                     % (Cardinality(cacheline_dict[LineSeq[k]]) + 1)
    IN  {Ith(LineSeq[k], digit(k)) : k \in {j \in DOMAIN LineSeq : digit(j) > 0}}

\* The next target that belongs to this fence: its image is validated.
validate ==
    /\ pc = "fence"
    /\ \E target \in crash_targets :
          /\ target < permutation_count /\ \A t \in crash_targets : target <= t
          /\ LET stores == get_stores_from_target(target - last_permutation_count)
             IN  /\ tested' = tested \cup {<<pos, stores>>}
                 /\ image' = do_stores(file, UNION {get_stores_from_crash_plan(s) : s \in stores})
          /\ crash_targets' = crash_targets \ {target}
    /\ ntested' = ntested + 1
    /\ UNCHANGED <<frozen, pos, cacheVars, pc, counting, permutation_count, tx_id, plans, last_permutation_count>>

\* No target is left for this fence; the unit ends when none is left at all.
WriteBack ==
    /\ pc = "fence"
    /\ \A target \in crash_targets : target >= permutation_count
    /\ write_back_all_flushing_stores
    /\ pos' = pos + 1
    /\ pc' = IF crash_targets = {} THEN "unit" ELSE "before"
    /\ UNCHANGED <<frozen, image, counting, permutation_count, tx_id, plans, unit, results>>

\* The end of the TX is reached first.
EndUnit ==
    /\ pc = "before" /\ pos = Target.hi
    /\ pc' = "unit"
    /\ UNCHANGED <<frozen, pos, cacheVars, image, counting, permutation_count, tx_id, plans, unit, results>>

Next ==
    \/ Count \/ EndCount \/ PlanTx \/ StartUnit \/ FailUnit \/ EndTx
    \/ run_before_target \/ Settle \/ run_try_traget \/ validate \/ WriteBack \/ EndUnit

Spec == Init /\ [][Next]_vars
-----------------------------------------------------------------------------
\* The reference, from the trace alone: the stores that may still be volatile at
\* fence f of TX k.  Everything is durable when a TX has ended.
Volatile(k, f) ==
    LET from == IF k = 1 THEN ranges[1].lo ELSE ranges[k - 1].hi
    IN  {s \in from..f : /\ ops[s].type = "Store"
                         /\ ~\E i, j \in s..(f - 1) :
                               /\ i < j /\ ops[i].type = "Flush" /\ ops[j].type = "Fence"
                               /\ ops[i].line = ops[s].line}

\* The crash states of TX k: at a fence, the newest durable store of some lines.
CrashStates(k) ==
    UNION {{<<f, S>> : S \in {T \in SUBSET Volatile(k, f) :
                                 T # {} /\ \A s, t \in T : ops[s].line = ops[t].line => s = t}} :
           f \in {j \in ranges[k].lo..ranges[k].hi : ops[j].type = "Fence"}}

\* No store between two TXs is still volatile when the second one starts.
Quiet(k) == Volatile(k, ranges[k].lo) = {}

Done == pc = "plan" /\ tx_id > Len(ranges)
-----------------------------------------------------------------------------
\* The types of the engine's and the units' state; there is one count per TX
\* and a unit's targets and places in the trace are its TX's.
TypeOK ==
    /\ CacheTypeOK
    /\ pc \in {"count", "plan", "unit", "before", "settle", "fence", "hang"}
    /\ stores_list \in [Lines -> SUBSET DOMAIN ops] /\ yat_flushed \subseteq DOMAIN ops
    /\ permutation_count \in Nat /\ last_permutation_count \in Nat
    /\ permutation_count_list \in Seq(Nat) /\ Len(permutation_count_list) <= Len(ranges)
    /\ tx_id \in 1..(Len(ranges) + 1)
    /\ plans \in Seq([start : Nat, end : Int, budget : 1..BUDGET])
    /\ crash_targets \subseteq Nat
    /\ \A t \in tested : ops[t[1]].type = "Fence" /\ t[2] \subseteq 1..(t[1] - 1)

\* The two replays agree on the numbers: every number that a unit tests decodes
\* to a crash state of its TX, and no two numbers of any units to the same one.
\* A plan that asks for no more than there is gets it: when all units have ended
\* each TX had as many of its crash states tested as planned, and all of them
\* when there is no plan and nothing is left over from before the TX.  (Counts
\* are below FloatExact.)
TestedAsPlanned ==
    /\ TypeOK
    /\ tested \subseteq UNION {CrashStates(k) : k \in DOMAIN ranges}
    /\ ntested = Cardinality(tested)
    /\ Done => \A k \in DOMAIN ranges :
          LET states == CrashStates(k) \cap tested
          IN  /\ plan[k] \in 1..permutation_count_list[k] => Cardinality(states) = plan[k]
              /\ plan[k] = 0 => Cardinality(states) = permutation_count_list[k]
              /\ plan[k] = 0 /\ Quiet(k) => states = CrashStates(k)

\* Budgets for at most as many crash states as there are neither overlap nor
\* leave 0..total-1, and each has room for its draws.
Fit(total, planned) ==
    LET b == Budgets(total, planned)
    IN  /\ \A i \in DOMAIN b : 0 <= b[i].start /\ b[i].end < total /\ b[i].budget <= Size(b[i])
        /\ \A i, j \in DOMAIN b : i < j => b[i].end < b[j].start

\* A plan that asks for no more than there is is cut into budgets that fit: no
\* unit dies, draws forever, waits for a state that never comes or tests a state
\* of another unit.  This holds while the number of crash states is one for
\* which the engine's divisions, in floating point, are exact.
PlansFit ==
    pc = "plan" /\ tx_id <= Len(ranges) =>
        (Total > 0 /\ Total < FloatExact /\ Planned <= Total => Fit(Total, Planned))

\* The image that a crash state is tested on is one that the memory may be left
\* with at this fence.
ImagesPossible ==
    [][ntested' # ntested =>
          \E D \in SUBSET Issued : FencedStores \subseteq D /\ PM!Survivors(pos - 1, D)
                                   /\ image' = PM!Contents(D)]_vars
=============================================================================
