---------------------------- MODULE CrashManager ----------------------------
(***************************************************************************)
(* The crash manager of one TX: WitcherParallelCrashManager with the       *)
(* methods it inherits from CrashCandidates and WitcherCrashManager, and   *)
(* the part of WitcherCrashValidator that builds the crash image.          *)
(*                                                                         *)
(* It derives the crash candidates <<p, v>> of the TX from the beliefs     *)
(* (persist store p, leave store v volatile), replays the trace up to the  *)
(* TX, and at every fence of the TX turns the candidates that both ran     *)
(* before the fence into crash plans, has the plans validated, writes the  *)
(* flushing stores back and keeps the candidates that a later fence may    *)
(* still realise.  pc names the loop the run is in; a loop takes one step  *)
(* per iteration.                                                          *)
(***************************************************************************)
EXTENDS WitcherCache, FiniteSets, Functions

CONSTANTS Traces,     \* replayed traces: [ops, tx]
          Beliefs,    \* belief databases: [critical, hb]
          MaxTxLen,   \* longest TX that is analysed (90000)
          CrashMax    \* most candidates that are tried (--crash)

\* first is the first TXStart of the trace, lo and hi the TXStart and the
\* TXEnd of the TX under test (atomic_write_ops_tx_ranges).
IsTarget(o, t) ==
    /\ t.first \in 1..t.lo /\ t.lo \in 1..t.hi /\ t.hi \in 1..Len(o)
    /\ o[t.first].type = "TXStart"
    /\ o[t.lo].type = "TXStart" /\ o[t.hi].type = "TXEnd"

ASSUME TracesAssumption ==
    \A t \in Traces :
        /\ IsTrace(t.ops)
        /\ t.tx \in [first : Nat, lo : Nat, hi : Nat]
        /\ IsTarget(t.ops, t.tx)

ASSUME BeliefsAssumption ==
    \A b \in Beliefs :
        b.critical \subseteq Objects /\ b.hb \subseteq Objects \X Objects

ASSUME BoundsAssumption ==
    MaxTxLen \in Nat /\ CrashMax \in Nat /\ NoObject \notin Objects

VARIABLES tx,                 \* [first, lo, hi] of the trace, never changed
          belief,             \* the belief database, never changed
          pc,
          suc, pre,           \* counters of get_crash_candidates_from_tx
          crash_candidates,   \* crash_candidates_per_tx[tx_id]
          processed,          \* processed_candidates
          crash_plans,        \* the verified plans of the current fence
          tested,             \* tested_crash_plans, as <<fence, plan>>
          pickled             \* the results were pickled for the engine

frozen  == <<ops, tx, belief>>
listVars == <<crash_candidates, processed, crash_plans>>
vars == <<ops, tx, belief, pos, cacheline_dict, flushed, file, image,
          pc, suc, pre, crash_candidates, processed, crash_plans, tested, pickled>>

IsStore(i) == ops[i].type = "Store"

\* The stores of the TX.
stores == {i \in tx.lo..tx.hi : IsStore(i)}

\* A store in no PM object (NoObject) violates no belief.
is_critical_store(i) == ops[i].obj \in belief.critical

violate_atomicity_belief(i, j) == is_critical_store(i) /\ is_critical_store(j)

\* Persist p and leave v volatile: v_obj -hb-> p_obj is believed.
violate_ordering_belief(p, v) == <<ops[v].obj, ops[p].obj>> \in belief.hb

max_id(c) == IF c[1] < c[2] THEN c[2] ELSE c[1]
-----------------------------------------------------------------------------
Init ==
    /\ \E t \in Traces : ops = t.ops /\ tx = t.tx
    /\ belief \in Beliefs
    /\ InitCache
    /\ pc = "init"
    /\ suc = tx.lo /\ pre = tx.lo
    /\ crash_candidates = <<>> /\ processed = <<>> /\ crash_plans = {}
    /\ tested = {} /\ pickled = FALSE

\* The constructor gives up on a TX that is too long.  Its bound is below the
\* 100000 stores at which get_crash_candidates_from_tx would return nothing.
CheckLength ==
    /\ pc = "init"
    /\ pc' = IF tx.hi - tx.lo > MaxTxLen THEN "done" ELSE "candidates"
    /\ UNCHANGED <<frozen, pos, cacheVars, image, suc, pre, listVars, tested, pickled>>

\* Mutant: an ordering belief is tried in one direction only.
CandidatesOneWay(i, j) ==
    IF violate_atomicity_belief(i, j) THEN << <<i, j>>, <<j, i>> >>
    ELSE IF violate_ordering_belief(i, j) THEN << <<i, j>> >> ELSE <<>>

\* What get_crash_candidates_from_tx appends for the pair i < j.
CandidatesOf(i, j) ==
    IF violate_atomicity_belief(i, j) THEN << <<i, j>>, <<j, i>> >>
    ELSE (IF violate_ordering_belief(i, j) THEN << <<i, j>> >> ELSE <<>>)
         \o (IF violate_ordering_belief(j, i) THEN << <<j, i>> >> ELSE <<>>)

\* The two nested loops over the stores, the later store outside.
PairStores ==
    /\ pc = "candidates"
    /\ suc <= tx.hi
    /\ IF pre < suc /\ IsStore(suc)
       THEN /\ pre' = pre + 1
            /\ crash_candidates' = IF IsStore(pre)
                                   THEN crash_candidates \o CandidatesOf(pre, suc)
                                   ELSE crash_candidates
            /\ UNCHANGED suc
       ELSE suc' = suc + 1 /\ pre' = tx.lo /\ UNCHANGED crash_candidates
    /\ UNCHANGED <<frozen, pos, cacheVars, image, pc, processed, crash_plans, tested, pickled>>

\* Mutant: too many candidates are tried all the same.
CountWithoutLimit ==
    /\ pc = "candidates"
    /\ suc > tx.hi
    /\ pc' = IF crash_candidates # <<>> THEN "before" ELSE "done"
    /\ UNCHANGED <<frozen, pos, cacheVars, image, suc, pre, listVars, tested, pickled>>

\* The constructor and run give up without candidates or with too many.
CountCandidates ==
    /\ pc = "candidates"
    /\ suc > tx.hi
    /\ pc' = IF Len(crash_candidates) \in 1..CrashMax THEN "before" ELSE "done"
    /\ UNCHANGED <<frozen, pos, cacheVars, image, suc, pre, listVars, tested, pickled>>

\* The operations before the TX are replayed without crashing.  Everything is
\* written back after a TXEnd and right before the first TXStart.
run_before_target ==
    /\ pc = "before"
    /\ pos < tx.lo
    /\ IF ops[pos].type = "Fence" THEN write_back_all_flushing_stores ELSE accept(pos)
    /\ pos' = pos + 1
    /\ pc' = IF ops[pos].type = "TXEnd" \/ pos = tx.first - 1 THEN "settle" ELSE pc
    /\ UNCHANGED <<frozen, image, suc, pre, listVars, tested, pickled>>

Settle ==
    /\ pc = "settle"
    /\ write_back_all_stores
    /\ pc' = "before"
    /\ UNCHANGED <<frozen, pos, image, suc, pre, listVars, tested, pickled>>

ReachTarget ==
    /\ pc = "before"
    /\ pos = tx.lo
    /\ pc' = "target"
    /\ UNCHANGED <<frozen, pos, cacheVars, image, suc, pre, listVars, tested, pickled>>

\* One operation of the TX; a fence is a crash point.
run_try_traget ==
    /\ pc = "target"
    /\ pos < tx.hi
    /\ IF ops[pos].type = "Fence"
       THEN pc' = "verify" /\ UNCHANGED <<pos, cacheVars>>
       ELSE accept(pos) /\ pos' = pos + 1 /\ UNCHANGED pc
    /\ UNCHANGED <<frozen, image, suc, pre, listVars, tested, pickled>>

\* The stores left at the end of the TX are written back, the results saved.
epilogue ==
    /\ pc = "target"
    /\ pos = tx.hi
    /\ write_back_all_stores
    /\ pc' = "done" /\ pickled' = TRUE
    /\ UNCHANGED <<frozen, pos, image, suc, pre, listVars, tested>>

\* Mutant: p is persisted although v precedes it in its line.
PlansOfAnyOrder(p, v) ==
    (IF ~is_fenced(p) /\ ~is_fenced(v) THEN {p} ELSE {})
    \cup (IF is_fenced(p) THEN {pos} ELSE {})

\* Mutant: a candidate whose p is durable already is passed over.
PlansOfUnfenced(p, v) ==
    IF /\ ~is_fenced(p) /\ ~is_fenced(v)
       /\ p < v \/ ops[p].line # ops[v].line
    THEN {p} ELSE {}

\* The crash plans a candidate gives at the fence at pos: persist p out of the
\* cache if v can stay behind, nothing if p is durable already.
PlansOf(p, v) ==
    (IF /\ ~is_fenced(p) /\ ~is_fenced(v)
        /\ p < v \/ ops[p].line # ops[v].line
     THEN {p} ELSE {})
    \cup (IF is_fenced(p) THEN {pos} ELSE {})

\* One candidate: it is popped unless one of its stores is after the fence.
verify_crash_candidates ==
    /\ pc = "verify"
    /\ IF crash_candidates # <<>> /\ max_id(Head(crash_candidates)) <= pos
       THEN LET c == Head(crash_candidates)
            IN  /\ processed' = Append(processed, c)
                /\ crash_candidates' = Tail(crash_candidates)
                /\ crash_plans' = crash_plans \cup PlansOf(c[1], c[2])
                /\ UNCHANGED pc
       ELSE pc' = "validate" /\ UNCHANGED listVars
    /\ UNCHANGED <<frozen, pos, cacheVars, image, suc, pre, tested, pickled>>

\* Mutant: the plan is recorded under the operation after the fence.
ValidateAfterFence ==
    /\ pc = "validate"
    /\ \E plan \in crash_plans :
          /\ image' = CrashImage(plan)
          /\ tested' = tested \cup {<<pos + 1, plan>>}
          /\ crash_plans' = crash_plans \ {plan}
    /\ UNCHANGED <<frozen, pos, cacheVars, pc, suc, pre, crash_candidates, processed, pickled>>

\* One plan, in any order: its crash image is built and executed.
validate ==
    /\ pc = "validate"
    /\ \E plan \in crash_plans :
          /\ image' = CrashImage(plan)
          /\ tested' = tested \cup {<<pos, plan>>}
          /\ crash_plans' = crash_plans \ {plan}
    /\ UNCHANGED <<frozen, pos, cacheVars, pc, suc, pre, crash_candidates, processed, pickled>>

WriteBack ==
    /\ pc = "validate"
    /\ crash_plans = {}
    /\ write_back_all_flushing_stores
    /\ pos' = pos + 1
    /\ pc' = "bring_back"
    /\ UNCHANGED <<frozen, image, suc, pre, listVars, tested, pickled>>

\* Mutant: candidates are brought back to the end of the list.
BringBackToEnd ==
    /\ pc = "bring_back"
    /\ IF processed # <<>>
       THEN LET c == processed[Len(processed)]
            IN  /\ processed' = SubSeq(processed, 1, Len(processed) - 1)
                /\ crash_candidates' = IF ~is_fenced(c[2])
                                       THEN Append(crash_candidates, c)
                                       ELSE crash_candidates
                /\ UNCHANGED pc
       ELSE pc' = "target" /\ UNCHANGED <<crash_candidates, processed>>
    /\ UNCHANGED <<frozen, pos, cacheVars, image, suc, pre, crash_plans, tested, pickled>>

\* Mutant: every candidate is brought back.
BringBackAll ==
    /\ pc = "bring_back"
    /\ IF processed # <<>>
       THEN /\ processed' = SubSeq(processed, 1, Len(processed) - 1)
            /\ crash_candidates' = <<processed[Len(processed)]>> \o crash_candidates
            /\ UNCHANGED pc
       ELSE pc' = "target" /\ UNCHANGED <<crash_candidates, processed>>
    /\ UNCHANGED <<frozen, pos, cacheVars, image, suc, pre, crash_plans, tested, pickled>>

\* One processed candidate, the last first: it goes back to the front of the
\* list if its volatile store is not fenced.
bring_back_potential_candidates ==
    /\ pc = "bring_back"
    /\ IF processed # <<>>
       THEN LET c == processed[Len(processed)]
            IN  /\ processed' = SubSeq(processed, 1, Len(processed) - 1)
                /\ crash_candidates' = IF ~is_fenced(c[2])
                                       THEN <<c>> \o crash_candidates
                                       ELSE crash_candidates
                /\ UNCHANGED pc
       ELSE pc' = "target" /\ UNCHANGED <<crash_candidates, processed>>
    /\ UNCHANGED <<frozen, pos, cacheVars, image, suc, pre, crash_plans, tested, pickled>>

Next ==
    \/ CheckLength \/ PairStores \/ CountCandidates
    \/ run_before_target \/ Settle \/ ReachTarget
    \/ run_try_traget \/ verify_crash_candidates \/ validate
    \/ WriteBack \/ bring_back_potential_candidates \/ epilogue

Spec == Init /\ [][Next]_vars /\ WF_vars(Next)
-----------------------------------------------------------------------------
\* The reference: what the TX should be tested for, from the trace alone.

\* The pairs the beliefs give a reason to test.
Candidates ==
    {c \in stores \X stores :
        /\ c[1] # c[2]
        /\ violate_atomicity_belief(c[1], c[2]) \/ violate_ordering_belief(c[1], c[2])}

\* The fences of the TX.
Fences == {f \in tx.lo..(tx.hi - 1) : ops[f].type = "Fence"}

\* Before operation k, store i was flushed and the flush was fenced.
DurableBefore(i, k) ==
    \E fl \in (i + 1)..(k - 1), fe \in (i + 1)..(k - 1) :
        /\ fl < fe
        /\ ops[fl].type = "Flush" /\ ops[fl].line = ops[i].line
        /\ ops[fe].type = "Fence"

\* Candidates that a crash right before operation k can realise: both ran, v
\* is not durable, and p is or can be while v is not.
Realisable(c, k) ==
    /\ c[1] < k /\ c[2] < k
    /\ ~DurableBefore(c[2], k)
    /\ DurableBefore(c[1], k) \/ c[1] < c[2] \/ ops[c[1]].line # ops[c[2]].line

\* The plan that realises candidate c: p, or the fence itself if p is durable.
PlanFor(c, f) == IF DurableBefore(c[1], f) THEN f ELSE c[1]

PlansAt(f) == {PlanFor(c, f) : c \in {d \in Candidates : Realisable(d, f)}}
-----------------------------------------------------------------------------
\* The types of the manager's state: the listing indices stay in the TX, the
\* candidates are pairs of its stores, only its fences are tested at.
TypeOK ==
    /\ CacheTypeOK
    /\ tx \in [first : Nat, lo : Nat, hi : Nat]
    /\ IsTarget(ops, tx)
    /\ belief.critical \subseteq Objects /\ belief.hb \subseteq Objects \X Objects
    /\ pc \in {"init", "candidates", "before", "settle", "target", "verify",
               "validate", "bring_back", "done"}
    /\ suc \in tx.lo..(tx.hi + 1) /\ pre \in tx.lo..suc
    /\ crash_candidates \in Seq(stores \X stores)
    /\ processed \in Seq(stores \X stores)
    /\ crash_plans \subseteq DOMAIN ops
    /\ tested \subseteq Fences \X (DOMAIN ops)
    /\ pickled \in BOOLEAN

\* get_crash_candidates_from_tx lists every pair that violates a belief, in
\* each direction that does, exactly once ("this guarantees no duplicates").
CandidatesExact ==
    pc \in {"candidates", "before"} /\ suc > tx.hi =>
        /\ Range(crash_candidates) = Candidates
        /\ IsInjective(crash_candidates)

Ordered(s) == \A i, j \in DOMAIN s : i < j => max_id(s[i]) <= max_id(s[j])

\* The processed candidates followed by the waiting ones are ordered by their
\* later store, whatever was popped and brought back: the early return of
\* verify_crash_candidates skips nothing that ran before the fence.
CandidatesOrdered ==
    /\ Ordered(processed) /\ Ordered(crash_candidates)
    /\ \A c \in Range(processed), d \in Range(crash_candidates) : max_id(c) <= max_id(d)

\* The assert of verify_crash_candidates: a candidate that is examined at a
\* fence never has both stores fenced, "because the last fence already
\* processed the candidate".
NotBothFenced ==
    pc = "verify" =>
        \A c \in Range(crash_candidates) : ~(is_fenced(c[1]) /\ is_fenced(c[2]))

\* Every plan has a reason: the crash image it gives holds what p wrote, or
\* something later, and nothing of what v wrote, for a candidate <<p, v>> of
\* the beliefs.
PlanRealisesBelief ==
    \A plan \in crash_plans :
        \E c \in Candidates :
            /\ \A x \in ops[c[1]].cells : CrashImage(plan)[x] >= c[1]
            /\ \A x \in ops[c[2]].cells : CrashImage(plan)[x] # c[2]

\* What has to be tested at the fences before operation k.
PlansBefore(k) ==
    {e \in Fences \X (DOMAIN ops) : e[1] < k /\ e[2] \in PlansAt(e[1])}

\* Nothing is missed and nothing is tested without reason: once a fence is
\* behind, the plans tested at it are those of the reference.
TestedExact ==
    pickled \/ pc \in {"bring_back", "target"} => tested = PlansBefore(pos)

\* The replay inside the crash manager drives the cache as CacheReplay does:
\* every image it tests is one that persistent memory can be left with.
ImplementsPersistentMemory == PM!Spec

\* Every loop ends: the manager of a TX always finishes, with its results
\* saved unless it gave up.
Termination ==
    <>(pc = "done" /\ (pickled <=> /\ tx.hi - tx.lo <= MaxTxLen
                                    /\ Cardinality(Candidates) \in 1..CrashMax))
-----------------------------------------------------------------------------
\* The inductive invariant.

\* Where the replay is, and which lists are empty there.
PhaseInv ==
    /\ pc = "init" => crash_candidates = <<>> /\ suc = tx.lo /\ pre = tx.lo
    /\ pc \in {"init", "candidates", "before", "settle"} => pos <= tx.lo /\ tested = {}
    /\ pc \in {"before", "settle"} => suc > tx.hi
    /\ pc = "target" => pos \in tx.lo..tx.hi
    /\ pc \in {"verify", "validate"} => pos \in Fences
    /\ pc = "bring_back" => pos \in (tx.lo + 1)..tx.hi
    /\ pickled => pc = "done" /\ pos = tx.hi
    /\ pc \notin {"verify", "validate", "bring_back"} => processed = <<>>
    /\ pc \notin {"verify", "validate"} => crash_plans = {}

\* Before operation k, the line of store i was flushed after i.
FlushedBefore(i, k) ==
    \E fl \in (i + 1)..(k - 1) : ops[fl].type = "Flush" /\ ops[fl].line = ops[i].line

\* In the TX, the flag of a store tells what the trace says of it.
FlushedAsTraced ==
    pc \in {"target", "verify", "validate", "bring_back"} =>
        \A i \in stores : i < pos =>
            /\ is_clear(i) <=> ~FlushedBefore(i, pos)
            /\ is_fenced(i) <=> DurableBefore(i, pos)

min_id(c) == IF c[1] < c[2] THEN c[1] ELSE c[2]

\* The candidates listed so far, and without duplicates.
ListingInv ==
    pc \in {"candidates", "before", "settle"} =>
        /\ Range(crash_candidates) =
              {c \in Candidates : max_id(c) < suc \/ (max_id(c) = suc /\ min_id(c) < pre)}
        /\ IsInjective(crash_candidates)

\* In the TX no candidate is lost while its v may still be left volatile, and
\* none that waits has both stores fenced.
WaitingInv ==
    pc \in {"target", "verify", "validate", "bring_back"} =>
        /\ \A c \in Candidates :
              ~is_fenced(c[2]) => c \in Range(processed) \cup Range(crash_candidates)
        /\ Range(processed) \cup Range(crash_candidates) \subseteq Candidates
        /\ \A c \in Range(crash_candidates) : ~(is_fenced(c[1]) /\ is_fenced(c[2]))

\* At a fence, the plans are those of the processed candidates.
FenceInv ==
    /\ pc = "verify" =>
          /\ \A c \in Range(processed) : max_id(c) <= pos
          /\ crash_plans = {PlanFor(c, pos) : c \in {d \in Range(processed) : Realisable(d, pos)}}
          /\ tested = PlansBefore(pos)
    /\ pc = "validate" =>
          /\ \A c \in Range(crash_candidates) : max_id(c) > pos
          /\ crash_plans \subseteq PlansAt(pos)
          /\ tested = PlansBefore(pos) \cup ({pos} \X (PlansAt(pos) \ crash_plans))

\* All that holds at every step of the manager's loops together, and is kept by
\* each of them.
IInv ==
    /\ TypeOK /\ CacheInv /\ PhaseInv /\ FlushedAsTraced /\ ListingInv
    /\ CandidatesOrdered /\ WaitingInv /\ FenceInv /\ TestedExact
=============================================================================
