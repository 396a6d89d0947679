-------------------------- MODULE CrashManagerProofs --------------------------
(***************************************************************************)
(* The crash manager tests exactly the plans the beliefs ask for, each on  *)
(* an image that persistent memory may leave, for every trace, every belief *)
(* database and every TX.                                                  *)
(***************************************************************************)
EXTENDS CrashManagerListing

\* Most leaves are first-order; SMT is named where one needs arithmetic, functions
\* or records.
USE Zenon

LEMMA VerifyPreserves ==
    ASSUME IInv, verify_crash_candidates
    PROVE  IInv'
<1> USE DEF IInv
<1>1. /\ UNCHANGED <<frozen, pos, cacheVars, image, suc, pre, tested, pickled>>
      /\ pc = "verify" /\ pos \in Fences /\ pos \in Nat /\ ~pickled /\ tested = PlansBefore(pos)
      /\ processed \in Seq(stores \X stores) /\ crash_candidates \in Seq(stores \X stores)
      /\ crash_plans = {PlanFor(c, pos) : c \in {d \in Range(processed) : Realisable(d, pos)}}
      /\ Range(processed) \cup Range(crash_candidates) \subseteq Candidates
  BY TxNumbers DEF verify_crash_candidates, PhaseInv, FenceInv, TypeOK, WaitingInv
<1>2. CacheInv' /\ CacheTypeOK' /\ \A i : is_fenced(i)' <=> is_fenced(i)
  BY <1>1, CacheStutter DEF frozen
<1>3. \A i : is_clear(i)' <=> is_clear(i)
  BY <1>1 DEF is_clear, cacheVars
<1>4. CASE crash_candidates # <<>> /\ max_id(Head(crash_candidates)) <= pos
  <2> DEFINE c == Head(crash_candidates)
             t == Tail(crash_candidates)
  <2>1. /\ Range(crash_candidates) = {c} \cup Range(t) /\ c \in stores \X stores
        /\ t \in Seq(stores \X stores) /\ Ordered(t)
        /\ \A d \in Range(t) : max_id(c) <= max_id(d)
    BY <1>1, <1>4, RangeOfHeadTail DEF CandidatesOrdered
  <2>2. /\ processed' = Append(processed, c) /\ crash_candidates' = t /\ pc' = "verify"
        /\ crash_plans' = crash_plans \cup PlansOf(c[1], c[2])
    BY <1>1, <1>4 DEF verify_crash_candidates
  <2>3. max_id(c) <= pos
    BY <1>4
  <2> HIDE DEF c, t
  <2>4. c \in Candidates /\ ~(is_fenced(c[1]) /\ is_fenced(c[2]))
    BY <1>1, <2>1 DEF WaitingInv
  <2>5. /\ processed' \in Seq(stores \X stores) /\ Range(processed') = Range(processed) \cup {c}
        /\ Ordered(processed')
    <3>1. Ordered(processed) /\ \A d \in Range(processed) : max_id(d) <= max_id(c)
      BY <2>1 DEF CandidatesOrdered
    <3>2. /\ Append(processed, c) \in Seq(stores \X stores)
          /\ Range(Append(processed, c)) = Range(processed) \cup {c}
          /\ Ordered(Append(processed, c))
      BY <1>1, <2>1, <3>1, AppendOne, SMT
    <3> QED
      BY <2>2, <3>2
  <2>6. PlansOf(c[1], c[2]) = IF Realisable(c, pos) THEN {PlanFor(c, pos)} ELSE {}
    BY <1>1, <2>3, <2>4, PlansOfCandidate
  <2>7. crash_plans' \subseteq DOMAIN ops
    <3>1. PlanFor(c, pos) \in DOMAIN ops
      BY <1>1, <2>4, CandidateFacts, StoreFacts, TxNumbers, SMT DEF PlanFor, Fences
    <3> QED
      BY <2>2, <2>6, <3>1 DEF TypeOK
  <2>8. TypeOK'
    BY <1>1, <1>2, <2>1, <2>2, <2>5, <2>7, Frozen DEF TypeOK, frozen
  <2>9. PhaseInv'
    BY <1>1, <2>2, Frozen DEF PhaseInv, frozen
  <2>10. CandidatesOrdered'
    BY <2>1, <2>2, <2>5 DEF CandidatesOrdered
  <2>11. FlushedAsTraced'
    BY <1>1, <1>2, <1>3, <2>2, Frozen DEF FlushedAsTraced
  <2>12. WaitingInv'
    BY <1>1, <1>2, <2>1, <2>2, <2>5, Frozen DEF WaitingInv
  <2>13. FenceInv'
    <3>1. crash_plans' = {PlanFor(d, pos) : d \in {e \in Range(processed') : Realisable(e, pos)}}
      BY <1>1, <2>2, <2>5, <2>6
    <3>2. \A d \in Range(processed') : max_id(d) <= pos
      BY <1>1, <2>3, <2>5 DEF FenceInv
    <3>3. {PlanFor(d, pos) : d \in {e \in Range(processed) : Realisable(e, pos)}}'
          = {PlanFor(d, pos) : d \in {e \in Range(processed') : Realisable(e, pos)}}
      BY <1>1, Frozen
    <3>4. tested' = PlansBefore(pos)' /\ pos' = pos /\ pc' = "verify"
      BY <1>1, <2>2, Frozen
    <3> QED
      BY <3>1, <3>2, <3>3, <3>4 DEF FenceInv
  <2>14. ListingInv' /\ TestedExact'
    BY <1>1, <2>2 DEF ListingInv, TestedExact
  <2> QED
    BY <1>2, <2>8, <2>9, <2>10, <2>11, <2>12, <2>13, <2>14
<1>5. CASE ~(crash_candidates # <<>> /\ max_id(Head(crash_candidates)) <= pos)
  <2>1. pc' = "validate" /\ UNCHANGED listVars
    BY <1>5 DEF verify_crash_candidates
  <2>2. \A d \in Range(crash_candidates) : max_id(d) > pos
    <3>1. CASE crash_candidates = <<>>
      BY <3>1, EmptyList
    <3>2. CASE crash_candidates # <<>>
      <4>1. \A d \in Candidates : max_id(d) \in Nat
        BY MinMax, StoreFacts
      <4>2. Head(crash_candidates) \in Range(crash_candidates)
        BY <1>1, <3>2, RangeOfHeadTail
      <4>3. max_id(Head(crash_candidates)) > pos
        BY <1>1, <1>5, <3>2, <4>1, <4>2, SMT
      <4>4. \A d \in Range(crash_candidates) :
               d = Head(crash_candidates) \/ max_id(Head(crash_candidates)) <= max_id(d)
        BY <1>1, <3>2, RangeOfHeadTail DEF CandidatesOrdered
      <4> QED
        BY <1>1, <4>1, <4>2, <4>3, <4>4, SMT
    <3> QED
      BY <3>1, <3>2
  <2>3. \A d \in Candidates : Realisable(d, pos) => d \in Range(processed)
    <3> SUFFICES ASSUME NEW d \in Candidates, Realisable(d, pos) PROVE d \in Range(processed)
      OBVIOUS
    <3>1. d[1] \in stores /\ d[2] \in stores /\ d[1] \in Nat /\ d[2] \in Nat /\ d[1] < pos /\ d[2] < pos
      BY CandidateFacts, StoreFacts DEF Realisable
    <3>2. ~is_fenced(d[2])
      BY <1>1, <3>1 DEF FlushedAsTraced, Realisable
    <3>3. ~(max_id(d) > pos)
      BY <1>1, <3>1, SMT DEF max_id
    <3> QED
      BY <1>1, <2>2, <3>2, <3>3 DEF WaitingInv
  <2>4. crash_plans = PlansAt(pos)
    BY <1>1, <2>3 DEF PlansAt
  <2>5. TypeOK'
    BY <1>1, <1>2, <2>1, Frozen DEF TypeOK, frozen, listVars
  <2>6. PhaseInv'
    BY <1>1, <2>1, Frozen DEF PhaseInv, frozen, listVars
  <2>7. CandidatesOrdered'
    BY <2>1 DEF CandidatesOrdered, listVars
  <2>8. FlushedAsTraced'
    BY <1>1, <1>2, <1>3, <2>1, Frozen DEF FlushedAsTraced
  <2>9. WaitingInv'
    BY <1>1, <1>2, <2>1, Frozen DEF WaitingInv, listVars
  <2>10. FenceInv'
    <3>1. /\ pc' = "validate" /\ pos' = pos /\ crash_candidates' = crash_candidates
          /\ crash_plans' = PlansAt(pos)' /\ tested' = PlansBefore(pos)'
      BY <1>1, <2>1, <2>4, Frozen DEF listVars
    <3> QED
      BY <2>2, <3>1 DEF FenceInv
  <2>11. ListingInv' /\ TestedExact'
    BY <1>1, <2>1 DEF ListingInv, TestedExact
  <2> QED
    BY <1>2, <2>5, <2>6, <2>7, <2>8, <2>9, <2>10, <2>11
<1> QED
  BY <1>4, <1>5

LEMMA ValidatePreserves ==
    ASSUME IInv, validate
    PROVE  IInv'
<1> USE DEF IInv
<1>1. /\ UNCHANGED <<frozen, pos, cacheVars, pc, suc, pre, crash_candidates, processed, pickled>>
      /\ pc = "validate" /\ pos \in Fences /\ ~pickled
  BY DEF validate, PhaseInv
<1>2. PICK plan \in crash_plans :
          /\ image' = CrashImage(plan) /\ tested' = tested \cup {<<pos, plan>>}
          /\ crash_plans' = crash_plans \ {plan}
  BY DEF validate
<1>3. plan \in DOMAIN ops
  BY DEF TypeOK
<1>4. CacheInv'
  BY <1>1, <1>2, <1>3, ImagePreserves DEF frozen
<1>5. \A i : (is_fenced(i)' <=> is_fenced(i)) /\ (is_clear(i)' <=> is_clear(i))
  BY <1>1 DEF is_fenced, is_clear, cacheVars
<1>6. TypeOK'
  <2>1. crash_plans' \subseteq DOMAIN ops /\ tested' \subseteq Fences \X (DOMAIN ops)
    <3>1. crash_plans \subseteq DOMAIN ops /\ tested \subseteq Fences \X (DOMAIN ops)
      BY DEF TypeOK
    <3> QED
      BY <1>1, <1>2, <1>3, <3>1, SMT
  <2> QED
    BY <1>1, <1>4, <2>1, Frozen DEF TypeOK, CacheInv, frozen
<1>7. PhaseInv'
  BY <1>1, Frozen DEF PhaseInv, frozen
<1>8. CandidatesOrdered'
  BY <1>1 DEF CandidatesOrdered
<1>9. FlushedAsTraced' /\ WaitingInv'
  BY <1>1, <1>5, Frozen DEF FlushedAsTraced, WaitingInv
<1>10. FenceInv'
  <2>1. /\ crash_plans \subseteq PlansAt(pos)
        /\ tested = PlansBefore(pos) \cup ({pos} \X (PlansAt(pos) \ crash_plans))
    BY <1>1 DEF FenceInv
  <2>2. tested' = PlansBefore(pos) \cup ({pos} \X (PlansAt(pos) \ crash_plans'))
    BY <1>2, <2>1, SMT
  <2>3. /\ pc' = "validate" /\ pos' = pos /\ crash_candidates' = crash_candidates
        /\ PlansAt(pos)' = PlansAt(pos) /\ PlansBefore(pos)' = PlansBefore(pos)
    BY <1>1, Frozen
  <2>4. crash_plans' \subseteq PlansAt(pos)
    BY <1>2, <2>1
  <2>5. \A c \in Range(crash_candidates) : max_id(c) > pos
    BY <1>1 DEF FenceInv
  <2> QED
    BY <2>2, <2>3, <2>4, <2>5 DEF FenceInv
<1>11. ListingInv' /\ TestedExact'
  BY <1>1 DEF ListingInv, TestedExact
<1> QED
  BY <1>4, <1>6, <1>7, <1>8, <1>9, <1>10, <1>11

LEMMA WriteBackPreserves ==
    ASSUME IInv, WriteBack
    PROVE  IInv'
<1> USE DEF IInv
<1>1. /\ UNCHANGED <<frozen, image, suc, pre, listVars, tested, pickled>>
      /\ pc = "validate" /\ pc' = "bring_back" /\ pos' = pos + 1 /\ crash_plans = {}
      /\ write_back_all_flushing_stores /\ ~pickled /\ pos \in Fences
      /\ tested = PlansBefore(pos) \cup ({pos} \X PlansAt(pos))
      /\ \A c \in Range(crash_candidates) : max_id(c) > pos
  BY DEF WriteBack, PhaseInv, FenceInv
<1>2. /\ pos \in DOMAIN ops /\ pos \in Nat /\ tx.lo <= pos /\ pos < tx.hi
      /\ ops[pos].type = "Fence"
  BY <1>1, TxNumbers, SMT DEF Fences
<1>3. CacheInv'
  BY <1>1, <1>2, FencePreserves DEF frozen
<1>4. TypeOK'
  BY <1>1, <1>3, Frozen DEF TypeOK, CacheInv, frozen, listVars
<1>5. PhaseInv'
  <2>1. pos + 1 \in (tx.lo + 1)..tx.hi
    BY <1>2, TxNumbers, SMT
  <2> QED
    BY <1>1, <2>1 DEF PhaseInv, frozen, listVars
<1>6. CandidatesOrdered'
  BY <1>1 DEF CandidatesOrdered, listVars
<1>7. \A i \in stores : /\ is_fenced(i)' <=> is_fenced(i) \/ is_flushing(i)
                        /\ is_clear(i)' <=> is_clear(i)
  BY <1>1, FenceFlags, StoreFacts
<1>8. FlushedAsTraced'
  <2> SUFFICES ASSUME NEW i \in stores, i < pos + 1
               PROVE  /\ is_clear(i)' <=> ~FlushedBefore(i, pos + 1)
                      /\ is_fenced(i)' <=> DurableBefore(i, pos + 1)
    BY <1>1, Frozen DEF FlushedAsTraced
  <2>1. i < pos /\ i \in Nat /\ i \in DOMAIN ops
    BY <1>2, StoreFacts, SMT
  <2>2. (is_clear(i) <=> ~FlushedBefore(i, pos)) /\ (is_fenced(i) <=> DurableBefore(i, pos))
    BY <1>1, <2>1 DEF FlushedAsTraced
  <2>3. /\ is_clear(i) \/ is_flushing(i) \/ is_fenced(i)
        /\ is_flushing(i) => ~is_clear(i)
        /\ is_fenced(i) => ~is_clear(i)
    BY <2>1, SMT DEF TypeOK, CacheTypeOK, is_clear, is_flushing, is_fenced, Clear, Flushing, Fenced
  <2> QED
    BY <1>2, <1>7, <2>1, <2>2, <2>3, BeforeNext
<1>9. WaitingInv'
  <2>1. \A c \in Range(crash_candidates) : ~(is_fenced(c[1])' /\ is_fenced(c[2])')
    <3> SUFFICES ASSUME NEW c \in Range(crash_candidates)
                 PROVE  ~(is_fenced(c[1])' /\ is_fenced(c[2])')
      OBVIOUS
    <3>1. c[1] \in stores /\ c[2] \in stores
      BY <1>1, CandidateFacts DEF WaitingInv
    <3>2. PICK i \in {c[1], c[2]} : i > pos
      BY <1>1 DEF max_id
    <3>3. is_clear(i)
      BY <1>2, <3>1, <3>2, StoreFacts, TxNumbers, SMT DEF CacheInv, OnlyIssuedMarked, Issued
    <3> QED
      BY <1>7, <3>1, <3>2, <3>3, SMT DEF is_clear, is_flushing, is_fenced, Clear, Flushing, Fenced
  <2>2. \A c \in Candidates : ~is_fenced(c[2])' => ~is_fenced(c[2])
    BY <1>7, CandidateFacts
  <2> QED
    BY <1>1, <2>1, <2>2, Frozen DEF WaitingInv, listVars
<1>10. TestedExact'
  <2>1. PlansAt(pos) \subseteq DOMAIN ops
    BY <1>2, CandidateFacts, StoreFacts DEF PlansAt, PlanFor
  <2>2. PlansBefore(pos + 1) = PlansBefore(pos) \cup ({pos} \X PlansAt(pos))
    <3>1. \A f \in Fences : f \in Nat
      BY TxNumbers, SMT DEF Fences
    <3>2. \A f \in Fences : f < pos + 1 <=> f < pos \/ f = pos
      BY <1>2, <3>1, SMT
    <3> QED
      BY <1>1, <2>1, <3>2 DEF PlansBefore
  <2> QED
    BY <1>1, <2>2, Frozen DEF TestedExact
<1>11. ListingInv' /\ FenceInv'
  BY <1>1 DEF ListingInv, FenceInv
<1> QED
  BY <1>3, <1>4, <1>5, <1>6, <1>8, <1>9, <1>10, <1>11

LEMMA BringBackPreserves ==
    ASSUME IInv, bring_back_potential_candidates
    PROVE  IInv'
<1> USE DEF IInv
<1>1. /\ UNCHANGED <<frozen, pos, cacheVars, image, suc, pre, crash_plans, tested, pickled>>
      /\ pc = "bring_back" /\ pos \in (tx.lo + 1)..tx.hi /\ ~pickled /\ crash_plans = {}
      /\ processed \in Seq(stores \X stores) /\ crash_candidates \in Seq(stores \X stores)
      /\ pc' \in {"bring_back", "target"} /\ tested = PlansBefore(pos)
  BY DEF bring_back_potential_candidates, PhaseInv, TypeOK, TestedExact
<1>2. CacheInv' /\ CacheTypeOK' /\ \A i : is_fenced(i)' <=> is_fenced(i)
  BY <1>1, CacheStutter DEF frozen
<1>3. \A i : is_clear(i)' <=> is_clear(i)
  BY <1>1 DEF is_clear, cacheVars
<1>4. /\ crash_candidates' \in Seq(stores \X stores) /\ processed' \in Seq(stores \X stores)
      /\ CandidatesOrdered' /\ WaitingInv' /\ (pc' = "target" => processed' = <<>>)
  <2>1. CASE processed = <<>>
    <3>1. pc' = "target" /\ UNCHANGED <<crash_candidates, processed>>
      BY <2>1 DEF bring_back_potential_candidates
    <3> QED
      BY <1>1, <1>2, <2>1, <3>1, Frozen DEF WaitingInv, CandidatesOrdered
  <2>2. CASE processed # <<>>
    <3> DEFINE c == processed[Len(processed)]
               f == SubSeq(processed, 1, Len(processed) - 1)
    <3>1. /\ f \in Seq(stores \X stores) /\ c \in stores \X stores
          /\ Range(processed) = Range(f) \cup {c}
          /\ Ordered(f) /\ \A d \in Range(f) : max_id(d) <= max_id(c)
      BY <1>1, <2>2, RangeOfFront DEF CandidatesOrdered
    <3>2. /\ processed' = f /\ pc' = "bring_back"
          /\ crash_candidates' = IF ~is_fenced(c[2]) THEN <<c>> \o crash_candidates
                                 ELSE crash_candidates
      BY <1>1, <2>2 DEF bring_back_potential_candidates
    <3> HIDE DEF c, f
    <3>3. /\ Ordered(crash_candidates)
          /\ \A d \in Range(crash_candidates) : max_id(c) <= max_id(d)
          /\ \A b \in Range(f), d \in Range(crash_candidates) : max_id(b) <= max_id(d)
      BY <3>1 DEF CandidatesOrdered
    <3>4. /\ crash_candidates' \in Seq(stores \X stores) /\ Ordered(crash_candidates')
          /\ Range(crash_candidates') = Range(crash_candidates)
                                          \cup (IF ~is_fenced(c[2]) THEN {c} ELSE {})
      <4>1. CASE ~is_fenced(c[2])
        <5>1. /\ <<c>> \o crash_candidates \in Seq(stores \X stores)
              /\ Range(<<c>> \o crash_candidates) = Range(crash_candidates) \cup {c}
              /\ Ordered(<<c>> \o crash_candidates)
          <6>1. crash_candidates \in Seq(stores \X stores) /\ c \in stores \X stores
            BY <1>1, <3>1
          <6> QED
            BY <3>3, <6>1, ConsOne, SMT
        <5> QED
          BY <3>2, <4>1, <5>1
      <4>2. CASE is_fenced(c[2])
        BY <1>1, <3>2, <3>3, <4>2
      <4> QED
        BY <4>1, <4>2
    <3>5. CandidatesOrdered'
      BY <3>1, <3>2, <3>3, <3>4 DEF CandidatesOrdered
    <3>6. WaitingInv'
      BY <1>1, <1>2, <3>1, <3>2, <3>4, Frozen DEF WaitingInv
    <3> QED
      BY <3>1, <3>2, <3>4, <3>5, <3>6
  <2> QED
    BY <2>1, <2>2
<1>5. TypeOK'
  BY <1>1, <1>2, <1>4, Frozen DEF TypeOK, frozen
<1>6. PhaseInv'
  <2>1. pos \in tx.lo..tx.hi
    BY <1>1, TxNumbers, SMT
  <2> QED
    BY <1>1, <1>4, <2>1 DEF PhaseInv, frozen
<1>7. FlushedAsTraced'
  BY <1>1, <1>2, <1>3, Frozen DEF FlushedAsTraced
<1>8. ListingInv' /\ FenceInv' /\ TestedExact'
  BY <1>1, Frozen DEF ListingInv, FenceInv, TestedExact
<1> QED
  BY <1>2, <1>4, <1>5, <1>6, <1>7, <1>8

\* The inductive invariant holds: every step keeps the lists, the flags and the
\* tested plans in agreement with the trace.
THEOREM Invariance == Spec => []IInv
<1>1. ASSUME IInv, UNCHANGED vars PROVE IInv'
  <2> USE DEF IInv, vars
  <2>1. CacheInv' /\ CacheTypeOK' /\ \A i : is_fenced(i)' <=> is_fenced(i)
    BY <1>1, CacheStutter DEF cacheVars
  <2>2. \A i : is_clear(i)' <=> is_clear(i)
    BY <1>1 DEF is_clear
  <2>3. UNCHANGED <<frozen, pc, pos, suc, pre, listVars, tested, pickled>>
    BY <1>1 DEF frozen, listVars
  <2>4. TypeOK'
    BY <1>1, <2>1, <2>3, Frozen DEF TypeOK
  <2>8. PhaseInv'
    <3>1. Fences' = Fences
      BY <2>3, Frozen
    <3> QED
      BY <1>1, <3>1 DEF PhaseInv
  <2>10. CandidatesOrdered'
    BY <1>1 DEF CandidatesOrdered
  <2>5. FlushedAsTraced' /\ TestedExact'
    BY <1>1, <2>1, <2>2, <2>3, Frozen, SMT DEF FlushedAsTraced, TestedExact
  <2>9. WaitingInv'
    BY <1>1, <2>1, <2>3, Frozen DEF WaitingInv
  <2>6. ListingInv'
    BY <1>1, <2>3, Frozen DEF ListingInv
  <2>7. FenceInv'
    <3>1. {PlanFor(c, pos) : c \in {d \in Range(processed) : Realisable(d, pos)}}'
          = {PlanFor(c, pos) : c \in {d \in Range(processed) : Realisable(d, pos)}}
      BY <1>1, <2>3, Frozen
    <3> QED
      BY <1>1, <2>3, <3>1, Frozen DEF FenceInv
  <2> QED
    BY <2>1, <2>4, <2>5, <2>6, <2>7, <2>8, <2>9, <2>10
<1>2. IInv /\ [Next]_vars => IInv'
  BY <1>1, CheckLengthPreserves, PairStoresPreserves, CountCandidatesPreserves, BeforePreserves,
     ReachTargetPreserves, TryTargetPreserves, VerifyPreserves, ValidatePreserves,
     WriteBackPreserves, BringBackPreserves, EpiloguePreserves DEF Next
<1> QED
  BY <1>2, InitInv, PTL DEF Spec
-----------------------------------------------------------------------------
\* A plan comes from a candidate whose v is not fenced: it is the fence itself
\* when p is, and otherwise p, which v does not have to follow.
LEMMA PlanOrigin ==
    ASSUME IInv, NEW plan \in crash_plans
    PROVE  \E c \in Candidates :
              /\ c[1] \in Issued /\ c[2] \in Issued /\ c[1] # c[2] /\ ~is_fenced(c[2])
              /\ \/ is_fenced(c[1]) /\ plan = pos /\ ops[pos].type = "Fence"
                 \/ /\ ~is_fenced(c[1]) /\ plan = c[1]
                    /\ c[1] < c[2] \/ ops[c[1]].line # ops[c[2]].line
<1>1. pc \in {"verify", "validate"} /\ pos \in Fences
  BY DEF IInv, PhaseInv
<1>2. PICK c \in Candidates : Realisable(c, pos) /\ plan = PlanFor(c, pos)
  <2>1. CASE pc = "verify"
    BY <2>1 DEF IInv, FenceInv, WaitingInv
  <2>2. CASE pc = "validate"
    BY <2>2 DEF IInv, FenceInv, PlansAt
  <2> QED
    BY <1>1, <2>1, <2>2
<1>3. /\ c[1] \in stores /\ c[2] \in stores /\ c[1] # c[2] /\ c[1] < pos /\ c[2] < pos
      /\ ops[pos].type = "Fence"
  <2>1. c[1] \in stores /\ c[2] \in stores /\ c[1] # c[2]
    BY CandidateFacts
  <2> QED
    BY <1>1, <1>2, <2>1 DEF Realisable, Fences
<1>4. c[1] \in Issued /\ c[2] \in Issued
  BY <1>3, StoreFacts, TxNumbers, SMT DEF Issued, IInv
<1>5. (is_fenced(c[1]) <=> DurableBefore(c[1], pos)) /\ (is_fenced(c[2]) <=> DurableBefore(c[2], pos))
  BY <1>1, <1>3 DEF IInv, FlushedAsTraced
<1> QED
  BY <1>2, <1>3, <1>4, <1>5 DEF Realisable, PlanFor

\* The image of a plan holds what p wrote or later, and nothing of v.
LEMMA PlansRealise == IInv => PlanRealisesBelief
<1> SUFFICES ASSUME IInv, NEW plan \in crash_plans
             PROVE  \E c \in Candidates :
                       /\ \A x \in ops[c[1]].cells : CrashImage(plan)[x] >= c[1]
                       /\ \A x \in ops[c[2]].cells : CrashImage(plan)[x] # c[2]
  BY DEF PlanRealisesBelief
<1> USE DEF IInv
<1>1. PICK c \in Candidates :
              /\ c[1] \in Issued /\ c[2] \in Issued /\ c[1] # c[2] /\ ~is_fenced(c[2])
              /\ \/ is_fenced(c[1]) /\ plan = pos /\ ops[pos].type = "Fence"
                 \/ /\ ~is_fenced(c[1]) /\ plan = c[1]
                    /\ c[1] < c[2] \/ ops[c[1]].line # ops[c[2]].line
  BY PlanOrigin
<1>2. /\ Len(ops) \in Nat /\ DOMAIN ops = 1..Len(ops) /\ c[1] \in DOMAIN ops /\ c[2] \in DOMAIN ops
      /\ ops[c[1]].cells \subseteq Cells /\ ops[c[2]].cells \subseteq Cells
      /\ ops[c[1]].type = "Store" /\ ops[c[1]].line \in Lines
      /\ FencedStores \subseteq 1..Len(ops) /\ Cached \subseteq 1..Len(ops)
      /\ c[1] \in Nat /\ c[2] \in Nat /\ c[2] # 0
  BY <1>1, CachedFacts, TraceFacts, SMT DEF CacheInv, CacheTypeOK, Issued
<1>3. ASSUME NEW x \in Cells PROVE file[x] # c[2]
  <2> DEFINE W == {i \in FencedStores : x \in ops[i].cells}
  <2>1. file[x] = IF W = {} THEN 0 ELSE Latest(W)
    BY DEF CacheInv, FileIsFencedPrefix
  <2>2. c[2] \notin W
    BY <1>1 DEF FencedStores
  <2>3. W # {} => Latest(W) \in W
    BY <1>2, LatestExists
  <2> QED
    BY <1>2, <2>1, <2>2, <2>3
<1>4. CASE is_fenced(c[1]) /\ plan = pos /\ ops[pos].type = "Fence"
  <2>1. CrashImage(plan) = file
    BY <1>4 DEF CrashImage
  <2>2. ASSUME NEW x \in ops[c[1]].cells PROVE file[x] >= c[1]
    <3> DEFINE W == {i \in FencedStores : x \in ops[i].cells}
    <3>1. file[x] = IF W = {} THEN 0 ELSE Latest(W)
      BY <1>2 DEF CacheInv, FileIsFencedPrefix
    <3>2. c[1] \in W
      BY <1>2, <1>4 DEF FencedStores
    <3>3. W \subseteq 1..Len(ops)
      BY <1>2
    <3> HIDE DEF W
    <3>4. Latest(W) \in W /\ c[1] <= Latest(W)
      BY <1>2, <3>2, <3>3, LatestExists
    <3> QED
      BY <1>2, <3>1, <3>2, <3>3, <3>4
  <2> QED
    BY <1>2, <1>3, <2>1, <2>2
<1>5. CASE /\ ~is_fenced(c[1]) /\ plan = c[1]
           /\ c[1] < c[2] \/ ops[c[1]].line # ops[c[2]].line
  <2> DEFINE S == get_stores_from_crash_plan(c[1])
             W(x) == {i \in S : x \in ops[i].cells}
  <2>1. \A x \in Cells : CrashImage(plan)[x] = IF W(x) = {} THEN file[x] ELSE Latest(W(x))
    BY <1>2, <1>5 DEF CrashImage, do_stores
  <2>2. S = {i \in Issued : ops[i].line = ops[c[1]].line /\ ~is_fenced(i) /\ i <= c[1]}
    BY <1>2, SMT DEF get_stores_from_crash_plan, CacheInv, CacheHoldsUnfenced
  <2>3. c[1] \in S /\ c[2] \notin S
    BY <1>1, <1>2, <1>5, <2>2, SMT
  <2>4. S \subseteq 1..Len(ops)
    BY <1>2, <2>2, CachedFacts
  <2> HIDE DEF S
  <2>5. \A x \in Cells : W(x) # {} => Latest(W(x)) \in W(x) /\ \A j \in W(x) : j <= Latest(W(x))
    <3> SUFFICES ASSUME NEW x \in Cells, W(x) # {}
                 PROVE  Latest(W(x)) \in W(x) /\ \A j \in W(x) : j <= Latest(W(x))
      OBVIOUS
    <3>1. W(x) \subseteq 1..Len(ops)
      BY <2>4
    <3> HIDE DEF W
    <3> QED
      BY <1>2, <3>1, LatestExists
  <2>6. ASSUME NEW x \in ops[c[1]].cells PROVE CrashImage(plan)[x] >= c[1]
    <3>1. x \in Cells /\ c[1] \in W(x) /\ W(x) \subseteq 1..Len(ops)
      BY <1>2, <2>3, <2>4
    <3> HIDE DEF W
    <3>2. CrashImage(plan)[x] \in 1..Len(ops) /\ c[1] <= CrashImage(plan)[x]
      BY <2>1, <2>5, <3>1
    <3> QED
      BY <1>2, <3>2
  <2>7. ASSUME NEW x \in ops[c[2]].cells PROVE CrashImage(plan)[x] # c[2]
    <3>1. x \in Cells /\ c[2] \notin W(x)
      BY <1>2, <2>3
    <3> HIDE DEF W
    <3> QED
      BY <1>3, <2>1, <2>5, <3>1
  <2> QED
    BY <2>6, <2>7
<1> QED
  BY <1>1, <1>4, <1>5

\* The candidate list is complete and free of duplicates when the listing ends.
LEMMA ListingExact == IInv => CandidatesExact
<1> SUFFICES ASSUME IInv, pc \in {"candidates", "before"}, suc > tx.hi
             PROVE  Range(crash_candidates) = Candidates /\ IsInjective(crash_candidates)
  BY DEF CandidatesExact
<1>1. \A c \in Candidates : max_id(c) < suc
  BY MinMax, StoreFacts, TxNumbers, SMT DEF IInv
<1> QED
  BY <1>1 DEF IInv, ListingInv

\* For every trace, belief database and TX, the manager lists the candidates
\* exactly, keeps them ordered, never meets one whose stores are both fenced
\* (the assert of verify_crash_candidates), builds images that show the belief
\* violated, and has tested exactly the plans of the reference.
THEOREM Safety ==
    Spec => [](/\ TypeOK /\ CandidatesExact /\ CandidatesOrdered /\ NotBothFenced
               /\ PlanRealisesBelief /\ TestedExact)
<1>1. IInv => /\ TypeOK /\ CandidatesExact /\ CandidatesOrdered /\ NotBothFenced
              /\ PlanRealisesBelief /\ TestedExact
  BY ListingExact, PlansRealise DEF IInv, WaitingInv, NotBothFenced
<1> QED
  BY <1>1, Invariance, PTL

\* Every step of the manager is a step of persistent memory or leaves it alone.
LEMMA StepRefines ==
    ASSUME IInv, [Next]_vars
    PROVE  [PM!Next]_PM!vars
<1> USE DEF IInv
<1>1. CASE run_before_target
  <2>1. pos \in DOMAIN ops
    BY <1>1, TxNumbers, SMT DEF run_before_target
  <2> QED
    BY <1>1, <2>1, AcceptRefines, FenceRefines DEF run_before_target, frozen, PM!Next
<1>2. CASE run_try_traget
  <2>1. pos \in DOMAIN ops
    BY <1>2, TxNumbers, SMT DEF run_try_traget, PhaseInv
  <2>2. CASE ops[pos].type = "Fence"
    BY <1>2, <2>2 DEF run_try_traget, frozen, cacheVars, PM!vars, FencedStores, is_fenced, is_flushing
  <2>3. CASE ops[pos].type # "Fence"
    BY <1>2, <2>1, <2>3, AcceptRefines DEF run_try_traget, frozen, PM!Next
  <2> QED
    BY <2>2, <2>3
<1>3. CASE WriteBack
  <2>1. pos \in DOMAIN ops /\ ops[pos].type = "Fence"
    BY <1>3, TxNumbers, SMT DEF WriteBack, PhaseInv, Fences
  <2> QED
    BY <1>3, <2>1, FenceRefines DEF WriteBack, frozen, PM!Next
<1>4. CASE Settle \/ epilogue
  BY <1>4, WriteBackAllRefines DEF Settle, epilogue, frozen, PM!Next
<1>5. CASE validate
  <2>1. PICK plan \in crash_plans : image' = CrashImage(plan)
    BY <1>5 DEF validate
  <2>2. UNCHANGED <<ops, pos, cacheVars>>
    BY <1>5 DEF validate, frozen
  <2>3. plan \in DOMAIN ops /\ (ops[plan].type = "Fence" \/ plan \in Cached)
    BY PlanOrigin, CachedFacts, SMT DEF TypeOK
  <2> QED
    BY <2>1, <2>2, <2>3, ImageRefines DEF PM!Next
<1>6. CASE UNCHANGED <<ops, pos, cacheVars, image>>
  BY <1>6 DEF cacheVars, PM!vars, FencedStores, is_fenced, is_flushing
<1>7. ASSUME \/ CheckLength \/ PairStores \/ CountCandidates \/ ReachTarget
             \/ verify_crash_candidates \/ bring_back_potential_candidates \/ UNCHANGED vars
      PROVE  UNCHANGED <<ops, pos, cacheVars, image>>
  BY <1>7 DEF CheckLength, PairStores, CountCandidates, ReachTarget, verify_crash_candidates,
              bring_back_potential_candidates, vars, frozen, cacheVars
<1> QED
  BY <1>1, <1>2, <1>3, <1>4, <1>5, <1>6, <1>7 DEF Next

\* Every crash image the manager has executed is one that persistent memory
\* may be left with after the operations replayed so far.
THEOREM Refinement == Spec => ImplementsPersistentMemory
<1>1. Init => PM!Init
  BY TracesAssumption, InitRefines DEF Init
<1> QED
  BY <1>1, StepRefines, Invariance, PTL DEF Spec, ImplementsPersistentMemory, PM!Spec
=============================================================================
