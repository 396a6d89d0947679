------------------------- MODULE CrashManagerListing --------------------------
(***************************************************************************)
(* The crash manager up to the TX under test: the lemmas on candidate lists, *)
(* the numbers of a TX, and one lemma per action that get_crash_candidates *)
(* and run_before_target take: it preserves the inductive invariant.       *)
(***************************************************************************)
EXTENDS CrashManager, WitcherCacheProofs, SequenceTheorems

\* Most leaves are first-order; SMT is named where one needs arithmetic, functions
\* or records.
USE Zenon

\* The list operations of the candidate loops, by the candidates they hold.
\* Concatenation keeps lists ordered, and free of duplicates, when all of the
\* second list may follow all of the first.
LEMMA ConcatLists ==
    ASSUME NEW T, NEW s \in Seq(T), NEW t \in Seq(T)
    PROVE  /\ s \o t \in Seq(T) /\ Range(s \o t) = Range(s) \cup Range(t)
           /\ Ordered(s) /\ Ordered(t)
                /\ (\A c \in Range(s), d \in Range(t) : max_id(c) <= max_id(d))
                => Ordered(s \o t)
           /\ IsInjective(s) /\ IsInjective(t) /\ Range(s) \cap Range(t) = {}
                => IsInjective(s \o t)
<1> DEFINE u == s \o t
           m == Len(s)
           n == Len(t)
<1>1. /\ m \in Nat /\ n \in Nat /\ DOMAIN s = 1..m /\ DOMAIN t = 1..n
      /\ u \in Seq(T) /\ DOMAIN u = 1..(m + n)
  BY SMT
<1>2. \A i \in 1..(m + n) : u[i] = IF i <= m THEN s[i] ELSE t[i - m]
  BY SMT
<1>3. Range(u) = Range(s) \cup Range(t)
  BY RangeConcatenation, SMT
<1> HIDE DEF u, m, n
<1>4. \A i \in 1..(m + n) : \/ i <= m /\ i \in DOMAIN s /\ u[i] = s[i] /\ u[i] \in Range(s)
                            \/ i > m /\ i - m \in DOMAIN t /\ u[i] = t[i - m] /\ u[i] \in Range(t)
  <2> TAKE i \in 1..(m + n)
  <2>1. CASE i <= m
    <3>1. i \in DOMAIN s
      BY <1>1, <2>1, SMT
    <3> QED
      BY <1>1, <1>2, <2>1, <3>1, SMT DEF Range
  <2>2. CASE ~(i <= m)
    <3>1. i - m \in DOMAIN t
      BY <1>1, <2>2, SMT
    <3> QED
      BY <1>1, <1>2, <2>2, <3>1, SMT DEF Range
  <2> QED
    BY <2>1, <2>2
<1>5. ASSUME Ordered(s), Ordered(t), \A c \in Range(s), d \in Range(t) : max_id(c) <= max_id(d)
      PROVE  Ordered(u)
  <2> SUFFICES ASSUME NEW i \in 1..(m + n), NEW j \in 1..(m + n), i < j
               PROVE  max_id(u[i]) <= max_id(u[j])
    BY <1>1 DEF Ordered
  <2>1. CASE j <= m
    <3>1. i \in DOMAIN s /\ j \in DOMAIN s /\ u[i] = s[i] /\ u[j] = s[j]
      BY <1>1, <1>4, <2>1, SMT
    <3> QED
      BY <1>5, <3>1 DEF Ordered
  <2>2. CASE i <= m /\ ~(j <= m)
    BY <1>1, <1>4, <1>5, <2>2, SMT
  <2>3. CASE ~(i <= m) /\ ~(j <= m)
    <3>1. i - m < j - m
      BY <1>1, SMT
    <3> QED
      BY <1>1, <1>4, <1>5, <2>3, <3>1 DEF Ordered
  <2> QED
    BY <1>1, <2>1, <2>2, <2>3
<1>6. ASSUME IsInjective(s), IsInjective(t), Range(s) \cap Range(t) = {}
      PROVE  IsInjective(u)
  <2> SUFFICES ASSUME NEW i \in 1..(m + n), NEW j \in 1..(m + n), u[i] = u[j]
               PROVE  i = j
    BY <1>1 DEF IsInjective
  <2>1. CASE i <= m /\ j <= m
    <3>1. i \in DOMAIN s /\ j \in DOMAIN s /\ s[i] = s[j]
      BY <1>1, <1>4, <2>1, SMT
    <3> QED
      BY <1>6, <3>1 DEF IsInjective
  <2>2. CASE ~(i <= m) /\ ~(j <= m)
    <3>1. i - m \in DOMAIN t /\ j - m \in DOMAIN t /\ t[i - m] = t[j - m]
      BY <1>1, <1>4, <2>2
    <3>2. i - m = j - m
      BY <1>6, <3>1 DEF IsInjective
    <3> QED
      BY <1>1, <3>2, SMT
  <2>3. \/ i <= m /\ j <= m
        \/ ~(i <= m) /\ ~(j <= m)
    BY <1>1, <1>4, <1>6, SMT
  <2> QED
    BY <2>1, <2>2, <2>3
<1> QED
  BY <1>1, <1>3, <1>5, <1>6 DEF u

\* One candidate more, at the end or at the front.
LEMMA AppendOne ==
    ASSUME NEW T, NEW s \in Seq(T), NEW e \in T
    PROVE  /\ Append(s, e) \in Seq(T)
           /\ Range(Append(s, e)) = Range(s) \cup {e}
           /\ Ordered(s) /\ (\A c \in Range(s) : max_id(c) <= max_id(e)) => Ordered(Append(s, e))
<1> DEFINE u == <<e>>
<1>1. u \in Seq(T) /\ Range(u) = {e} /\ Ordered(u)
  BY SMT DEF Range, Ordered
<1>2. Append(s, e) = s \o u
  BY AppendIsConcat
<1> HIDE DEF u
<1> QED
  BY <1>1, <1>2, ConcatLists, SMT

LEMMA ConsOne ==
    ASSUME NEW T, NEW s \in Seq(T), NEW e \in T
    PROVE  /\ <<e>> \o s \in Seq(T)
           /\ Range(<<e>> \o s) = Range(s) \cup {e}
           /\ Ordered(s) /\ (\A c \in Range(s) : max_id(e) <= max_id(c)) => Ordered(<<e>> \o s)
<1> DEFINE u == <<e>>
<1>1. u \in Seq(T) /\ Range(u) = {e} /\ Ordered(u)
  BY SMT DEF Range, Ordered
<1> HIDE DEF u
<1>2. /\ u \o s \in Seq(T) /\ Range(u \o s) = Range(s) \cup {e}
      /\ Ordered(s) /\ (\A c \in Range(s) : max_id(e) <= max_id(c)) => Ordered(u \o s)
  BY <1>1, ConcatLists, SMT
<1> QED
  BY <1>2 DEF u

LEMMA RangeOfHeadTail ==
    ASSUME NEW T, NEW s \in Seq(T), s # <<>>
    PROVE  /\ Range(s) = {Head(s)} \cup Range(Tail(s))
           /\ Head(s) \in T /\ Tail(s) \in Seq(T)
           /\ Ordered(s) => /\ Ordered(Tail(s))
                            /\ \A d \in Range(Tail(s)) : max_id(Head(s)) <= max_id(d)
<1>1. Head(s) = s[1] /\ Len(s) \in Nat /\ Len(s) >= 1 /\ Tail(s) \in Seq(T) /\ Head(s) \in T
  BY SMT
<1>2. Len(Tail(s)) = Len(s) - 1 /\ \A i \in 1..(Len(s) - 1) : Tail(s)[i] = s[i + 1]
  BY SMT
<1>3. Range(s) \subseteq {Head(s)} \cup Range(Tail(s))
  <2> SUFFICES ASSUME NEW i \in 1..Len(s), i # 1 PROVE s[i] \in Range(Tail(s))
    BY <1>1, SMT DEF Range
  <2>1. i - 1 \in DOMAIN Tail(s) /\ Tail(s)[i - 1] = s[i]
    BY <1>1, <1>2, SMT
  <2> QED
    BY <2>1 DEF Range
<1>4. {Head(s)} \cup Range(Tail(s)) \subseteq Range(s)
  BY <1>1, <1>2, SMT DEF Range
<1>5. ASSUME Ordered(s)
      PROVE  Ordered(Tail(s)) /\ \A d \in Range(Tail(s)) : max_id(Head(s)) <= max_id(d)
  <2> DEFINE t == Tail(s)
  <2>1. /\ DOMAIN s = 1..Len(s) /\ DOMAIN t = 1..(Len(s) - 1)
        /\ \A i \in DOMAIN t : i \in Nat /\ i + 1 \in DOMAIN s /\ t[i] = s[i + 1] /\ 1 < i + 1
    BY <1>1, <1>2, SMT
  <2> HIDE DEF t
  <2>2. Ordered(t)
    <3> SUFFICES ASSUME NEW i \in DOMAIN t, NEW j \in DOMAIN t, i < j
                 PROVE  max_id(t[i]) <= max_id(t[j])
      BY DEF Ordered
    <3>1. i + 1 < j + 1
      BY <2>1, SMT
    <3> QED
      BY <1>5, <2>1, <3>1 DEF Ordered
  <2>3. \A d \in Range(t) : max_id(Head(s)) <= max_id(d)
    <3>1. 1 \in DOMAIN s
      BY <1>1, SMT
    <3> QED
      BY <1>1, <1>5, <2>1, <3>1, SMT DEF Ordered, Range
  <2> QED
    BY <2>2, <2>3 DEF t
<1> QED
  BY <1>1, <1>3, <1>4, <1>5

LEMMA RangeOfFront ==
    ASSUME NEW T, NEW s \in Seq(T), s # <<>>
    PROVE  /\ SubSeq(s, 1, Len(s) - 1) \in Seq(T)
           /\ s[Len(s)] \in T
           /\ Range(s) = Range(SubSeq(s, 1, Len(s) - 1)) \cup {s[Len(s)]}
           /\ Ordered(s) => /\ Ordered(SubSeq(s, 1, Len(s) - 1))
                            /\ \A c \in Range(SubSeq(s, 1, Len(s) - 1)) :
                                  max_id(c) <= max_id(s[Len(s)])
<1> DEFINE f == SubSeq(s, 1, Len(s) - 1)
<1>1. Len(s) \in Nat /\ Len(s) >= 1
  BY SMT
<1>2. f \in Seq(T) /\ Len(f) = Len(s) - 1 /\ \A i \in 1..(Len(s) - 1) : f[i] = s[i]
  <2>1. 1 \in Int /\ Len(s) - 1 \in Int /\ \A i \in 1..(Len(s) - 1) : s[i] \in T
    BY <1>1, SMT
  <2>2. /\ f \in Seq(T)
        /\ Len(f) = IF 1 <= Len(s) - 1 THEN Len(s) - 1 - 1 + 1 ELSE 0
        /\ \A i \in 1..(Len(s) - 1 - 1 + 1) : f[i] = s[1 + i - 1]
    BY <2>1, SubSeqProperties, SMT
  <2>3. Len(s) - 1 - 1 + 1 = Len(s) - 1 /\ \A i \in 1..(Len(s) - 1) : 1 + i - 1 = i
    BY <1>1, SMT
  <2> HIDE DEF f
  <2>4. Len(f) = Len(s) - 1
    <3>1. Len(f) = IF 1 <= Len(s) - 1 THEN Len(s) - 1 - 1 + 1 ELSE 0
      BY <2>2
    <3>2. CASE Len(s) = 1
      BY <3>1, <3>2, SMT
    <3>3. CASE Len(s) # 1
      <4>1. \A n \in Nat : n >= 1 /\ n # 1 => 1 <= n - 1
        BY SMT
      <4>2. 1 <= Len(s) - 1
        BY <1>1, <3>3, <4>1
      <4> QED
        BY <2>3, <3>1, <4>2
    <3> QED
      BY <3>2, <3>3
  <2>5. ASSUME NEW i \in 1..(Len(s) - 1) PROVE f[i] = s[i]
    <3>1. i \in 1..(Len(s) - 1 - 1 + 1) /\ 1 + i - 1 = i
      BY <2>3
    <3> QED
      BY <2>2, <3>1
  <2> QED
    BY <2>2, <2>4, <2>5
<1> HIDE DEF f
<1>3. Range(s) = Range(f) \cup {s[Len(s)]}
  BY <1>1, <1>2, SMT DEF Range
<1>4. ASSUME Ordered(s)
      PROVE  Ordered(f) /\ \A c \in Range(f) : max_id(c) <= max_id(s[Len(s)])
  <2>1. /\ Len(s) \in DOMAIN s
        /\ \A i \in DOMAIN f : i \in DOMAIN s /\ i < Len(s) /\ f[i] = s[i]
    BY <1>1, <1>2, SMT
  <2> QED
    BY <1>4, <2>1 DEF Ordered, Range
<1> QED
  BY <1>1, <1>2, <1>3, <1>4, SMT DEF f
-------------------------------------------------------------------------------
\* The numbers of a target TX, its stores and the candidates.
LEMMA TxNumbers ==
    ASSUME TypeOK
    PROVE  /\ Len(ops) \in Nat /\ DOMAIN ops = 1..Len(ops)
           /\ tx.first \in Nat /\ tx.lo \in Nat /\ tx.hi \in Nat
           /\ 1 <= tx.first /\ tx.first <= tx.lo /\ tx.lo <= tx.hi /\ tx.hi <= Len(ops)
           /\ pos \in Nat /\ 1 <= pos /\ suc \in Nat /\ pre \in Nat
<1>1. Len(ops) \in Nat /\ DOMAIN ops = 1..Len(ops)
  BY TraceFacts DEF TypeOK, CacheTypeOK
<1>2. /\ tx.first \in Nat /\ tx.lo \in Nat /\ tx.hi \in Nat
      /\ tx.first \in 1..tx.lo /\ tx.lo \in 1..tx.hi /\ tx.hi \in 1..Len(ops)
  BY DEF TypeOK, IsTarget
<1>3. pos \in Nat /\ 1 <= pos /\ suc \in Nat /\ pre \in Nat
  BY <1>1, <1>2, SMT DEF TypeOK, CacheTypeOK
<1> QED
  BY <1>1, <1>2, <1>3, SMT

LEMMA StoreFacts ==
    ASSUME TypeOK, NEW i \in stores
    PROVE  /\ i \in DOMAIN ops /\ i \in Nat /\ tx.lo <= i /\ i <= tx.hi
           /\ ops[i].type = "Store"
BY TxNumbers, SMT DEF stores, IsStore

LEMMA CandidateFacts ==
    ASSUME NEW c \in Candidates
    PROVE  c \in stores \X stores /\ c[1] \in stores /\ c[2] \in stores /\ c[1] # c[2]
BY DEF Candidates

\* Trace, TX and beliefs do not change, so neither does the reference.
LEMMA Frozen ==
    ASSUME UNCHANGED frozen
    PROVE  /\ stores' = stores /\ Candidates' = Candidates /\ Fences' = Fences
           /\ PlansAt(pos)' = PlansAt(pos')
           /\ PlansBefore(pos)' = PlansBefore(pos')
           /\ \A i : FlushedBefore(i, pos)' <=> FlushedBefore(i, pos')
           /\ \A i : DurableBefore(i, pos)' <=> DurableBefore(i, pos')
           /\ \A c : Realisable(c, pos)' <=> Realisable(c, pos')
           /\ \A c : PlanFor(c, pos)' = PlanFor(c, pos')
<1> USE DEF frozen
<1>1. stores' = stores /\ Fences' = Fences
  BY DEF stores, IsStore, Fences
<1>2. Candidates' = Candidates
  BY <1>1 DEF Candidates, violate_atomicity_belief, violate_ordering_belief, is_critical_store
<1>3. \A i : FlushedBefore(i, pos)' <=> FlushedBefore(i, pos')
  BY DEF FlushedBefore
<1>4. \A i : DurableBefore(i, pos)' <=> DurableBefore(i, pos')
  BY DEF DurableBefore
<1>5. \A c : Realisable(c, pos)' <=> Realisable(c, pos')
  BY DEF Realisable, DurableBefore
<1>6. \A c : PlanFor(c, pos)' = PlanFor(c, pos')
  BY DEF PlanFor, DurableBefore
<1>7. PlansAt(pos)' = PlansAt(pos')
  BY <1>2, SMT DEF PlansAt, PlanFor, Realisable, DurableBefore
<1>8. PlansBefore(pos)' = PlansBefore(pos')
  BY <1>1, <1>2, SMT DEF PlansBefore, PlansAt, PlanFor, Realisable, DurableBefore
<1> QED
  BY <1>1, <1>2, <1>3, <1>4, <1>5, <1>6, <1>7, <1>8

\* The cache invariant under a step that leaves the cache alone.
LEMMA CacheStutter ==
    ASSUME CacheInv, UNCHANGED <<ops, pos, cacheVars, image>>
    PROVE  CacheInv' /\ CacheTypeOK' /\ \A i : is_fenced(i)' <=> is_fenced(i)
BY Zenon DEF cacheVars, CacheInv, CacheTypeOK, CacheHoldsUnfenced, FlushedInOrder, FileIsFencedPrefix,
       OnlyIssuedMarked, FencedStores, Issued, is_fenced, is_clear
-------------------------------------------------------------------------------
\* One lemma per action: it preserves the inductive invariant.

\* The empty list holds nothing and is ordered.
LEMMA EmptyList == Range(<<>>) = {} /\ IsInjective(<<>>) /\ Ordered(<<>>)
BY SMT DEF Range, IsInjective, Ordered

LEMMA InitInv == Init => IInv
<1> SUFFICES ASSUME Init PROVE IInv
  OBVIOUS
<1>1. IsTrace(ops) /\ tx \in [first : Nat, lo : Nat, hi : Nat] /\ IsTarget(ops, tx)
  BY TracesAssumption DEF Init
<1>2. CacheInv
  BY <1>1, InitCacheInv DEF Init
<1>3. belief.critical \subseteq Objects /\ belief.hb \subseteq Objects \X Objects
  BY BeliefsAssumption DEF Init
<1>4. tx.lo \in tx.lo..(tx.hi + 1) /\ tx.lo \in tx.lo..tx.lo /\ 1 <= tx.lo
  BY <1>1, SMT DEF IsTarget
<1>5. TypeOK
  <2>1. CacheTypeOK
    BY <1>2 DEF CacheInv
  <2>2. <<>> \in Seq(stores \X stores)
    BY SMT
  <2> QED
    BY <1>1, <1>3, <1>4, <2>1, <2>2 DEF Init, TypeOK
<1>6. PhaseInv
  BY <1>4 DEF Init, InitCache, PhaseInv
<1>7. CandidatesOrdered
  BY EmptyList DEF Init, CandidatesOrdered
<1>8. FlushedAsTraced /\ ListingInv /\ WaitingInv /\ FenceInv /\ TestedExact
  BY DEF Init, FlushedAsTraced, ListingInv, WaitingInv, FenceInv, TestedExact
<1> QED
  BY <1>2, <1>5, <1>6, <1>7, <1>8 DEF IInv

LEMMA CheckLengthPreserves ==
    ASSUME IInv, CheckLength
    PROVE  IInv'
<1> USE DEF CheckLength, IInv
<1>1. CacheInv' /\ CacheTypeOK'
  BY CacheStutter DEF frozen
<1>2. TypeOK'
  BY <1>1, Frozen DEF TypeOK, frozen, listVars
<1>3. PhaseInv'
  BY DEF PhaseInv, frozen, listVars
<1>4. CandidatesOrdered'
  BY DEF CandidatesOrdered, listVars, Ordered, max_id
<1>5. ListingInv'
  <2>1. crash_candidates' = <<>> /\ suc' = tx.lo /\ pre' = tx.lo
    BY DEF PhaseInv, listVars
  <2>2. {c \in Candidates : max_id(c) < tx.lo \/ (max_id(c) = tx.lo /\ min_id(c) < tx.lo)} = {}
    BY CandidateFacts, StoreFacts, TxNumbers, SMT DEF max_id, min_id
  <2> QED
    BY <2>1, <2>2, EmptyList, Frozen DEF ListingInv, max_id, min_id
<1>6. FlushedAsTraced' /\ WaitingInv' /\ FenceInv' /\ TestedExact'
  BY DEF FlushedAsTraced, WaitingInv, FenceInv, TestedExact, PhaseInv
<1> QED
  BY <1>1, <1>2, <1>3, <1>4, <1>5, <1>6

LEMMA CountCandidatesPreserves ==
    ASSUME IInv, CountCandidates
    PROVE  IInv'
<1> USE DEF CountCandidates, IInv
<1>1. CacheInv' /\ CacheTypeOK'
  BY CacheStutter DEF frozen
<1>2. TypeOK'
  BY <1>1, Frozen DEF TypeOK, frozen, listVars
<1>3. PhaseInv'
  BY DEF PhaseInv, frozen, listVars
<1>4. CandidatesOrdered'
  BY DEF CandidatesOrdered, listVars, Ordered, max_id
<1>5. ListingInv'
  BY Frozen DEF ListingInv, listVars, max_id, min_id
<1>6. FlushedAsTraced' /\ WaitingInv' /\ FenceInv' /\ TestedExact'
  BY DEF FlushedAsTraced, WaitingInv, FenceInv, TestedExact, PhaseInv
<1> QED
  BY <1>1, <1>2, <1>3, <1>4, <1>5, <1>6

\* run_before_target and Settle: only the cache moves.
LEMMA BeforePreserves ==
    ASSUME IInv, run_before_target \/ Settle
    PROVE  IInv'
<1> USE DEF IInv
<1>1. CacheInv'
  <2>1. CASE run_before_target
    <3>1. pos \in DOMAIN ops
      BY <2>1, TxNumbers, SMT DEF run_before_target
    <3> QED
      BY <2>1, <3>1, AcceptPreserves, FencePreserves DEF run_before_target, frozen
  <2>2. CASE Settle
    BY <2>2, WriteBackAllPreserves DEF Settle, frozen
  <2> QED
    BY <2>1, <2>2
<1>2. /\ UNCHANGED <<frozen, suc, pre, listVars, tested, pickled>>
      /\ pc \in {"before", "settle"} /\ pc' \in {"before", "settle"} /\ pos' <= tx.lo
  BY TxNumbers, SMT DEF run_before_target, Settle, PhaseInv
<1>3. TypeOK'
  BY <1>1, <1>2, Frozen DEF TypeOK, CacheInv, frozen, listVars
<1>4. PhaseInv'
  BY <1>2 DEF PhaseInv, frozen, listVars
<1>5. CandidatesOrdered'
  BY <1>2 DEF CandidatesOrdered, listVars, Ordered, max_id
<1>6. ListingInv'
  BY <1>2, Frozen DEF ListingInv, listVars, max_id, min_id
<1>7. FlushedAsTraced' /\ WaitingInv' /\ FenceInv' /\ TestedExact'
  BY <1>2 DEF FlushedAsTraced, WaitingInv, FenceInv, TestedExact, PhaseInv
<1> QED
  BY <1>1, <1>3, <1>4, <1>5, <1>6, <1>7

LEMMA ReachTargetPreserves ==
    ASSUME IInv, ReachTarget
    PROVE  IInv'
<1> USE DEF ReachTarget, IInv
<1>1. CacheInv' /\ CacheTypeOK' /\ \A i : is_fenced(i)' <=> is_fenced(i)
  BY CacheStutter DEF frozen
<1>2. TypeOK'
  BY <1>1, Frozen DEF TypeOK, frozen, listVars
<1>3. PhaseInv'
  BY TxNumbers, SMT DEF PhaseInv, frozen, listVars
<1>4. CandidatesOrdered'
  BY DEF CandidatesOrdered, listVars, Ordered, max_id
<1>5. FlushedAsTraced'
  BY StoreFacts, TxNumbers, Frozen, SMT DEF FlushedAsTraced
<1>6. WaitingInv'
  <2>1. Range(crash_candidates) = Candidates
    <3>1. \A c \in Candidates : max_id(c) < suc
      BY CandidateFacts, StoreFacts, TxNumbers, SMT DEF PhaseInv, max_id
    <3> QED
      BY <3>1 DEF ListingInv
  <2>2. \A i \in stores : ~is_fenced(i)
    BY StoreFacts, TxNumbers, SMT DEF CacheInv, OnlyIssuedMarked, Issued, is_clear, is_fenced, Clear, Fenced
  <2>3. \A c \in Candidates : ~is_fenced(c[1])
    BY <2>2, CandidateFacts
  <2>4. processed = <<>>
    BY DEF PhaseInv
  <2> QED
    BY <1>1, <2>1, <2>3, <2>4, Frozen, EmptyList DEF WaitingInv, listVars
<1>7. TestedExact'
  <2>1. PlansBefore(pos) = {}
    BY TxNumbers, SMT DEF PlansBefore, Fences
  <2> QED
    BY <2>1, Frozen DEF TestedExact, PhaseInv
<1>8. ListingInv' /\ FenceInv'
  BY DEF ListingInv, FenceInv
<1> QED
  BY <1>1, <1>2, <1>3, <1>4, <1>5, <1>6, <1>7, <1>8
-------------------------------------------------------------------------------
\* get_crash_candidates_from_tx.

\* A candidate is its earlier and its later store, in one of the two orders.
LEMMA MinMax ==
    ASSUME TypeOK, NEW c \in Candidates
    PROVE  /\ max_id(c) \in stores /\ min_id(c) \in stores /\ min_id(c) < max_id(c)
           /\ c = <<min_id(c), max_id(c)>> \/ c = <<max_id(c), min_id(c)>>
BY CandidateFacts, StoreFacts, SMT DEF max_id, min_id

\* What is appended for a pair of stores: its candidates, each once.
LEMMA CandidatesOfPair ==
    ASSUME TypeOK, NEW i \in stores, NEW j \in stores, i < j
    PROVE  LET N == CandidatesOf(i, j)
           IN  /\ N \in Seq(stores \X stores)
               /\ Range(N) = {c \in Candidates : max_id(c) = j /\ min_id(c) = i}
               /\ IsInjective(N) /\ Ordered(N)
<1> DEFINE a == <<i, j>>
           b == <<j, i>>
<1>1. /\ i \in Nat /\ j \in Nat /\ a \in stores \X stores /\ b \in stores \X stores /\ a # b
      /\ max_id(a) = j /\ max_id(b) = j /\ min_id(a) = i /\ min_id(b) = i
      /\ a[1] = i /\ a[2] = j /\ b[1] = j /\ b[2] = i
  BY StoreFacts, SMT DEF max_id, min_id
<1>2. {c \in Candidates : max_id(c) = j /\ min_id(c) = i} = {c \in {a, b} : c \in Candidates}
  BY <1>1, MinMax
<1>3. /\ a \in Candidates <=> violate_atomicity_belief(i, j) \/ violate_ordering_belief(i, j)
      /\ b \in Candidates <=> violate_atomicity_belief(i, j) \/ violate_ordering_belief(j, i)
  BY <1>1 DEF Candidates, violate_atomicity_belief
<1> HIDE DEF a, b
<1>4. \A x \in stores \X stores : /\ <<x>> \in Seq(stores \X stores) /\ Range(<<x>>) = {x}
                                 /\ IsInjective(<<x>>) /\ Ordered(<<x>>)
  BY SMT DEF Range, IsInjective, Ordered
<1>5. /\ <<a, b>> \in Seq(stores \X stores) /\ Range(<<a, b>>) = {a, b}
      /\ IsInjective(<<a, b>>) /\ Ordered(<<a, b>>)
  BY <1>1, SMT DEF Range, IsInjective, Ordered
<1>6. <<>> \in Seq(stores \X stores)
  BY SMT
<1>7. CASE violate_atomicity_belief(i, j)
  BY <1>2, <1>3, <1>5, <1>7 DEF CandidatesOf, a, b
<1>8. CASE ~violate_atomicity_belief(i, j)
  <2> DEFINE L == IF violate_ordering_belief(i, j) THEN <<a>> ELSE <<>>
             R == IF violate_ordering_belief(j, i) THEN <<b>> ELSE <<>>
  <2>1. CandidatesOf(i, j) = L \o R
    BY <1>8 DEF CandidatesOf, a, b
  <2>2. /\ L \in Seq(stores \X stores) /\ IsInjective(L) /\ Ordered(L)
        /\ Range(L) = {c \in {a} : c \in Candidates}
    BY <1>1, <1>3, <1>4, <1>6, <1>8, EmptyList
  <2>3. /\ R \in Seq(stores \X stores) /\ IsInjective(R) /\ Ordered(R)
        /\ Range(R) = {c \in {b} : c \in Candidates}
    BY <1>1, <1>3, <1>4, <1>6, <1>8, EmptyList
  <2>4. \A c \in Range(L), d \in Range(R) : max_id(c) <= max_id(d)
    BY <1>1, <2>2, <2>3, SMT
  <2>5. Range(L) \cap Range(R) = {}
    BY <1>1, <2>2, <2>3
  <2> HIDE DEF L, R
  <2>6. /\ L \o R \in Seq(stores \X stores) /\ IsInjective(L \o R) /\ Ordered(L \o R)
        /\ Range(L \o R) = Range(L) \cup Range(R)
    BY <2>2, <2>3, <2>4, <2>5, ConcatLists, SMT
  <2> QED
    BY <1>2, <2>1, <2>2, <2>3, <2>6
<1> QED
  BY <1>7, <1>8

LEMMA PairStoresPreserves ==
    ASSUME IInv, PairStores
    PROVE  IInv'
<1> USE DEF IInv
<1> DEFINE listed(s, p) == {c \in Candidates : max_id(c) < s \/ (max_id(c) = s /\ min_id(c) < p)}
<1>1. /\ UNCHANGED <<frozen, pos, cacheVars, image, pc, processed, crash_plans, tested, pickled>>
      /\ pc = "candidates" /\ processed = <<>> /\ suc <= tx.hi
      /\ suc \in Nat /\ pre \in Nat /\ tx.lo <= pre /\ pre <= suc
      /\ Range(crash_candidates) = listed(suc, pre) /\ IsInjective(crash_candidates)
      /\ Ordered(crash_candidates) /\ crash_candidates \in Seq(stores \X stores)
  BY TxNumbers, SMT DEF PairStores, PhaseInv, ListingInv, CandidatesOrdered, TypeOK
<1>0. \A c \in Candidates : /\ max_id(c) \in Nat /\ min_id(c) \in Nat /\ tx.lo <= min_id(c)
                            /\ min_id(c) < max_id(c)
  BY MinMax, StoreFacts
<1>2. CacheInv' /\ CacheTypeOK'
  BY <1>1, CacheStutter DEF frozen
<1>3. /\ suc' \in tx.lo..(tx.hi + 1) /\ pre' \in tx.lo..suc'
      /\ crash_candidates' \in Seq(stores \X stores)
      /\ Range(crash_candidates') = listed(suc', pre') /\ IsInjective(crash_candidates')
      /\ Ordered(crash_candidates')
  <2>1. CASE pre < suc /\ IsStore(suc) /\ IsStore(pre)
    <3> DEFINE N == CandidatesOf(pre, suc)
    <3>1. pre \in stores /\ suc \in stores
      BY <1>1, <2>1, TxNumbers, SMT DEF stores
    <3>2. /\ N \in Seq(stores \X stores) /\ IsInjective(N) /\ Ordered(N)
          /\ Range(N) = {c \in Candidates : max_id(c) = suc /\ min_id(c) = pre}
      BY <2>1, <3>1, CandidatesOfPair
    <3>3. crash_candidates' = crash_candidates \o N /\ suc' = suc /\ pre' = pre + 1
      BY <2>1 DEF PairStores
    <3> HIDE DEF N
    <3>4. /\ \A c \in Range(crash_candidates), d \in Range(N) : max_id(c) <= max_id(d)
          /\ Range(crash_candidates) \cap Range(N) = {}
      <4>1. \A c \in Range(crash_candidates) :
               /\ c \in Candidates /\ max_id(c) <= suc /\ (max_id(c) = suc => min_id(c) < pre)
        BY <1>0, <1>1, SMT
      <4>2. \A d \in Range(N) : max_id(d) = suc /\ min_id(d) = pre
        BY <3>2
      <4> QED
        BY <1>0, <1>1, <4>1, <4>2, SMT
    <3>5. /\ crash_candidates' \in Seq(stores \X stores)
          /\ Range(crash_candidates') = Range(crash_candidates) \cup Range(N)
          /\ Ordered(crash_candidates') /\ IsInjective(crash_candidates')
      BY <1>1, <3>2, <3>3, <3>4, ConcatLists, SMT
    <3>6. listed(suc, pre + 1)
          = listed(suc, pre) \cup {c \in Candidates : max_id(c) = suc /\ min_id(c) = pre}
      BY <1>0, <1>1, MinMax, SMT
    <3>7. Range(crash_candidates') = listed(suc', pre')
      BY <1>1, <3>2, <3>3, <3>5, <3>6
    <3>8. suc' \in tx.lo..(tx.hi + 1) /\ pre' \in tx.lo..suc'
      BY <1>1, <2>1, <3>3, TxNumbers, SMT
    <3> QED
      BY <3>5, <3>7, <3>8
  <2>2. CASE pre < suc /\ IsStore(suc) /\ ~IsStore(pre)
    <3>1. crash_candidates' = crash_candidates /\ suc' = suc /\ pre' = pre + 1
      BY <2>2 DEF PairStores
    <3>2. pre \notin stores
      BY <2>2 DEF stores
    <3>3. listed(suc, pre + 1) = listed(suc, pre)
      BY <1>0, <1>1, <3>2, MinMax, SMT
    <3> QED
      BY <1>1, <2>2, <3>1, <3>3, TxNumbers, SMT
  <2>3. CASE ~(pre < suc /\ IsStore(suc))
    <3>1. crash_candidates' = crash_candidates /\ suc' = suc + 1 /\ pre' = tx.lo
      BY <2>3 DEF PairStores
    <3>2. \A c \in Candidates : max_id(c) = suc => min_id(c) < pre
      BY <1>0, <1>1, <2>3, MinMax, SMT DEF stores
    <3>3. listed(suc + 1, tx.lo) = listed(suc, pre)
      <4>1. ASSUME NEW c \in Candidates
            PROVE  max_id(c) < suc + 1 \/ (max_id(c) = suc + 1 /\ min_id(c) < tx.lo)
                   <=> max_id(c) < suc \/ (max_id(c) = suc /\ min_id(c) < pre)
        BY <1>0, <1>1, <3>2, TxNumbers, SMT
      <4> QED
        BY <4>1
    <3> QED
      BY <1>1, <3>1, <3>3, TxNumbers, SMT
  <2> QED
    BY <2>1, <2>2, <2>3
<1> HIDE DEF listed
<1>4. TypeOK'
  BY <1>1, <1>2, <1>3, Frozen DEF TypeOK, frozen
<1>5. PhaseInv'
  BY <1>1 DEF PhaseInv, frozen
<1>6. CandidatesOrdered'
  <2>1. processed' = <<>>
    BY <1>1
  <2> QED
    BY <2>1, <1>3, EmptyList DEF CandidatesOrdered
<1>7. ListingInv'
  BY <1>1, <1>3, Frozen DEF ListingInv, listed
<1>8. FlushedAsTraced' /\ WaitingInv' /\ FenceInv' /\ TestedExact'
  BY <1>1 DEF FlushedAsTraced, WaitingInv, FenceInv, TestedExact, PhaseInv
<1> QED
  BY <1>2, <1>4, <1>5, <1>6, <1>7, <1>8
-----------------------------------------------------------------------------
\* Inside the TX.

LEMMA EpiloguePreserves ==
    ASSUME IInv, epilogue
    PROVE  IInv'
<1> USE DEF epilogue, IInv
<1>1. CacheInv'
  BY WriteBackAllPreserves DEF frozen
<1>2. TypeOK'
  BY <1>1, Frozen DEF TypeOK, CacheInv, frozen, listVars
<1>3. PhaseInv'
  BY DEF PhaseInv, frozen, listVars
<1>4. CandidatesOrdered'
  BY DEF CandidatesOrdered, listVars
<1>5. TestedExact'
  BY Frozen DEF TestedExact
<1>6. FlushedAsTraced' /\ ListingInv' /\ WaitingInv' /\ FenceInv'
  BY DEF FlushedAsTraced, ListingInv, WaitingInv, FenceInv
<1> QED
  BY <1>1, <1>2, <1>3, <1>4, <1>5, <1>6

\* A candidate that ran before the fence gives the plan of the reference.
LEMMA PlansOfCandidate ==
    ASSUME IInv, pc = "verify", NEW c \in Candidates, max_id(c) <= pos,
           ~(is_fenced(c[1]) /\ is_fenced(c[2]))
    PROVE  PlansOf(c[1], c[2]) = IF Realisable(c, pos) THEN {PlanFor(c, pos)} ELSE {}
<1>1. /\ c[1] \in stores /\ c[2] \in stores /\ c[1] # c[2]
      /\ c[1] \in Nat /\ c[2] \in Nat /\ pos \in Nat
      /\ ops[c[1]].type = "Store" /\ ops[c[2]].type = "Store" /\ ops[pos].type = "Fence"
  BY CandidateFacts, StoreFacts, TxNumbers DEF IInv, PhaseInv, Fences
<1>2. c[1] < pos /\ c[2] < pos
  BY <1>1, SMT DEF max_id
<1>3. (is_fenced(c[1]) <=> DurableBefore(c[1], pos)) /\ (is_fenced(c[2]) <=> DurableBefore(c[2], pos))
  BY <1>1, <1>2 DEF IInv, FlushedAsTraced
<1> QED
  BY <1>1, <1>2, <1>3 DEF PlansOf, Realisable, PlanFor

\* What one operation adds to what the trace says of an earlier store.
LEMMA BeforeNext ==
    ASSUME TypeOK, NEW i \in Nat, i < pos
    PROVE  /\ FlushedBefore(i, pos + 1) <=>
                 FlushedBefore(i, pos) \/ (ops[pos].type = "Flush" /\ ops[pos].line = ops[i].line)
           /\ DurableBefore(i, pos + 1) <=>
                 DurableBefore(i, pos) \/ (ops[pos].type = "Fence" /\ FlushedBefore(i, pos))
<1>1. /\ pos \in Nat /\ pos + 1 - 1 = pos /\ pos \in (i + 1)..pos
      /\ \A k : k \in (i + 1)..pos <=> k \in (i + 1)..(pos - 1) \/ k = pos
      /\ \A k \in (i + 1)..(pos - 1) : k \in Nat /\ k < pos
  <2>1. pos \in Nat
    BY TxNumbers
  <2> QED
    BY <2>1, SMT
<1>2. FlushedBefore(i, pos + 1) <=>
         FlushedBefore(i, pos) \/ (ops[pos].type = "Flush" /\ ops[pos].line = ops[i].line)
  BY <1>1, SMT DEF FlushedBefore
<1>3. ASSUME DurableBefore(i, pos + 1)
      PROVE  DurableBefore(i, pos) \/ (ops[pos].type = "Fence" /\ FlushedBefore(i, pos))
  <2>1. PICK fl \in (i + 1)..pos, fe \in (i + 1)..pos :
            /\ fl < fe /\ ops[fl].type = "Flush" /\ ops[fl].line = ops[i].line
            /\ ops[fe].type = "Fence"
    BY <1>1, <1>3, SMT DEF DurableBefore
  <2>2. fl \in (i + 1)..(pos - 1)
    BY <1>1, <2>1, SMT
  <2> QED
    BY <1>1, <2>1, <2>2 DEF DurableBefore, FlushedBefore
<1>4. ASSUME DurableBefore(i, pos) \/ (ops[pos].type = "Fence" /\ FlushedBefore(i, pos))
      PROVE  DurableBefore(i, pos + 1)
  BY <1>1, <1>4, SMT DEF DurableBefore, FlushedBefore
<1> QED
  BY <1>2, <1>3, <1>4

\* How the flags move: accept flushes a line, a fence fences what is flushing.
LEMMA AcceptFlags ==
    ASSUME CacheInv, pos \in DOMAIN ops, accept(pos), ops' = ops, NEW i \in DOMAIN ops
    PROVE  /\ is_fenced(i)' <=> is_fenced(i)
           /\ i \in Issued => (is_clear(i)' <=> /\ is_clear(i)
                                                /\ ~(ops[pos].type = "Flush" /\ ops[pos].line = ops[i].line))
           /\ ops[pos].type # "Flush" => (is_clear(i)' <=> is_clear(i))
<1> USE DEF is_fenced, is_clear, Clear, Flushing, Fenced
<1>1. CASE ops[pos].type = "Store" \/ ops[pos].type \in {"TXStart", "TXEnd", "PMDK"}
  BY <1>1 DEF accept, accept_store, accept_flush, cacheVars
<1>2. CASE ops[pos].type = "Flush"
  <2>1. flushed'[i] = IF i \in cacheline_dict[ops[pos].line] THEN Flushing ELSE flushed[i]
    BY <1>2 DEF accept, accept_flush
  <2>2. /\ i \in cacheline_dict[ops[pos].line] <=>
             i \in Issued /\ ops[i].line = ops[pos].line /\ ~is_fenced(i)
    BY TraceFacts, SMT DEF CacheInv, CacheTypeOK, CacheHoldsUnfenced
  <2> QED
    BY <1>2, <2>1, <2>2, SMT
<1> QED
  BY <1>1, <1>2 DEF accept

LEMMA FenceFlags ==
    ASSUME CacheInv, write_back_all_flushing_stores, NEW i \in DOMAIN ops
    PROVE  /\ is_fenced(i)' <=> is_fenced(i) \/ is_flushing(i)
           /\ is_clear(i)' <=> is_clear(i)
<1> USE DEF is_fenced, is_clear, is_flushing, Clear, Flushing, Fenced
<1>1. flushed'[i] = IF i \in Cached /\ is_flushing(i) THEN Fenced ELSE flushed[i]
  BY DEF write_back_all_flushing_stores
<1>2. is_flushing(i) => i \in Cached
  BY CachedFacts, SMT DEF CacheInv, OnlyIssuedMarked
<1> QED
  BY <1>1, <1>2, SMT

LEMMA TryTargetPreserves ==
    ASSUME IInv, run_try_traget
    PROVE  IInv'
<1> USE DEF IInv
<1>1. /\ UNCHANGED <<frozen, image, suc, pre, listVars, tested, pickled>>
      /\ pc = "target" /\ pos \in tx.lo..tx.hi /\ pos < tx.hi /\ pos \in DOMAIN ops /\ pos \in Nat
      /\ processed = <<>> /\ crash_plans = {} /\ ~pickled /\ tested = PlansBefore(pos)
  BY TxNumbers, SMT DEF run_try_traget, PhaseInv, TestedExact
<1>2. CASE ops[pos].type = "Fence"
  <2>1. pc' = "verify" /\ UNCHANGED <<pos, cacheVars>>
    BY <1>2 DEF run_try_traget
  <2>2. CacheInv' /\ CacheTypeOK' /\ \A i : is_fenced(i)' <=> is_fenced(i)
    BY <1>1, <2>1, CacheStutter DEF frozen
  <2>3. TypeOK'
    BY <1>1, <2>1, <2>2, Frozen DEF TypeOK, frozen, listVars
  <2>4. PhaseInv'
    <3>1. pos \in Fences
      BY <1>1, <1>2, TxNumbers, SMT DEF Fences
    <3> QED
      BY <1>1, <2>1, <3>1, Frozen DEF PhaseInv, frozen, listVars
  <2>5. FlushedAsTraced'
    <3>1. \A i : is_clear(i)' <=> is_clear(i)
      BY <2>1 DEF is_clear, cacheVars
    <3> QED
      BY <1>1, <2>1, <2>2, <3>1, Frozen DEF FlushedAsTraced
  <2>6. WaitingInv'
    BY <1>1, <2>1, <2>2, Frozen DEF WaitingInv, listVars
  <2>7. FenceInv'
    <3>1. processed' = <<>> /\ crash_plans' = {} /\ tested' = PlansBefore(pos)' /\ pc' = "verify"
      BY <1>1, <2>1, Frozen DEF listVars
    <3> QED
      BY <3>1, EmptyList DEF FenceInv
  <2>8. CandidatesOrdered'
    BY <1>1 DEF CandidatesOrdered, listVars
  <2>9. ListingInv' /\ TestedExact'
    BY <1>1, <2>1 DEF ListingInv, TestedExact
  <2> QED
    BY <2>2, <2>3, <2>4, <2>5, <2>6, <2>7, <2>8, <2>9
<1>3. CASE ops[pos].type # "Fence"
  <2>1. accept(pos) /\ pos' = pos + 1 /\ pc' = "target"
    BY <1>1, <1>3 DEF run_try_traget
  <2>2. CacheInv'
    BY <1>1, <2>1, AcceptPreserves DEF frozen
  <2>3. TypeOK'
    BY <1>1, <2>1, <2>2, Frozen DEF TypeOK, CacheInv, frozen, listVars
  <2>4. PhaseInv'
    BY <1>1, <2>1, TxNumbers, SMT DEF PhaseInv, frozen, listVars
  <2>5. \A i \in stores : is_fenced(i)' <=> is_fenced(i)
    BY <1>1, <2>1, AcceptFlags, StoreFacts DEF frozen
  <2>6. FlushedAsTraced'
    <3> SUFFICES ASSUME NEW i \in stores, i < pos + 1
                 PROVE  /\ is_clear(i)' <=> ~FlushedBefore(i, pos + 1)
                        /\ is_fenced(i)' <=> DurableBefore(i, pos + 1)
      BY <1>1, <2>1, Frozen DEF FlushedAsTraced
    <3>1. CASE i = pos
      <4>1. is_clear(i) /\ ops[pos].type # "Flush"
        BY <3>1, StoreFacts, TxNumbers, SMT DEF CacheInv, OnlyIssuedMarked, Issued
      <4>2. is_clear(i)' /\ ~is_fenced(i)'
        BY <1>1, <2>1, <3>1, <4>1, AcceptFlags, SMT DEF frozen, is_clear, is_fenced, Clear, Fenced
      <4>3. ~FlushedBefore(i, pos + 1) /\ ~DurableBefore(i, pos + 1)
        BY <1>1, <3>1, SMT DEF FlushedBefore, DurableBefore
      <4> QED
        BY <4>2, <4>3
    <3>2. CASE i # pos
      <4>1. i < pos /\ i \in Nat /\ i \in DOMAIN ops
        BY <1>1, <3>2, StoreFacts, SMT
      <4>2. i \in Issued
        BY <1>1, <4>1, StoreFacts, TxNumbers, SMT DEF Issued
      <4>3. (is_clear(i) <=> ~FlushedBefore(i, pos)) /\ (is_fenced(i) <=> DurableBefore(i, pos))
        BY <1>1, <4>1 DEF FlushedAsTraced
      <4>4. is_clear(i)' <=> /\ is_clear(i)
                             /\ ~(ops[pos].type = "Flush" /\ ops[pos].line = ops[i].line)
        BY <1>1, <2>1, <4>1, <4>2, AcceptFlags DEF frozen
      <4> QED
        BY <1>3, <2>5, <4>1, <4>3, <4>4, BeforeNext
    <3> QED
      BY <3>1, <3>2
  <2>7. WaitingInv'
    <3>1. \A c \in Candidates : (is_fenced(c[1])' <=> is_fenced(c[1])) /\ (is_fenced(c[2])' <=> is_fenced(c[2]))
      BY <2>5, CandidateFacts
    <3> QED
      BY <1>1, <2>1, <3>1, Frozen DEF WaitingInv, listVars
  <2>8. TestedExact'
    <3>1. PlansBefore(pos + 1) = PlansBefore(pos)
      BY <1>1, <1>3, TxNumbers, SMT DEF PlansBefore, Fences
    <3> QED
      BY <1>1, <2>1, <3>1, Frozen DEF TestedExact
  <2>9. CandidatesOrdered'
    BY <1>1 DEF CandidatesOrdered, listVars
  <2>10. ListingInv' /\ FenceInv'
    BY <2>1 DEF ListingInv, FenceInv
  <2> QED
    BY <2>2, <2>3, <2>4, <2>6, <2>7, <2>8, <2>9, <2>10
<1> QED
  BY <1>2, <1>3
=============================================================================
