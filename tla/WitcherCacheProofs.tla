-------------------------- MODULE WitcherCacheProofs --------------------------
(***************************************************************************)
(* Every method of the cache preserves CacheInv, for every trace, every    *)
(* set of lines and every layout.  CacheReplayProofs and                   *)
(* CrashManagerProofs build on these lemmas.                               *)
(***************************************************************************)
EXTENDS WitcherCache, WellFoundedInduction, TLAPS

\* A nonempty bounded set of numbers has a greatest element, so Latest
\* (the store that wins a cell) is well defined.
LEMMA LatestExists ==
    ASSUME NEW n \in Nat, NEW S \in SUBSET (1..n), S # {}
    PROVE  Latest(S) \in S /\ \A j \in S : j <= Latest(S)
<1> DEFINE U == {k \in Nat : \A j \in S : j <= k}
           R == OpToRel(<, Nat)
<1>1. n \in U
  OBVIOUS
<1>2. IsWellFoundedOn(R, Nat)
  BY NatLessThanWellFounded
<1>3. U \subseteq Nat
  OBVIOUS
<1> HIDE DEF U, R
<1>4. PICK m \in U : \A y \in U : ~(<<y, m>> \in R)
  BY <1>1, <1>2, <1>3, WFMin
<1>5. m \in S
  <2> SUFFICES ASSUME m \notin S PROVE FALSE
    OBVIOUS
  <2>1. m \in Nat /\ \A j \in S : j <= m - 1 /\ j >= 1
    BY DEF U
  <2>2. m - 1 \in U
    <3>1. PICK s \in S : TRUE
      OBVIOUS
    <3>2. m - 1 \in Nat
      BY <2>1, <3>1
    <3> QED
      BY <2>1, <3>2 DEF U
  <2>3. <<m - 1, m>> \in R
    BY <2>1, <2>2 DEF R, OpToRel, U
  <2> QED
    BY <1>4, <2>2, <2>3
<1>6. \E i \in S : \A j \in S : j <= i
  BY <1>5 DEF U
<1> QED
  BY <1>6 DEF Latest

\* Stores that are all later than A's decide which store is the latest.
LEMMA LatestOfLater ==
    ASSUME NEW A \in SUBSET Nat, NEW W \in SUBSET Nat, W # {},
           \A a \in A, w \in W : a < w
    PROVE  Latest(A \cup W) = Latest(W)
<1>1. \A i : (i \in A \cup W /\ \A j \in A \cup W : j <= i) <=> (i \in W /\ \A j \in W : j <= i)
  <2> TAKE i
  <2>1. PICK w \in W : TRUE
    OBVIOUS
  <2>2. ASSUME i \in A \cup W, \A j \in A \cup W : j <= i
        PROVE  i \in W /\ \A j \in W : j <= i
    <3>1. w <= i /\ w \in Nat /\ i \in Nat
      BY <2>1, <2>2
    <3>2. i \notin A
      BY <2>1, <3>1
    <3> QED
      BY <2>2, <3>2
  <2>3. ASSUME i \in W, \A j \in W : j <= i
        PROVE  i \in A \cup W /\ \A j \in A \cup W : j <= i
    <3>1. \A j \in A : j < i /\ j \in Nat /\ i \in Nat
      BY <2>3
    <3> QED
      BY <2>3, <3>1
  <2> QED
    BY <2>2, <2>3
<1> QED
  BY <1>1 DEF Latest

\* What a trace gives for each of its operations.
LEMMA TraceFacts ==
    ASSUME IsTrace(ops)
    PROVE  /\ Len(ops) \in Nat
           /\ DOMAIN ops = 1..Len(ops)
           /\ \A i \in DOMAIN ops : /\ ops[i].type \in OpTypes
                                    /\ ops[i].line \in Lines
                                    /\ ops[i].cells \subseteq Cells
<1>1. ops \in Seq(Operation)
  BY DEF IsTrace
<1>2. Len(ops) \in Nat /\ DOMAIN ops = 1..Len(ops) /\ \A i \in DOMAIN ops : ops[i] \in Operation
  BY <1>1
<1> QED
  BY <1>2 DEF Operation

\* The cached stores are those replayed and not fenced.
LEMMA CachedFacts ==
    ASSUME CacheInv
    PROVE  /\ Cached = {i \in Issued : ~is_fenced(i)}
           /\ Issued \subseteq DOMAIN ops
           /\ FencedStores \subseteq Issued
           /\ Cached \subseteq DOMAIN ops
<1>1. Issued \subseteq DOMAIN ops
  BY TraceFacts DEF Issued, CacheInv, CacheTypeOK
<1>2. Cached = {i \in Issued : ~is_fenced(i)}
  BY <1>1, TraceFacts DEF Cached, CacheInv, CacheHoldsUnfenced, CacheTypeOK
<1>3. FencedStores \subseteq Issued
  BY DEF FencedStores, CacheInv, OnlyIssuedMarked, is_fenced, is_clear, Clear, Fenced
<1> QED
  BY <1>1, <1>2, <1>3

\* In the cells a cached store covers, every fenced store is earlier.
LEMMA FencedBeforeCached ==
    ASSUME CacheInv, NEW c \in Cells,
           NEW i \in FencedStores, NEW j \in Cached,
           c \in ops[i].cells, c \in ops[j].cells
    PROVE  i < j
<1>1. i \in Issued /\ j \in Issued /\ is_fenced(i) /\ ~is_fenced(j)
  BY CachedFacts DEF FencedStores
<1>2. ops[i].line = ops[j].line
  BY <1>1, CachedFacts DEF CacheInv, CacheTypeOK, IsTrace, Issued
<1>3. i \in Nat /\ j \in Nat /\ i # j
  BY <1>1, CachedFacts, TraceFacts DEF CacheInv, CacheTypeOK
<1>4. ~(j < i)
  <2> SUFFICES ASSUME j < i PROVE FALSE
    OBVIOUS
  <2>1. flushed[i] <= flushed[j]
    BY <1>1, <1>2 DEF CacheInv, FlushedInOrder
  <2>2. flushed[j] \in {0, 1, 2} /\ flushed[i] = 2 /\ flushed[j] # 2
    BY <1>1, CachedFacts DEF CacheInv, CacheTypeOK, is_fenced, Clear, Flushing, Fenced
  <2> QED
    BY <2>1, <2>2
<1> QED
  BY <1>3, <1>4

\* Writing cached stores to the file gives the contents that the fenced
\* stores together with them determine.
LEMMA DoStoresContents ==
    ASSUME CacheInv, NEW S \in SUBSET Cached
    PROVE  do_stores(file, S) = PM!Contents(FencedStores \cup S)
<1> DEFINE W(c) == {i \in S : c \in ops[i].cells}
           F(c) == {i \in FencedStores : c \in ops[i].cells}
           D(c) == {i \in FencedStores \cup S : c \in ops[i].cells}
<1>1. ASSUME NEW c \in Cells
      PROVE  (IF W(c) = {} THEN file[c] ELSE Latest(W(c)))
             = (IF D(c) = {} THEN 0 ELSE Latest(D(c)))
  <2>1. D(c) = F(c) \cup W(c)
    OBVIOUS
  <2>2. CASE W(c) = {}
    <3>1. file[c] = IF F(c) = {} THEN 0 ELSE Latest(F(c))
      BY DEF CacheInv, FileIsFencedPrefix
    <3> QED
      BY <2>1, <2>2, <3>1
  <2>3. CASE W(c) # {}
    <3>1. F(c) \subseteq Nat /\ W(c) \subseteq Nat
      BY CachedFacts, TraceFacts DEF CacheInv, CacheTypeOK
    <3>2. \A a \in F(c), w \in W(c) : a < w
      BY FencedBeforeCached
    <3> HIDE DEF F, W, D
    <3>3. Latest(F(c) \cup W(c)) = Latest(W(c))
      BY <2>3, <3>1, <3>2, LatestOfLater
    <3> QED
      BY <2>1, <2>3, <3>3
  <2> QED
    BY <2>2, <2>3
<1>2. do_stores(file, S) = [c \in Cells |-> IF W(c) = {} THEN file[c] ELSE Latest(W(c))]
  BY DEF do_stores
<1>3. PM!Contents(FencedStores \cup S) = [c \in Cells |-> IF D(c) = {} THEN 0 ELSE Latest(D(c))]
  BY DEF PM!Contents, PM!Latest, Latest
<1> HIDE DEF W, F, D
<1> QED
  BY <1>1, <1>2, <1>3

\* File contents name stores.
LEMMA ContentsType ==
    ASSUME IsTrace(ops), NEW D \in SUBSET DOMAIN ops
    PROVE  PM!Contents(D) \in [Cells -> Nat]
<1>1. ASSUME NEW c \in Cells, {i \in D : c \in ops[i].cells} # {}
      PROVE  Latest({i \in D : c \in ops[i].cells}) \in Nat
  <2> DEFINE W == {i \in D : c \in ops[i].cells}
  <2>1. Len(ops) \in Nat /\ W \in SUBSET (1..Len(ops)) /\ W # {}
    BY <1>1, TraceFacts
  <2> HIDE DEF W
  <2>2. Latest(W) \in W
    BY <2>1, LatestExists
  <2> QED
    BY <2>1, <2>2 DEF W
<1> QED
  BY <1>1 DEF PM!Contents, PM!Latest, Latest
-------------------------------------------------------------------------------
\* The file after a write-back that fenced exactly the stores S it wrote.
LEMMA FileAfterWriteBack ==
    ASSUME CacheInv, NEW S \in SUBSET Cached,
           ops' = ops, file' = do_stores(file, S),
           flushed' = [i \in DOMAIN ops |-> IF i \in S THEN Fenced ELSE flushed[i]]
    PROVE  /\ flushed' \in [DOMAIN ops' -> {Clear, Flushing, Fenced}]
           /\ file' \in [Cells -> Nat]
           /\ FileIsFencedPrefix'
<1>1. FencedStores' = FencedStores \cup S
  BY CachedFacts DEF FencedStores, is_fenced, CacheInv, CacheTypeOK
<1>2. file' = PM!Contents(FencedStores \cup S)
  BY DoStoresContents
<1>3. file' \in [Cells -> Nat]
  <2>1. FencedStores \cup S \in SUBSET DOMAIN ops
    BY CachedFacts
  <2> QED
    BY <1>2, <2>1, ContentsType DEF CacheInv, CacheTypeOK
<1>4. FileIsFencedPrefix'
  BY <1>1, <1>2 DEF FileIsFencedPrefix, PM!Contents, PM!Latest, Latest
<1>5. flushed' \in [DOMAIN ops' -> {Clear, Flushing, Fenced}]
  BY DEF CacheInv, CacheTypeOK
<1> QED
  BY <1>3, <1>4, <1>5

\* accept, for everything but a fence.
LEMMA AcceptPreserves ==
    ASSUME CacheInv, pos \in DOMAIN ops, accept(pos), pos' = pos + 1,
           UNCHANGED <<ops, image>>
    PROVE  CacheInv'
<1>1. /\ Len(ops) \in Nat /\ DOMAIN ops = 1..Len(ops) /\ pos \in 1..Len(ops)
      /\ ops[pos].line \in Lines
  BY TraceFacts DEF CacheInv, CacheTypeOK
<1>2. CASE ops[pos].type = "Store" /\ accept_store(pos)
  <2>1. Issued' = Issued \cup {pos} /\ pos \notin Issued
    BY <1>1, <1>2 DEF Issued
  <2>2. is_clear(pos) /\ \A i \in Issued : i < pos
    BY <1>1, <2>1 DEF CacheInv, OnlyIssuedMarked, Issued
  <2>3. CacheTypeOK'
    BY <1>1, <1>2 DEF CacheInv, CacheTypeOK, accept_store
  <2>4. CacheHoldsUnfenced'
    <3> SUFFICES ASSUME NEW l \in Lines
                 PROVE  cacheline_dict'[l] = {i \in Issued' : ops[i].line = l /\ ~is_fenced(i)'}
      BY DEF CacheHoldsUnfenced
    <3>1. cacheline_dict'[l] = IF l = ops[pos].line THEN cacheline_dict[l] \cup {pos} ELSE cacheline_dict[l]
      BY <1>1, <1>2 DEF CacheInv, CacheTypeOK, accept_store
    <3>2. cacheline_dict[l] = {i \in Issued : ops[i].line = l /\ ~is_fenced(i)}
      BY DEF CacheInv, CacheHoldsUnfenced
    <3>3. \A i : is_fenced(i)' <=> is_fenced(i)
      BY <1>2 DEF accept_store, is_fenced
    <3>4. ~is_fenced(pos)
      BY <2>2 DEF is_clear, is_fenced, Clear, Fenced
    <3> QED
      BY <2>1, <3>1, <3>2, <3>3, <3>4
  <2>5. FlushedInOrder'
    <3> SUFFICES ASSUME NEW i \in Issued', NEW j \in Issued', i < j, ops[i].line = ops[j].line
                 PROVE  flushed[j] <= flushed[i]
      BY <1>2 DEF FlushedInOrder, accept_store
    <3>1. i \in Issued
      BY <2>1, <2>2, <1>1 DEF Issued
    <3>2. CASE j \in Issued
      BY <3>1, <3>2 DEF CacheInv, FlushedInOrder
    <3>3. CASE j = pos
      <4>1. flushed[j] = 0 /\ flushed[i] \in {0, 1, 2}
        BY <2>2, <3>1, <3>3, CachedFacts DEF is_clear, CacheInv, CacheTypeOK, Clear, Flushing, Fenced
      <4> QED
        BY <4>1
    <3> QED
      BY <2>1, <3>2, <3>3
  <2>6. FileIsFencedPrefix'
    BY <1>2 DEF CacheInv, FileIsFencedPrefix, FencedStores, is_fenced, accept_store
  <2>7. OnlyIssuedMarked'
    BY <1>2, <2>1 DEF CacheInv, OnlyIssuedMarked, is_clear, accept_store
  <2> QED
    BY <2>3, <2>4, <2>5, <2>6, <2>7 DEF CacheInv
<1>3. CASE ops[pos].type # "Store" /\ UNCHANGED cacheVars
  <2>1. Issued' = Issued
    BY <1>1, <1>3 DEF Issued
  <2>2. CacheTypeOK'
    BY <1>1, <1>3 DEF CacheInv, CacheTypeOK, cacheVars
  <2>3. CacheHoldsUnfenced' /\ FlushedInOrder' /\ FileIsFencedPrefix' /\ OnlyIssuedMarked'
    BY <1>3, <2>1 DEF CacheInv, CacheHoldsUnfenced, FlushedInOrder, FileIsFencedPrefix,
                      OnlyIssuedMarked, FencedStores, is_fenced, is_clear, cacheVars
  <2> QED
    BY <2>2, <2>3 DEF CacheInv
<1>4. CASE ops[pos].type = "Flush" /\ accept_flush(pos)
  <2> DEFINE L == cacheline_dict[ops[pos].line]
  <2>1. Issued' = Issued
    BY <1>1, <1>4 DEF Issued
  <2>2. L = {i \in Issued : ops[i].line = ops[pos].line /\ ~is_fenced(i)}
    BY <1>1 DEF CacheInv, CacheHoldsUnfenced
  <2>3. flushed' = [i \in DOMAIN ops |-> IF i \in L THEN Flushing ELSE flushed[i]]
    BY <1>4 DEF accept_flush
  <2>4. \A i \in DOMAIN ops : is_fenced(i)' <=> is_fenced(i)
    BY <2>2, <2>3 DEF is_fenced, Flushing, Fenced
  <2>5. CacheTypeOK'
    BY <1>1, <1>4, <2>3 DEF CacheInv, CacheTypeOK, accept_flush
  <2>6. CacheHoldsUnfenced'
    BY <1>4, <2>1, <2>4, CachedFacts DEF CacheInv, CacheHoldsUnfenced, accept_flush
  <2>7. FlushedInOrder'
    <3> SUFFICES ASSUME NEW i \in Issued, NEW j \in Issued, i < j, ops[i].line = ops[j].line
                 PROVE  flushed'[j] <= flushed'[i]
      BY <2>1 DEF FlushedInOrder
    <3>1. i \in DOMAIN ops /\ j \in DOMAIN ops
      BY CachedFacts
    <3>2. flushed[j] <= flushed[i] /\ flushed[i] \in {0, 1, 2} /\ flushed[j] \in {0, 1, 2}
      BY <3>1 DEF CacheInv, FlushedInOrder, CacheTypeOK, Clear, Flushing, Fenced
    <3>3. CASE ops[i].line # ops[pos].line
      BY <2>2, <2>3, <3>1, <3>2, <3>3
    <3>4. CASE ops[i].line = ops[pos].line
      <4>1. flushed'[i] = (IF flushed[i] = 2 THEN 2 ELSE 1) /\ flushed'[j] = IF flushed[j] = 2 THEN 2 ELSE 1
        BY <2>2, <2>3, <3>1, <3>4 DEF is_fenced, Flushing, Fenced
      <4> QED
        BY <3>2, <4>1
    <3> QED
      BY <3>3, <3>4
  <2>8. FencedStores' = FencedStores
    BY <2>4 DEF FencedStores
  <2>9. FileIsFencedPrefix'
    BY <1>4, <2>8 DEF CacheInv, FileIsFencedPrefix, accept_flush
  <2>10. OnlyIssuedMarked'
    BY <2>1, <2>2, <2>3 DEF CacheInv, OnlyIssuedMarked, is_clear
  <2> QED
    BY <2>5, <2>6, <2>7, <2>9, <2>10 DEF CacheInv
<1> QED
  BY <1>2, <1>3, <1>4 DEF accept

\* A fence: write_back_all_flushing_stores.
LEMMA FencePreserves ==
    ASSUME CacheInv, pos \in DOMAIN ops, ops[pos].type # "Store",
           write_back_all_flushing_stores, pos' = pos + 1, UNCHANGED <<ops, image>>
    PROVE  CacheInv'
<1> DEFINE W == {i \in Cached : is_flushing(i)}
<1>1. Len(ops) \in Nat /\ DOMAIN ops = 1..Len(ops) /\ pos \in 1..Len(ops)
  BY TraceFacts DEF CacheInv, CacheTypeOK
<1>2. Issued' = Issued
  BY <1>1 DEF Issued
<1>3. /\ file' = do_stores(file, W)
      /\ flushed' = [i \in DOMAIN ops |-> IF i \in W THEN Fenced ELSE flushed[i]]
      /\ cacheline_dict' = [l \in Lines |-> {i \in cacheline_dict[l] : is_clear(i)}]
  BY DEF write_back_all_flushing_stores
<1>4. /\ flushed' \in [DOMAIN ops' -> {Clear, Flushing, Fenced}]
      /\ file' \in [Cells -> Nat]
      /\ FileIsFencedPrefix'
  BY <1>3, FileAfterWriteBack
<1>5. CacheTypeOK'
  BY <1>1, <1>3, <1>4 DEF CacheInv, CacheTypeOK
<1>6. \A i \in Issued : /\ i \in DOMAIN ops /\ flushed[i] \in {0, 1, 2}
                        /\ flushed'[i] = IF flushed[i] = 1 THEN 2 ELSE flushed[i]
  BY <1>3, CachedFacts DEF is_flushing, is_fenced, CacheInv, CacheTypeOK, Clear, Flushing, Fenced
<1>7. CacheHoldsUnfenced'
  <2> SUFFICES ASSUME NEW l \in Lines
               PROVE  cacheline_dict'[l] = {i \in Issued : ops[i].line = l /\ ~is_fenced(i)'}
    BY <1>2 DEF CacheHoldsUnfenced
  <2>1. cacheline_dict[l] = {i \in Issued : ops[i].line = l /\ ~is_fenced(i)}
    BY DEF CacheInv, CacheHoldsUnfenced
  <2>2. \A i \in Issued : ~is_fenced(i)' <=> ~is_fenced(i) /\ is_clear(i)
    BY <1>6 DEF is_fenced, is_clear, Clear, Fenced
  <2> QED
    BY <1>3, <2>1, <2>2
<1>8. FlushedInOrder'
  <2> SUFFICES ASSUME NEW i \in Issued, NEW j \in Issued, i < j, ops[i].line = ops[j].line
               PROVE  flushed'[j] <= flushed'[i]
    BY <1>2 DEF FlushedInOrder
  <2>1. flushed[j] <= flushed[i]
    BY DEF CacheInv, FlushedInOrder
  <2> QED
    BY <1>6, <2>1
<1>9. OnlyIssuedMarked'
  BY <1>2, <1>3, CachedFacts DEF CacheInv, OnlyIssuedMarked, is_clear
<1> QED
  BY <1>4, <1>5, <1>7, <1>8, <1>9 DEF CacheInv

\* write_back_all_stores.
LEMMA WriteBackAllPreserves ==
    ASSUME CacheInv, write_back_all_stores, UNCHANGED <<ops, pos, image>>
    PROVE  CacheInv'
<1>1. Issued' = Issued
  BY DEF Issued
<1>2. /\ file' = do_stores(file, Cached)
      /\ flushed' = [i \in DOMAIN ops |-> IF i \in Cached THEN Fenced ELSE flushed[i]]
      /\ cacheline_dict' = [l \in Lines |-> {}]
  BY DEF write_back_all_stores
<1>3. /\ flushed' \in [DOMAIN ops' -> {Clear, Flushing, Fenced}]
      /\ file' \in [Cells -> Nat]
      /\ FileIsFencedPrefix'
  BY <1>2, FileAfterWriteBack
<1>4. CacheTypeOK'
  BY <1>2, <1>3 DEF CacheInv, CacheTypeOK
<1>5. \A i \in Issued : flushed'[i] = 2
  BY <1>2, CachedFacts DEF is_fenced, Fenced
<1>6. CacheHoldsUnfenced'
  BY <1>1, <1>2, <1>5 DEF CacheHoldsUnfenced, is_fenced, Fenced
<1>7. FlushedInOrder'
  BY <1>1, <1>5 DEF FlushedInOrder
<1>8. OnlyIssuedMarked'
  BY <1>1, <1>2, CachedFacts DEF CacheInv, OnlyIssuedMarked, is_clear
<1> QED
  BY <1>3, <1>4, <1>6, <1>7, <1>8 DEF CacheInv

\* Building a crash image changes only the image.
LEMMA ImagePreserves ==
    ASSUME CacheInv, NEW plan \in DOMAIN ops, image' = CrashImage(plan),
           UNCHANGED <<ops, pos, cacheVars>>
    PROVE  CacheInv'
<1>1. image' \in [Cells -> Nat]
  <2>1. CASE ops[plan].type = "Fence"
    BY <2>1 DEF CrashImage, CacheInv, CacheTypeOK
  <2>2. CASE ops[plan].type # "Fence"
    <3> DEFINE S == get_stores_from_crash_plan(plan)
    <3>1. S \in SUBSET Cached
      BY TraceFacts DEF get_stores_from_crash_plan, Cached, CacheInv, CacheTypeOK
    <3>2. FencedStores \cup S \in SUBSET DOMAIN ops
      BY <3>1, CachedFacts
    <3> HIDE DEF S
    <3>3. do_stores(file, S) \in [Cells -> Nat]
      BY <3>1, <3>2, DoStoresContents, ContentsType DEF CacheInv, CacheTypeOK
    <3> QED
      BY <2>2, <3>3 DEF CrashImage, S
  <2> QED
    BY <2>1, <2>2
<1> QED
  BY <1>1 DEF CacheInv, CacheTypeOK, CacheHoldsUnfenced, FlushedInOrder, FileIsFencedPrefix,
              OnlyIssuedMarked, FencedStores, Issued, is_fenced, is_clear, cacheVars

\* The invariant holds at the start.
LEMMA InitCacheInv ==
    ASSUME IsTrace(ops), InitCache
    PROVE  CacheInv
<1>1. Issued = {} /\ Len(ops) \in Nat
  BY TraceFacts DEF Issued, InitCache
<1>2. FencedStores = {}
  BY DEF FencedStores, is_fenced, InitCache, Clear, Fenced
<1> QED
  BY <1>1, <1>2 DEF InitCache, CacheInv, CacheTypeOK, CacheHoldsUnfenced, FlushedInOrder,
                    FileIsFencedPrefix, OnlyIssuedMarked, is_clear
-------------------------------------------------------------------------------
\* Every method of the cache is a step of PersistentMemory.

\* A set of replayed stores that holds the fenced ones, and with a store the
\* unfenced ones before it in its line, may survive a crash.
LEMMA SurvivorsFacts ==
    ASSUME CacheInv, NEW S \in SUBSET Cached,
           \A i \in S : \A j \in Cached : j < i /\ ops[j].line = ops[i].line => j \in S
    PROVE  PM!Survivors(pos - 1, FencedStores \cup S)
<1>1. PM!Issued(pos - 1) = Issued
  BY DEF PM!Issued, Issued
<1>2. FencedStores \cup S \subseteq Issued
  BY CachedFacts
<1>3. ASSUME NEW i \in FencedStores \cup S, NEW j \in Issued, j < i, ops[j].line = ops[i].line
      PROVE  j \in FencedStores \cup S
  <2>1. CASE is_fenced(j)
    BY <2>1, CachedFacts DEF FencedStores
  <2>2. CASE ~is_fenced(j)
    <3>1. j \in Cached /\ i \in Issued
      BY <1>2, <2>2, CachedFacts
    <3>2. ~is_fenced(i)
      <4> SUFFICES ASSUME is_fenced(i) PROVE FALSE
        OBVIOUS
      <4>1. flushed[i] <= flushed[j]
        BY <1>3, <3>1 DEF CacheInv, FlushedInOrder
      <4>2. flushed[j] \in {0, 1, 2} /\ flushed[i] = 2 /\ flushed[j] # 2
        BY <2>2, CachedFacts DEF CacheInv, CacheTypeOK, is_fenced, Clear, Flushing, Fenced
      <4> QED
        BY <4>1, <4>2
    <3>3. i \in S
      BY <1>3, <3>2 DEF FencedStores
    <3> QED
      BY <1>3, <3>1, <3>3
  <2> QED
    BY <2>1, <2>2
<1> QED
  BY <1>1, <1>2, <1>3 DEF PM!Survivors

\* The initial cache is an empty memory.
LEMMA InitRefines ==
    ASSUME IsTrace(ops), InitCache
    PROVE  PM!Init
<1>1. FencedStores = {} /\ {i \in DOMAIN ops : is_flushing(i)} = {}
  BY DEF FencedStores, is_fenced, is_flushing, InitCache, Clear, Flushing, Fenced
<1> QED
  BY <1>1 DEF PM!Init, PM!IsTrace, PM!Operation, PM!OpTypes, IsTrace, Operation, OpTypes, InitCache

\* write_back_all_stores evicts every line.
LEMMA WriteBackAllRefines ==
    ASSUME CacheInv, write_back_all_stores, UNCHANGED <<ops, pos, image>>
    PROVE  PM!Evict
<1>1. flushed' = [i \in DOMAIN ops |-> IF i \in Cached THEN Fenced ELSE flushed[i]]
  BY DEF write_back_all_stores
<1>2. FencedStores' = FencedStores \cup Cached
  BY <1>1, CachedFacts DEF FencedStores, is_fenced, CacheInv, CacheTypeOK
<1>3. PM!Survivors(pos - 1, FencedStores \cup Cached)
  BY SurvivorsFacts
<1>4. {i \in DOMAIN ops : is_flushing(i)}' = {i \in DOMAIN ops : is_flushing(i)} \ FencedStores'
  BY <1>1, CachedFacts DEF FencedStores, is_flushing, is_fenced, CacheInv, CacheTypeOK, Flushing, Fenced
<1> QED
  BY <1>2, <1>3, <1>4 DEF PM!Evict

\* A crash image of a cached store, or of a fence, is one a crash may leave.
LEMMA ImageRefines ==
    ASSUME CacheInv, NEW plan \in DOMAIN ops,
           ops[plan].type = "Fence" \/ plan \in Cached,
           image' = CrashImage(plan), UNCHANGED <<ops, pos, cacheVars>>
    PROVE  PM!Crash
<1> DEFINE S == IF ops[plan].type = "Fence" THEN {} ELSE get_stores_from_crash_plan(plan)
<1>1. S \in SUBSET Cached
  BY TraceFacts DEF get_stores_from_crash_plan, Cached, CacheInv, CacheTypeOK
<1>2. image' = do_stores(file, S)
  <2>1. file = do_stores(file, {})
    BY DEF do_stores, CacheInv, CacheTypeOK
  <2> QED
    BY <2>1 DEF CrashImage
<1>3. \A i \in S : \A j \in Cached : j < i /\ ops[j].line = ops[i].line => j \in S
  <2> SUFFICES ASSUME ops[plan].type # "Fence",
                      NEW i \in get_stores_from_crash_plan(plan), NEW j \in Cached,
                      j < i, ops[j].line = ops[i].line
               PROVE  j \in get_stores_from_crash_plan(plan)
    OBVIOUS
  <2>1. i \in cacheline_dict[ops[plan].line] /\ i <= plan /\ ops[plan].line \in Lines
    BY TraceFacts DEF get_stores_from_crash_plan, CacheInv, CacheTypeOK
  <2>2. ops[i].line = ops[plan].line /\ i \in DOMAIN ops
    BY <2>1, CachedFacts DEF CacheInv, CacheHoldsUnfenced
  <2>3. j \in cacheline_dict[ops[plan].line]
    BY <2>1, <2>2, CachedFacts DEF CacheInv, CacheHoldsUnfenced
  <2>4. j <= plan
    BY <2>1, <2>2, CachedFacts, TraceFacts DEF CacheInv, CacheTypeOK
  <2> QED
    BY <2>3, <2>4 DEF get_stores_from_crash_plan
<1> HIDE DEF S
<1>4. image' = PM!Contents(FencedStores \cup S)
  BY <1>1, <1>2, DoStoresContents
<1>5. PM!Survivors(pos - 1, FencedStores \cup S)
  BY <1>1, <1>3, SurvivorsFacts
<1>6. FencedStores \cup S \in SUBSET PM!Issued(pos - 1)
  BY <1>5 DEF PM!Survivors
<1>7. FencedStores' = FencedStores /\ {i \in DOMAIN ops : is_flushing(i)}' = {i \in DOMAIN ops : is_flushing(i)}
  BY DEF FencedStores, is_fenced, is_flushing, cacheVars
<1> QED
  BY <1>4, <1>5, <1>6, <1>7 DEF PM!Crash

\* What is fenced may survive alone.
LEMMA FencedSurvive == CacheInv => PM!Survivors(pos - 1, FencedStores)
<1> SUFFICES ASSUME CacheInv PROVE PM!Survivors(pos - 1, FencedStores \cup {})
  OBVIOUS
<1> QED
  BY SurvivorsFacts

\* After an operation, too: what is fenced then may survive then.
LEMMA FencedSurviveNext ==
    ASSUME CacheInv', ops' = ops, pos \in Nat, pos' = pos + 1
    PROVE  PM!Survivors(pos - 1 + 1, FencedStores')
<1>1. CacheInv' => PM!Survivors(pos - 1, FencedStores)'
  BY FencedSurvive, PTL
<1>2. pos' - 1 = pos - 1 + 1
  OBVIOUS
<1> QED
  BY <1>1, <1>2 DEF PM!Survivors, PM!Issued

\* accept executes the operation.
LEMMA AcceptRefines ==
    ASSUME CacheInv, pos \in DOMAIN ops, accept(pos), pos' = pos + 1,
           UNCHANGED <<ops, image>>
    PROVE  PM!Execute
<1> DEFINE P == {i \in DOMAIN ops : is_flushing(i)}
<1>1. /\ Len(ops) \in Nat /\ DOMAIN ops = 1..Len(ops) /\ pos \in 1..Len(ops)
      /\ ops[pos].line \in Lines /\ pos - 1 + 1 = pos /\ pos \in Nat
  BY TraceFacts DEF CacheInv, CacheTypeOK
<1>2. PM!Survivors(pos - 1 + 1, FencedStores')
  BY <1>1, AcceptPreserves, FencedSurviveNext
<1>3. pos - 1 < Len(ops) /\ pos' - 1 = pos - 1 + 1 /\ ops[pos].type # "Fence"
  BY <1>1 DEF accept
<1>4. CASE ops[pos].type # "Flush" /\ flushed' = flushed
  <2>1. FencedStores' = FencedStores /\ P' = P /\ P \cap FencedStores = {}
    BY <1>4 DEF FencedStores, is_fenced, is_flushing, Flushing, Fenced
  <2> QED
    BY <1>1, <1>2, <1>3, <1>4, <2>1 DEF PM!Execute
<1>5. CASE ops[pos].type = "Flush" /\ accept_flush(pos)
  <2> DEFINE L == cacheline_dict[ops[pos].line]
             I == {i \in Issued : ops[i].line = ops[pos].line}
  <2>1. L = {i \in Issued : ops[i].line = ops[pos].line /\ ~is_fenced(i)}
    BY <1>1 DEF CacheInv, CacheHoldsUnfenced
  <2>2. flushed' = [i \in DOMAIN ops |-> IF i \in L THEN Flushing ELSE flushed[i]]
    BY <1>5 DEF accept_flush
  <2>3. FencedStores' = FencedStores
    BY <2>1, <2>2 DEF FencedStores, is_fenced, Flushing, Fenced
  <2>4. P' = (P \cup I) \ FencedStores
    <3>1. P' = P \cup L
      BY <2>1, <2>2, CachedFacts DEF is_flushing, Flushing
    <3>2. P \cap FencedStores = {} /\ L = I \ FencedStores
      BY <2>1, CachedFacts DEF FencedStores, is_fenced, is_flushing, Flushing, Fenced
    <3> QED
      BY <3>1, <3>2
  <2>5. PM!Issued(pos - 1) = Issued
    BY DEF PM!Issued, Issued
  <2> QED
    BY <1>1, <1>2, <1>3, <1>5, <2>3, <2>4, <2>5 DEF PM!Execute
<1> QED
  BY <1>4, <1>5 DEF accept, accept_store, cacheVars

\* write_back_all_flushing_stores completes a fence.
LEMMA FenceRefines ==
    ASSUME CacheInv, pos \in DOMAIN ops, ops[pos].type = "Fence",
           write_back_all_flushing_stores, pos' = pos + 1, UNCHANGED <<ops, image>>
    PROVE  PM!Execute
<1> DEFINE P == {i \in DOMAIN ops : is_flushing(i)}
<1>1. /\ Len(ops) \in Nat /\ DOMAIN ops = 1..Len(ops) /\ pos \in 1..Len(ops)
      /\ pos - 1 + 1 = pos /\ pos \in Nat
  BY TraceFacts DEF CacheInv, CacheTypeOK
<1>2. PM!Survivors(pos - 1 + 1, FencedStores')
  BY <1>1, FencePreserves, FencedSurviveNext
<1>3. pos - 1 < Len(ops) /\ pos' - 1 = pos - 1 + 1
  BY <1>1
<1>4. P = {i \in Cached : is_flushing(i)}
  BY CachedFacts DEF CacheInv, OnlyIssuedMarked, is_flushing, is_clear, is_fenced, Clear, Flushing, Fenced
<1>5. flushed' = [i \in DOMAIN ops |-> IF i \in P THEN Fenced ELSE flushed[i]]
  BY <1>4 DEF write_back_all_flushing_stores
<1>6. FencedStores' = FencedStores \cup P /\ P' = {}
  BY <1>5 DEF FencedStores, is_fenced, is_flushing, Flushing, Fenced
<1> QED
  BY <1>1, <1>2, <1>3, <1>6 DEF PM!Execute
===============================================================================
