-------------------------- MODULE CacheReplayProofs --------------------------
(***************************************************************************)
(* The simulated cache implements the persistency model for every trace,   *)
(* whenever it is written back and whatever crash images are built.        *)
(***************************************************************************)
EXTENDS CacheReplay, WitcherCacheProofs

\* The invariant of the cache holds throughout every replay: what a line
\* holds, the order within a line and the contents of the pool file.
THEOREM CacheInvariant == ASSUME ProgramsAssumption PROVE Spec => []CacheInv
<1>1. Init => CacheInv
  BY InitCacheInv DEF Init, ProgramsAssumption
<1>2. CacheInv /\ [Next]_vars => CacheInv'
  <2> SUFFICES ASSUME CacheInv, [Next]_vars PROVE CacheInv'
    OBVIOUS
  <2>1. Len(ops) \in Nat /\ DOMAIN ops = 1..Len(ops) /\ pos \in Nat /\ pos >= 1
    BY TraceFacts DEF CacheInv, CacheTypeOK
  <2>2. CASE Accept
    BY <2>1, <2>2, AcceptPreserves DEF Accept
  <2>3. CASE AcceptFence
    BY <2>1, <2>3, FencePreserves DEF AcceptFence
  <2>4. CASE WriteBackAll
    BY <2>4, WriteBackAllPreserves DEF WriteBackAll
  <2>5. CASE BuildImage
    <3>1. PICK plan \in Cached \cup {i \in {pos} : ops[i].type = "Fence"} : image' = CrashImage(plan)
      BY <2>5 DEF BuildImage
    <3>2. plan \in DOMAIN ops
      BY <2>1, <2>5, <3>1, CachedFacts DEF BuildImage
    <3> QED
      BY <2>5, <3>1, <3>2, ImagePreserves DEF BuildImage, cacheVars
  <2>6. CASE UNCHANGED vars
    BY <2>6 DEF vars, CacheInv, CacheTypeOK, CacheHoldsUnfenced, FlushedInOrder, FileIsFencedPrefix,
                OnlyIssuedMarked, FencedStores, Issued, is_fenced, is_clear
  <2> QED
    BY <2>2, <2>3, <2>4, <2>5, <2>6 DEF Next
<1> QED
  BY <1>1, <1>2, PTL DEF Spec

\* For every trace and every schedule of write-backs, what the run checks on
\* small traces: the stores a line of WitcherCache holds and the contents of the
\* pool file.
THEOREM Safety == ASSUME ProgramsAssumption PROVE Spec => []CacheExact
<1>1. CacheInv => CacheExact
  BY DEF CacheInv, CacheExact
<1> QED
  BY <1>1, CacheInvariant, PTL

\* Every crash image the cache builds is one persistent memory may leave, and
\* a fence makes durable everything flushed before it.
THEOREM Refinement == ASSUME ProgramsAssumption PROVE Spec => ImplementsPersistentMemory
<1>1. Init => PM!Init
  BY InitRefines DEF Init, ProgramsAssumption
<1>2. CacheInv /\ [Next]_vars => [PM!Next]_(PM!vars)
  <2> SUFFICES ASSUME CacheInv, [Next]_vars PROVE PM!Next \/ UNCHANGED PM!vars
    OBVIOUS
  <2>1. Len(ops) \in Nat /\ DOMAIN ops = 1..Len(ops) /\ pos \in Nat /\ pos >= 1
    BY TraceFacts DEF CacheInv, CacheTypeOK
  <2>2. CASE Accept
    BY <2>1, <2>2, AcceptRefines DEF Accept, PM!Next
  <2>3. CASE AcceptFence
    BY <2>1, <2>3, FenceRefines DEF AcceptFence, PM!Next
  <2>4. CASE WriteBackAll
    BY <2>4, WriteBackAllRefines DEF WriteBackAll, PM!Next
  <2>5. CASE BuildImage
    <3>1. PICK plan \in Cached \cup {i \in {pos} : ops[i].type = "Fence"} : image' = CrashImage(plan)
      BY <2>5 DEF BuildImage
    <3>2. plan \in DOMAIN ops /\ (ops[plan].type = "Fence" \/ plan \in Cached)
      BY <2>1, <2>5, <3>1, CachedFacts DEF BuildImage
    <3> QED
      BY <2>5, <3>1, <3>2, ImageRefines DEF BuildImage, cacheVars, PM!Next
  <2>6. CASE UNCHANGED vars
    BY <2>6 DEF vars, PM!vars, FencedStores, is_fenced, is_flushing
  <2> QED
    BY <2>2, <2>3, <2>4, <2>5, <2>6 DEF Next
<1> QED
  BY <1>1, <1>2, CacheInvariant, PTL DEF Spec, ImplementsPersistentMemory, PM!Spec
==============================================================================
