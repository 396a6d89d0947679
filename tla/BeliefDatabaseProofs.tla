------------------------ MODULE BeliefDatabaseProofs ------------------------
(***************************************************************************)
(* The beliefs inferred from a PPDG file are those of the reference, for   *)
(* every file, whatever the order in which edges and nodes are visited.    *)
(*                                                                         *)
(* The inductive invariant follows the three loops: the graph stands for   *)
(* the lines read so far (GraphOfLines), the beliefs for the edges already *)
(* analysed (BeliefsOfEdges), and the search has processed only loads that *)
(* depend on its start, and all direct dependents of what has left its     *)
(* queue (SearchSound, SearchCloses).                                      *)
(***************************************************************************)
EXTENDS BeliefDatabase, FiniteSetTheorems, TLAPS

\* The graph after line - 1 lines: their edges, those of a control line with
\* type "ctrl", every edge with the type of one of its lines.
GraphOfLines ==
    /\ DOMAIN graph = {ppdg.lines[i].edge : i \in 1..(line - 1)}
    /\ \A i \in 1..(line - 1) : ppdg.lines[i].type = "ctrl" => graph[ppdg.lines[i].edge] = "ctrl"
    /\ \A e \in DOMAIN graph : \E i \in 1..(line - 1) : ppdg.lines[i] = [edge |-> e, type |-> graph[e]]
    /\ pc # "read" => line = Len(ppdg.lines) + 1

\* An edge that makes a belief: of a store on a load, of a load on a load.
StoreEdge(e) == HasObject(e[1]) /\ HasObject(e[2]) /\ ~IsLoad(e[1]) /\ IsLoad(e[2])
CtrlEdge(e)  == HasObject(e[1]) /\ HasObject(e[2]) /\ IsLoad(e[1]) /\ IsLoad(e[2]) /\ graph[e] = "ctrl"

\* What the analysis of an edge adds.
EdgeBeliefs(e) ==
    {<<Obj(e[2]), Obj(e[1])>> : d \in {c \in {e} : StoreEdge(c)}} \cup
    {<<Obj(m), Obj(e[2])>> : m \in {k \in DependentLoads(e[1]) \cup {e[1]} : HasObject(k) /\ CtrlEdge(e)}}

\* The edges whose analysis is complete.
EdgesDone == (DOMAIN graph \ todo) \ (IF pc = "bfs" THEN {edge} ELSE {})

BeliefsOfEdges ==
    /\ pc = "read" => todo = {} /\ belief_graph = {} /\ critical_read_set = {}
    /\ pc = "done" => todo = {}
    /\ pc # "read" =>
          /\ \A b \in Objects \X Objects : b \in belief_graph <=>
                \/ \E e \in EdgesDone : b \in EdgeBeliefs(e)
                \/ pc = "bfs" /\ b = <<Obj(edge[1]), Obj(edge[2])>>
          /\ \A o \in Objects : o \in critical_read_set <=>
                \E e \in DOMAIN graph \ todo : (StoreEdge(e) \/ CtrlEdge(e)) /\ o = Obj(e[2])

\* The loads the search has met.
Met == {m \in processed_id : IsLoad(m)}

\* The search of edge: its results are the objects of the loads it has met,
\* which depend on the node it started from; the queue holds some of these.
SearchSound ==
    pc = "bfs" =>
        /\ edge \in DOMAIN graph \ todo /\ CtrlEdge(edge)
        /\ \A o \in Objects : o \in ctrl_succesors <=> \E m \in Met : HasObject(m) /\ o = Obj(m)
        /\ Met \subseteq DependentLoads(edge[1])
        /\ \A i \in 1..Len(queue) : queue[i] \in Met \cup {edge[1]}

\* What is not in the queue any more has been expanded.
SearchCloses ==
    pc = "bfs" =>
        \A n \in Met \cup {edge[1]} :
            predecessors(n) \subseteq processed_id \/ \E i \in 1..Len(queue) : queue[i] = n

BeliefInv == TypeOK /\ GraphOfLines /\ BeliefsOfEdges /\ SearchSound /\ SearchCloses
-----------------------------------------------------------------------------
\* Most leaves are first-order; SMT is named where one needs arithmetic, functions
\* or records.
USE Zenon

\* The order in which Python's set hands out the loads holds each of them.
LEMMA OrderCovers ==
    ASSUME NEW S, IsFiniteSet(S), NEW s \in Bijection(1..Cardinality(S), S)
    PROVE  s \in Seq(S) /\ \A x \in S : \E i \in 1..Len(s) : s[i] = x
<1>1. Cardinality(S) \in Nat
  BY FS_CardinalityType
<1> QED
  BY <1>1, SMT DEF Bijection, Injection, Surjection

LEMMA Element ==
    ASSUME NEW S, NEW s \in Seq(S), NEW i \in 1..Len(s)
    PROVE  s[i] \in S
  BY SMT

LEMMA Concatenation ==
    ASSUME NEW S, NEW s \in Seq(S), NEW t \in Seq(S)
    PROVE  /\ s \o t \in Seq(S) /\ Len(s \o t) = Len(s) + Len(t)
           /\ \A i \in 1..Len(s) : (s \o t)[i] = s[i]
           /\ \A i \in 1..Len(t) : (s \o t)[Len(s) + i] = t[i]
  BY SMT

\* What a file holds.
LEMMA FileFacts ==
    ASSUME TypeOK
    PROVE  /\ IsFiniteSet(DOMAIN ppdg.nodes)
           /\ Len(ppdg.lines) \in Nat /\ DOMAIN ppdg.lines = 1..Len(ppdg.lines)
           /\ \A i \in 1..Len(ppdg.lines) :
                 /\ ppdg.lines[i] \in [edge : (DOMAIN ppdg.nodes) \X (DOMAIN ppdg.nodes), type : {"data", "ctrl"}]
                 /\ ppdg.lines[i].edge \in (DOMAIN ppdg.nodes) \X (DOMAIN ppdg.nodes)
                 /\ ppdg.lines[i].type \in {"data", "ctrl"}
                 /\ ppdg.lines[i] = [edge |-> ppdg.lines[i].edge, type |-> ppdg.lines[i].type]
           /\ DataFirst(ppdg.lines)
           /\ \A n \in DOMAIN ppdg.nodes : HasObject(n) => Obj(n) \in Objects
<1>1. ppdg \in Ppdgs
  BY DEF TypeOK
<1>2. /\ IsFiniteSet(DOMAIN ppdg.nodes) /\ DataFirst(ppdg.lines)
      /\ \A n \in DOMAIN ppdg.nodes : ppdg.nodes[n] \in Node
      /\ ppdg.lines \in Seq([edge : (DOMAIN ppdg.nodes) \X (DOMAIN ppdg.nodes), type : {"data", "ctrl"}])
  BY <1>1, PpdgsAssumption
<1>3. \A n \in DOMAIN ppdg.nodes : HasObject(n) => Obj(n) \in Objects
  BY <1>2 DEF HasObject, Obj, Node
<1>4. Len(ppdg.lines) \in Nat /\ DOMAIN ppdg.lines = 1..Len(ppdg.lines)
  BY <1>2, SMT
<1>5. ASSUME NEW i \in 1..Len(ppdg.lines)
      PROVE  ppdg.lines[i] \in [edge : (DOMAIN ppdg.nodes) \X (DOMAIN ppdg.nodes), type : {"data", "ctrl"}]
  BY <1>2, <1>5, Element
<1>6. ASSUME NEW i \in 1..Len(ppdg.lines)
      PROVE  /\ ppdg.lines[i].edge \in (DOMAIN ppdg.nodes) \X (DOMAIN ppdg.nodes)
             /\ ppdg.lines[i].type \in {"data", "ctrl"}
             /\ ppdg.lines[i] = [edge |-> ppdg.lines[i].edge, type |-> ppdg.lines[i].type]
  BY <1>5, <1>6
<1> QED
  BY <1>2, <1>3, <1>4, <1>5, <1>6

\* Once all lines are read the graph has the edges of the file, and the type
\* of an edge is "ctrl" if one of its lines is a control line.
LEMMA GraphOfFile ==
    ASSUME TypeOK, GraphOfLines, pc # "read"
    PROVE  /\ LineEdges({"data", "ctrl"}) = DOMAIN graph
           /\ LineEdges({"ctrl"}) = {e \in DOMAIN graph : graph[e] = "ctrl"}
<1>1. line - 1 = Len(ppdg.lines) /\ DOMAIN ppdg.lines = 1..(line - 1)
  BY FileFacts, SMT DEF GraphOfLines
<1>2. \A i \in 1..(line - 1) : ppdg.lines[i].type \in {"data", "ctrl"}
  BY <1>1, FileFacts
<1>3. LineEdges({"data", "ctrl"}) = DOMAIN graph
  BY <1>1, <1>2 DEF LineEdges, GraphOfLines
<1>4. ASSUME NEW e \in LineEdges({"ctrl"}) PROVE e \in DOMAIN graph /\ graph[e] = "ctrl"
  BY <1>1, <1>4 DEF LineEdges, GraphOfLines
<1>5. ASSUME NEW e \in DOMAIN graph, graph[e] = "ctrl" PROVE e \in LineEdges({"ctrl"})
  <2>1. PICK i \in 1..(line - 1) : ppdg.lines[i] = [edge |-> e, type |-> graph[e]]
    BY DEF GraphOfLines
  <2>2. ppdg.lines[i].edge = e /\ ppdg.lines[i].type = "ctrl"
    BY <2>1, <1>5, SMT
  <2> QED
    BY <1>1, <2>2 DEF LineEdges
<1> QED
  BY <1>3, <1>4, <1>5

\* The reference set of dependent loads is closed, and in every closed set.
LEMMA DependentLoadsClosed ==
    ASSUME NEW n, NEW k \in DependentLoads(n) \cup {n}, NEW m \in DOMAIN ppdg.nodes, IsLoad(m),
           <<m, k>> \in LineEdges({"data", "ctrl"})
    PROVE  m \in DependentLoads(n)
  BY DEF DependentLoads

LEMMA DependentLoadsLeast ==
    ASSUME NEW n, NEW S \in SUBSET (DOMAIN ppdg.nodes), \A m \in S : IsLoad(m),
           \A m \in DOMAIN ppdg.nodes, k \in S \cup {n} :
               IsLoad(m) /\ <<m, k>> \in LineEdges({"data", "ctrl"}) => m \in S
    PROVE  DependentLoads(n) \subseteq S
  BY DEF DependentLoads

\* While files and graph stay the same, so do the contributions of the edges.
LEMMA SameGraph ==
    ASSUME UNCHANGED <<ppdg, graph>>
    PROVE  /\ \A n : (IsLoad(n)' <=> IsLoad(n)) /\ Obj(n)' = Obj(n) /\ (HasObject(n)' <=> HasObject(n))
           /\ \A n : predecessors(n)' = predecessors(n)
           /\ \A n : DependentLoads(n)' = DependentLoads(n)
           /\ \A e : (StoreEdge(e)' <=> StoreEdge(e)) /\ (CtrlEdge(e)' <=> CtrlEdge(e))
           /\ \A e : EdgeBeliefs(e)' = EdgeBeliefs(e)
<1>1. \A n : (IsLoad(n)' <=> IsLoad(n)) /\ Obj(n)' = Obj(n) /\ (HasObject(n)' <=> HasObject(n))
  BY DEF IsLoad, Obj, HasObject
<1>2. \A n : predecessors(n)' = predecessors(n)
  BY DEF predecessors
<1>3. \A n : DependentLoads(n)' = DependentLoads(n)
  BY SMT DEF DependentLoads, LineEdges, IsLoad
<1>4. \A e : (StoreEdge(e)' <=> StoreEdge(e)) /\ (CtrlEdge(e)' <=> CtrlEdge(e))
  BY <1>1 DEF StoreEdge, CtrlEdge
<1>5. \A e : EdgeBeliefs(e)' = EdgeBeliefs(e)
  BY <1>1, <1>3, <1>4 DEF EdgeBeliefs
<1> QED
  BY <1>1, <1>2, <1>3, <1>4, <1>5

LEMMA SameLines ==
    ASSUME GraphOfLines, UNCHANGED <<ppdg, graph, line>>, pc # "read"
    PROVE  GraphOfLines'
  BY SMTT(30) DEF GraphOfLines
-----------------------------------------------------------------------------
LEMMA InitBeliefInv == Init => BeliefInv
<1> SUFFICES ASSUME Init PROVE BeliefInv
  OBVIOUS
<1>1. ppdg \in Ppdgs /\ Len(ppdg.lines) \in Nat
  BY PpdgsAssumption, SMT DEF Init
<1>2. TypeOK
  BY <1>1, SMT DEF Init, TypeOK
<1> QED
  BY <1>1, <1>2, SMT DEF Init, BeliefInv, GraphOfLines, BeliefsOfEdges, SearchSound, SearchCloses

\* A line of the file: an edge that is there keeps "ctrl", as no data line of
\* a pair comes after its control line.
LEMMA LinePreserves ==
    ASSUME BeliefInv, init_edges
    PROVE  BeliefInv'
<1> USE DEF BeliefInv
<1> DEFINE l == ppdg.lines[line]
           n == Len(ppdg.lines)
<1>0. /\ pc = "read" /\ line \in 1..n /\ n \in Nat /\ line' = line + 1 /\ line \in Nat
      /\ graph' = [e \in DOMAIN graph \cup {l.edge} |-> IF e = l.edge THEN l.type ELSE graph[e]]
      /\ UNCHANGED <<ppdg, pc, todo, edge, queue, processed_id, ctrl_succesors, belief_graph, critical_read_set>>
  BY FileFacts, SMT DEF init_edges, TypeOK, bfsVars
<1>1. /\ l.edge \in (DOMAIN ppdg.nodes) \X (DOMAIN ppdg.nodes) /\ l.type \in {"data", "ctrl"}
      /\ l = [edge |-> l.edge, type |-> l.type]
  BY <1>0, FileFacts
<1>2. TypeOK'
  <2>1. line' \in 1..(Len(ppdg.lines) + 1)
    BY <1>0, SMT
  <2>2. DOMAIN graph' = DOMAIN graph \cup {l.edge} /\ \A e \in DOMAIN graph' : graph'[e] \in {"data", "ctrl"}
    BY <1>0, <1>1 DEF TypeOK
  <2> QED
    BY <1>0, <1>1, <2>1, <2>2 DEF TypeOK
<1>3. 1..(line' - 1) = 1..(line - 1) \cup {line}
  BY <1>0, SMT
<1>4. DOMAIN graph' = {ppdg'.lines[i].edge : i \in 1..(line' - 1)}
  BY <1>0, <1>3, SMT DEF GraphOfLines
<1>5. ASSUME NEW i \in 1..(line' - 1), ppdg.lines[i].type = "ctrl"
      PROVE  graph'[ppdg.lines[i].edge] = "ctrl"
  <2>1. CASE i = line
    BY <2>1, <1>0, <1>5
  <2>2. CASE i \in 1..(line - 1)
    <3>1. graph[ppdg.lines[i].edge] = "ctrl" /\ ppdg.lines[i].edge \in DOMAIN graph
      BY <2>2, <1>5 DEF GraphOfLines
    <3>2. ppdg.lines[i].edge = l.edge => l.type # "data"
      BY <1>0, <1>5, <2>2, FileFacts, SMT DEF DataFirst
    <3> QED
      BY <1>0, <1>1, <3>1, <3>2
  <2> QED
    BY <2>1, <2>2, <1>3
<1>6. ASSUME NEW e \in DOMAIN graph'
      PROVE  \E i \in 1..(line' - 1) : ppdg.lines[i] = [edge |-> e, type |-> graph'[e]]
  <2>1. CASE e = l.edge
    BY <2>1, <1>0, <1>1, <1>3
  <2>2. CASE e # l.edge
    <3>1. e \in DOMAIN graph /\ graph'[e] = graph[e]
      BY <2>2, <1>0
    <3> QED
      BY <3>1, <1>3 DEF GraphOfLines
  <2> QED
    BY <2>1, <2>2
<1>7. GraphOfLines'
  BY <1>0, <1>4, <1>5, <1>6 DEF GraphOfLines
<1> QED
  BY <1>0, <1>2, <1>7 DEF BeliefsOfEdges, SearchSound, SearchCloses

LEMMA AnalyzePreserves ==
    ASSUME BeliefInv, AnalyzeGraph
    PROVE  BeliefInv'
<1> USE DEF BeliefInv
<1>1. /\ pc = "read" /\ pc' = "edges" /\ line = Len(ppdg.lines) + 1 /\ todo' = DOMAIN graph
      /\ UNCHANGED <<ppdg, line, graph, edge, queue, processed_id, ctrl_succesors, belief_graph, critical_read_set>>
  BY FileFacts, SMT DEF AnalyzeGraph, TypeOK, bfsVars
<1>2. TypeOK'
  BY <1>1 DEF TypeOK
<1>3. GraphOfLines'
  BY <1>1 DEF GraphOfLines
<1>4. EdgesDone' = {} /\ belief_graph' = {} /\ critical_read_set' = {} /\ DOMAIN graph' \ todo' = {}
  BY <1>1 DEF EdgesDone, BeliefsOfEdges
<1> QED
  BY <1>1, <1>2, <1>3, <1>4 DEF BeliefsOfEdges, SearchSound, SearchCloses

\* An edge joins nodes of the file; those with an object have one of the list.
LEMMA EdgeFacts ==
    ASSUME TypeOK, NEW e \in DOMAIN graph
    PROVE  /\ e[1] \in DOMAIN ppdg.nodes /\ e[2] \in DOMAIN ppdg.nodes /\ e = <<e[1], e[2]>>
           /\ HasObject(e[1]) => Obj(e[1]) \in Objects
           /\ HasObject(e[2]) => Obj(e[2]) \in Objects
           /\ graph[e] \in {"data", "ctrl"}
  BY FileFacts, SMT DEF TypeOK

\* One edge: a store or an edge without belief is done with at once, a control
\* edge between loads starts a search from its source.
LEMMA EdgePreserves ==
    ASSUME BeliefInv, NEW e \in todo, init_belief_and_critical_read_set_from_edge(e)
    PROVE  BeliefInv'
<1> USE DEF BeliefInv
<1>0. /\ pc = "edges" /\ e \in todo /\ todo' = todo \ {e} /\ e \in DOMAIN graph
      /\ UNCHANGED <<ppdg, line, graph>> /\ todo \subseteq DOMAIN graph
  BY DEF init_belief_and_critical_read_set_from_edge, TypeOK
<1>1. DOMAIN graph' \ todo' = (DOMAIN graph \ todo) \cup {e}
  BY <1>0
<1>2. EdgesDone = DOMAIN graph \ todo
  BY <1>0 DEF EdgesDone
<1>3. GraphOfLines'
  BY <1>0, SameLines
<1>s. CASE /\ StoreEdge(e) /\ UNCHANGED <<pc, bfsVars>>
           /\ belief_graph' = belief_graph \cup {<<Obj(e[2]), Obj(e[1])>>}
           /\ critical_read_set' = critical_read_set \cup {Obj(e[2])}
  <2>1. TypeOK'
    BY <1>0, <1>s, EdgeFacts, SMT DEF TypeOK, bfsVars, StoreEdge
  <2>2. EdgesDone' = EdgesDone \cup {e}
    BY <1>0, <1>1, <1>2, <1>s DEF EdgesDone
  <2>3. EdgeBeliefs(e) = {<<Obj(e[2]), Obj(e[1])>>}
    BY <1>s DEF EdgeBeliefs, StoreEdge, CtrlEdge
  <2>4. BeliefsOfEdges'
    BY <1>0, <1>1, <1>s, <2>2, <2>3, SameGraph, SMT DEF BeliefsOfEdges
  <2> QED
    BY <1>0, <1>3, <1>s, <2>1, <2>4 DEF SearchSound, SearchCloses
<1>c. CASE /\ CtrlEdge(e)
           /\ belief_graph' = belief_graph \cup {<<Obj(e[1]), Obj(e[2])>>}
           /\ critical_read_set' = critical_read_set \cup {Obj(e[2])}
           /\ pc' = "bfs" /\ edge' = e
           /\ queue' = <<e[1]>> /\ processed_id' = {} /\ ctrl_succesors' = {}
  <2>0. queue' \in Seq(DOMAIN ppdg.nodes) /\ Len(queue') = 1 /\ queue'[1] = e[1]
    BY <1>0, <1>c, EdgeFacts, SMT
  <2>1. TypeOK'
    BY <1>0, <1>c, <2>0, EdgeFacts, SMT DEF TypeOK, CtrlEdge
  <2>2. EdgesDone' = EdgesDone
    BY <1>0, <1>1, <1>2, <1>c DEF EdgesDone
  <2>3. BeliefsOfEdges'
    BY <1>0, <1>1, <1>c, <2>2, SameGraph, SMT DEF BeliefsOfEdges
  <2>4. Met' = {}
    BY <1>c DEF Met
  <2>5. SearchSound'
    <3>1. CtrlEdge(e)'
      BY <1>0, <1>c, SameGraph
    <3> QED
      BY <1>0, <1>1, <1>c, <2>0, <2>4, <3>1, SMT DEF SearchSound
  <2>6. SearchCloses'
    BY <1>c, <2>0, <2>4, SMT DEF SearchCloses
  <2> QED
    BY <1>3, <2>1, <2>3, <2>5, <2>6
<1>n. CASE ~StoreEdge(e) /\ ~CtrlEdge(e) /\ UNCHANGED <<pc, bfsVars, belief_graph, critical_read_set>>
  <2>1. TypeOK'
    BY <1>0, <1>n DEF TypeOK, bfsVars
  <2>2. EdgesDone' = EdgesDone \cup {e}
    BY <1>0, <1>1, <1>2, <1>n DEF EdgesDone
  <2>3. EdgeBeliefs(e) = {}
    BY <1>n DEF EdgeBeliefs
  <2>4. BeliefsOfEdges'
    BY <1>0, <1>1, <1>n, <2>2, <2>3, SameGraph, SMT DEF BeliefsOfEdges
  <2> QED
    BY <1>0, <1>3, <1>n, <2>1, <2>4 DEF SearchSound, SearchCloses
<1> QED
  BY <1>0, <1>s, <1>c, <1>n, EdgeFacts
     DEF init_belief_and_critical_read_set_from_edge, StoreEdge, CtrlEdge, bfsVars

\* One node of the search.
LEMMA SearchPreserves ==
    ASSUME BeliefInv, get_ctrl_succesors
    PROVE  BeliefInv'
<1> USE DEF BeliefInv
<1> DEFINE n == Head(queue)
           new == predecessors(n) \ processed_id
           loads == {m \in new : IsLoad(m)}
<1>0. /\ pc = "bfs" /\ queue # <<>> /\ processed_id' = processed_id \cup new
      /\ ctrl_succesors' = ctrl_succesors \cup {Obj(m) : m \in {k \in loads : HasObject(k)}}
      /\ UNCHANGED <<ppdg, pc, line, graph, todo, edge, belief_graph, critical_read_set>>
  BY DEF get_ctrl_succesors
<1>1. PICK s \in Bijection(1..Cardinality(loads), loads) : queue' = Tail(queue) \o s
  BY DEF get_ctrl_succesors
<1>2. new \subseteq DOMAIN ppdg.nodes /\ loads \subseteq DOMAIN ppdg.nodes /\ IsFiniteSet(loads)
  <2>1. new \subseteq DOMAIN ppdg.nodes /\ loads \subseteq DOMAIN ppdg.nodes
    BY DEF predecessors
  <2> QED
    BY <2>1, FileFacts, FS_Subset
<1>4. Met' = Met \cup loads
  BY <1>0 DEF Met, IsLoad
<1> HIDE DEF loads
<1>3. s \in Seq(loads) /\ \A x \in loads : \E i \in 1..Len(s) : s[i] = x
  <2>1. IsFiniteSet(loads)
    BY <1>2
  <2> QED
    BY <2>1, OrderCovers
<1>5. queue \in Seq(DOMAIN ppdg.nodes) /\ Len(queue) \in Nat /\ Len(queue) >= 1 /\ n = queue[1] /\ Len(s) \in Nat
  BY <1>0, <1>3, SMT DEF TypeOK
<1>6. /\ queue' \in Seq(DOMAIN ppdg.nodes)
      /\ Len(queue') = (Len(queue) - 1) + Len(s)
      /\ \A i \in 1..(Len(queue) - 1) : queue'[i] = queue[i + 1]
      /\ \A i \in 1..Len(s) : queue'[(Len(queue) - 1) + i] = s[i]
  <2> DEFINE t == Tail(queue)
             D == DOMAIN ppdg.nodes
  <2>1. s \in Seq(D)
    BY <1>2, <1>3, SMT
  <2>2. /\ t \in Seq(D) /\ Len(t) = Len(queue) - 1 /\ queue' = t \o s
        /\ \A i \in 1..(Len(queue) - 1) : t[i] = queue[i + 1]
    BY <1>0, <1>1, <1>5, SMT
  <2> HIDE DEF t, D
  <2>3. /\ t \o s \in Seq(D) /\ Len(t \o s) = Len(t) + Len(s)
        /\ \A i \in 1..Len(t) : (t \o s)[i] = t[i]
        /\ \A i \in 1..Len(s) : (t \o s)[Len(t) + i] = s[i]
    <3>1. t \in Seq(D)
      BY <2>2
    <3> QED
      BY <2>1, <3>1, Concatenation, SMT
  <2> QED
    BY <2>2, <2>3 DEF D
<1>7. ASSUME NEW x \in loads PROVE \E j \in 1..Len(queue') : queue'[j] = x
  <2>1. PICK i \in 1..Len(s) : s[i] = x
    BY <1>3, <1>7
  <2>2. (Len(queue) - 1) + i \in 1..Len(queue')
    BY <1>5, <1>6, SMT
  <2> QED
    BY <1>6, <2>1, <2>2
<1>8. ASSUME NEW i \in 1..Len(queue), queue[i] # n PROVE \E j \in 1..Len(queue') : queue'[j] = queue[i]
  <2>1. i - 1 \in 1..(Len(queue) - 1) /\ i - 1 \in 1..Len(queue') /\ (i - 1) + 1 = i
    BY <1>5, <1>6, <1>8, SMT
  <2> QED
    BY <1>6, <2>1
<1>9. ASSUME NEW j \in 1..Len(queue') PROVE queue'[j] \in loads \/ \E i \in 1..Len(queue) : queue'[j] = queue[i]
  <2>1. CASE j <= Len(queue) - 1
    <3>1. j \in 1..(Len(queue) - 1) /\ j + 1 \in 1..Len(queue)
      BY <1>5, <2>1, SMT
    <3> QED
      BY <1>6, <3>1
  <2>2. CASE j > Len(queue) - 1
    <3> DEFINE i == j - (Len(queue) - 1)
    <3>1. i \in 1..Len(s) /\ (Len(queue) - 1) + i = j
      BY <1>5, <1>6, <2>2, SMT
    <3>2. s[i] \in loads
      BY <1>3, <3>1, Element
    <3> QED
      BY <1>6, <3>1, <3>2
  <2> QED
    BY <1>5, <1>6, <2>1, <2>2, SMT
<1>10. n \in Met \cup {edge[1]} /\ edge[1] \in DOMAIN ppdg.nodes
  BY <1>0, <1>5, EdgeFacts, SMT DEF SearchSound
<1>t. TypeOK'
  <2>1. {Obj(m) : m \in {k \in loads : HasObject(k)}} \subseteq Objects
    BY <1>2, FileFacts, SMT
  <2> QED
    BY <1>0, <1>2, <1>6, <2>1 DEF TypeOK
<1>g. GraphOfLines'
  BY <1>0, SameLines
<1>b. BeliefsOfEdges'
  <2>1. EdgesDone' = EdgesDone /\ Obj(edge[1])' = Obj(edge[1]) /\ Obj(edge[2])' = Obj(edge[2])
    BY <1>0 DEF EdgesDone, Obj
  <2> QED
    BY <1>0, <2>1, SameGraph, SMT DEF BeliefsOfEdges
<1>d. loads \subseteq DependentLoads(edge[1])
  <2> SUFFICES ASSUME NEW m \in loads PROVE m \in DependentLoads(edge[1])
    OBVIOUS
  <2>1. m \in DOMAIN ppdg.nodes /\ IsLoad(m) /\ <<m, n>> \in DOMAIN graph
    BY DEF loads, predecessors
  <2>2. <<m, n>> \in LineEdges({"data", "ctrl"})
    BY <1>0, <2>1, GraphOfFile
  <2>3. n \in DependentLoads(edge[1]) \cup {edge[1]}
    BY <1>0, <1>10 DEF SearchSound
  <2> HIDE DEF n
  <2> QED
    BY <2>1, <2>2, <2>3, DependentLoadsClosed
<1>s. SearchSound'
  <2>1. edge' \in DOMAIN graph' \ todo' /\ CtrlEdge(edge)'
    BY <1>0 DEF SearchSound, CtrlEdge, HasObject, Obj, IsLoad
  <2>2. ASSUME NEW o \in Objects
        PROVE  o \in ctrl_succesors' <=> \E m \in Met' : HasObject(m)' /\ o = Obj(m)'
    BY <1>0, <1>4, SameGraph DEF SearchSound
  <2>3. Met' \subseteq DependentLoads(edge[1])'
    <3>1. DependentLoads(edge[1])' = DependentLoads(edge[1])
      BY <1>0, SMT DEF DependentLoads, LineEdges, IsLoad
    <3> QED
      BY <1>0, <1>4, <1>d, <3>1 DEF SearchSound
  <2>4. \A j \in 1..Len(queue') : queue'[j] \in Met' \cup {edge[1]}
    BY <1>0, <1>4, <1>9 DEF SearchSound
  <2> QED
    BY <1>0, <2>1, <2>2, <2>3, <2>4 DEF SearchSound
<1>c. SearchCloses'
  <2> SUFFICES ASSUME NEW k \in Met' \cup {edge[1]}, ~ \E j \in 1..Len(queue') : queue'[j] = k
               PROVE  predecessors(k) \subseteq processed_id'
    <3>1. \A k : predecessors(k)' = predecessors(k)
      BY <1>0, SameGraph
    <3>2. edge[1]' = edge[1]
      BY <1>0
    <3> HIDE DEF BeliefInv
    <3> QED
      BY <3>1, <3>2 DEF SearchCloses
  <2>1. k \in Met \cup {edge[1]}
    BY <1>4, <1>7
  <2>2. CASE k = n
    BY <1>0, <2>2
  <2>3. CASE k # n
    <3>1. ~ \E i \in 1..Len(queue) : queue[i] = k
      BY <1>8, <2>3
    <3> QED
      BY <1>0, <2>1, <3>1 DEF SearchCloses
  <2> QED
    BY <2>2, <2>3
<1> QED
  BY <1>t, <1>g, <1>b, <1>s, <1>c

\* The search ends: what it has met is closed, thus all dependent loads.
LEMMA ApplyPreserves ==
    ASSUME BeliefInv, ApplyTransitively
    PROVE  BeliefInv'
<1> USE DEF BeliefInv
<1>0. /\ pc = "bfs" /\ pc' = "edges" /\ queue = <<>>
      /\ belief_graph' = belief_graph \cup {<<o, Obj(edge[2])>> : o \in ctrl_succesors}
      /\ processed_id' = {} /\ ctrl_succesors' = {}
      /\ UNCHANGED <<ppdg, line, graph, todo, queue, critical_read_set>>
  BY DEF ApplyTransitively
<1>1. edge \in DOMAIN graph \ todo /\ CtrlEdge(edge) /\ edge \in DOMAIN graph
  BY <1>0 DEF SearchSound
<1>2. Met = DependentLoads(edge[1])
  <2>1. \A n \in Met \cup {edge[1]} : predecessors(n) \subseteq processed_id
    BY <1>0, SMT DEF SearchCloses
  <2>2. Met \in SUBSET (DOMAIN ppdg.nodes) /\ \A m \in Met : IsLoad(m)
    BY DEF Met, TypeOK
  <2>3. ASSUME NEW m \in DOMAIN ppdg.nodes, NEW k \in Met \cup {edge[1]},
               IsLoad(m), <<m, k>> \in LineEdges({"data", "ctrl"})
        PROVE  m \in Met
    <3>1. <<m, k>> \in DOMAIN graph
      BY <1>0, <2>3, GraphOfFile
    <3>2. m \in predecessors(k)
      BY <3>1 DEF predecessors
    <3> QED
      BY <2>1, <2>3, <3>2 DEF Met
  <2>4. DependentLoads(edge[1]) \subseteq Met
    BY <2>2, <2>3, DependentLoadsLeast
  <2> QED
    BY <1>0, <2>4 DEF SearchSound
<1>3. ctrl_succesors \subseteq Objects /\ Obj(edge[2]) \in Objects /\ Obj(edge[1]) \in Objects
  BY <1>1, EdgeFacts DEF TypeOK, CtrlEdge
<1>4. TypeOK'
  BY <1>0, <1>3, SMT DEF TypeOK
<1>5. EdgesDone' = EdgesDone \cup {edge} /\ DOMAIN graph' \ todo' = DOMAIN graph \ todo
  BY <1>0, <1>1 DEF EdgesDone
<1>6. ASSUME NEW b \in Objects \X Objects
      PROVE  b \in EdgeBeliefs(edge) <=>
                b = <<Obj(edge[1]), Obj(edge[2])>> \/ \E o \in ctrl_succesors : b = <<o, Obj(edge[2])>>
  <2>1. b \in EdgeBeliefs(edge) <=>
           \E m \in Met \cup {edge[1]} : HasObject(m) /\ b = <<Obj(m), Obj(edge[2])>>
    BY <1>1, <1>2 DEF EdgeBeliefs, StoreEdge, CtrlEdge
  <2>2. \A o \in Objects : o \in ctrl_succesors <=> \E m \in Met : HasObject(m) /\ o = Obj(m)
    BY <1>0 DEF SearchSound
  <2>3. HasObject(edge[1])
    BY <1>1 DEF CtrlEdge
  <2>4. \A m \in Met : HasObject(m) => Obj(m) \in Objects
    BY FileFacts DEF Met, TypeOK
  <2> QED
    BY <1>3, <2>1, <2>2, <2>3, <2>4
<1>7. BeliefsOfEdges'
  <2>1. ASSUME NEW b \in Objects \X Objects
        PROVE  b \in belief_graph' <=> \E e \in EdgesDone' : b \in EdgeBeliefs(e)'
    <3>1. b \in belief_graph' <=> b \in belief_graph \/ \E o \in ctrl_succesors : b = <<o, Obj(edge[2])>>
      BY <1>0
    <3>2. b \in belief_graph <=> \/ \E e \in EdgesDone : b \in EdgeBeliefs(e)
                                \/ b = <<Obj(edge[1]), Obj(edge[2])>>
      BY <1>0, <2>1 DEF BeliefsOfEdges
    <3>3. \A e : EdgeBeliefs(e)' = EdgeBeliefs(e)
      BY <1>0, SameGraph
    <3> QED
      BY <1>5, <1>6, <3>1, <3>2, <3>3
  <2>2. ASSUME NEW o \in Objects
        PROVE  o \in critical_read_set' <=>
                 \E e \in DOMAIN graph' \ todo' : (StoreEdge(e)' \/ CtrlEdge(e)') /\ o = Obj(e[2])'
    BY <1>0, SameGraph DEF BeliefsOfEdges
  <2> QED
    BY <1>0, <2>1, <2>2 DEF BeliefsOfEdges
<1> QED
  BY <1>0, <1>4, <1>7, SameLines DEF SearchSound, SearchCloses

LEMMA FinishPreserves ==
    ASSUME BeliefInv, Finish \/ UNCHANGED vars
    PROVE  BeliefInv'
<1> USE DEF BeliefInv
<1>1. /\ UNCHANGED <<ppdg, line, graph, todo, edge, queue, processed_id, ctrl_succesors>>
      /\ UNCHANGED <<belief_graph, critical_read_set>>
      /\ pc' = pc \/ (pc = "edges" /\ pc' = "done" /\ todo = {})
  BY DEF Finish, vars, bfsVars
<1>2. TypeOK' /\ GraphOfLines'
  BY <1>1, SMTT(30) DEF TypeOK, GraphOfLines
<1>3. EdgesDone' = EdgesDone /\ Met' = Met
  BY <1>1 DEF EdgesDone, Met, IsLoad
<1>4. BeliefsOfEdges'
  <2>1. pc' = "bfs" => pc = "bfs" /\ Obj(edge[1])' = Obj(edge[1]) /\ Obj(edge[2])' = Obj(edge[2])
    BY <1>1 DEF Obj
  <2> QED
    BY <1>1, <1>3, <2>1, SameGraph DEF BeliefsOfEdges
<1>5. SearchSound'
  <2>1. DependentLoads(edge[1])' = DependentLoads(edge[1])
    BY <1>1, SMT DEF DependentLoads, LineEdges, IsLoad
  <2> QED
    BY <1>1, <1>3, <2>1 DEF SearchSound, CtrlEdge, HasObject, Obj, IsLoad
<1>6. SearchCloses'
  BY <1>1, <1>3, SameGraph, SMT DEF SearchCloses
<1> QED
  BY <1>2, <1>4, <1>5, <1>6
-----------------------------------------------------------------------------
\* When every edge has been analysed the two sets are those of the reference.
LEMMA DoneIsExact ==
    ASSUME BeliefInv
    PROVE  BeliefsExact
<1> USE DEF BeliefInv
<1> SUFFICES ASSUME pc = "done" PROVE belief_graph = Beliefs /\ critical_read_set = CriticalReads
  BY DEF BeliefsExact
<1>1. EdgesDone = DOMAIN graph /\ DOMAIN graph \ todo = DOMAIN graph
  BY DEF EdgesDone, BeliefsOfEdges
<1>2. /\ \A e : e \in DOMAIN graph /\ StoreEdge(e) <=> e \in Edges({"data", "ctrl"}) /\ ~IsLoad(e[1])
      /\ \A e : e \in DOMAIN graph /\ CtrlEdge(e) <=> e \in Edges({"ctrl"}) /\ IsLoad(e[1])
  BY GraphOfFile DEF StoreEdge, CtrlEdge, Edges
<1>3. ASSUME NEW b, NEW e \in DOMAIN graph
      PROVE  b \in EdgeBeliefs(e) <=>
                \/ StoreEdge(e) /\ b = <<Obj(e[2]), Obj(e[1])>>
                \/ CtrlEdge(e) /\ \E m \in DependentLoads(e[1]) \cup {e[1]} :
                                      HasObject(m) /\ b = <<Obj(m), Obj(e[2])>>
  BY DEF EdgeBeliefs
<1>4. ASSUME NEW b
      PROVE  b \in Beliefs <=> \E e \in DOMAIN graph : b \in EdgeBeliefs(e)
  BY <1>2, <1>3, SMT DEF Beliefs
<1>5. ASSUME NEW o
      PROVE  o \in CriticalReads <=> \E e \in DOMAIN graph : (StoreEdge(e) \/ CtrlEdge(e)) /\ o = Obj(e[2])
  BY <1>2 DEF CriticalReads
<1>6. ASSUME NEW e \in DOMAIN graph, NEW b \in EdgeBeliefs(e) PROVE b \in Objects \X Objects
  <2>1. \A m \in DependentLoads(e[1]) \cup {e[1]} : HasObject(m) => Obj(m) \in Objects
    BY FileFacts, EdgeFacts, SMT DEF DependentLoads
  <2> QED
    BY <1>3, <1>6, <2>1, EdgeFacts, SMT DEF StoreEdge, CtrlEdge
<1>7. belief_graph = Beliefs
  <2>1. belief_graph \subseteq Objects \X Objects
    BY DEF TypeOK
  <2>2. \A b \in Objects \X Objects : b \in belief_graph <=> \E e \in DOMAIN graph : b \in EdgeBeliefs(e)
    BY <1>1 DEF BeliefsOfEdges
  <2> QED
    BY <1>4, <1>6, <2>1, <2>2
<1>8. critical_read_set = CriticalReads
  <2>1. \A e \in DOMAIN graph : StoreEdge(e) \/ CtrlEdge(e) => Obj(e[2]) \in Objects
    BY EdgeFacts DEF StoreEdge, CtrlEdge
  <2> QED
    BY <1>1, <1>5, <2>1 DEF BeliefsOfEdges, TypeOK
<1> QED
  BY <1>7, <1>8

\* For every PPDG file, of any size and with any cycles, and every order in
\* which edges and nodes are visited: the belief graph and the critical reads
\* that WitcherBeliefDatabase ends with are those of the reference.
THEOREM BeliefsAlwaysExact == Spec => []BeliefsExact
<1>1. BeliefInv /\ [Next]_vars => BeliefInv'
  BY LinePreserves, AnalyzePreserves, EdgePreserves, SearchPreserves, ApplyPreserves, FinishPreserves DEF Next
<1> QED
  BY <1>1, InitBeliefInv, DoneIsExact, PTL DEF Spec
=============================================================================
