--------------------------- MODULE BeliefDatabase ---------------------------
(***************************************************************************)
(* How the beliefs that CrashManager starts from are inferred:             *)
(* WitcherGraph of witcherppdg.py, which builds the graph from the lines   *)
(* of the PPDG file, and WitcherBeliefDatabase, which analyses its edges.  *)
(*                                                                         *)
(* An edge leads from an access to an earlier one it depends on.  The      *)
(* graph of a list of PPDGs is their disjoint union.  The object of a node *)
(* is given with the node: PMObjectList shows that find returns it.  A     *)
(* node of size 0 has no object.                                           *)
(***************************************************************************)
EXTENDS Naturals, Sequences, FiniteSets, Functions

CONSTANTS Ppdgs,      \* the files: [nodes, lines]
          Objects,    \* the PM objects
          NoObject    \* the object of a node of size 0

Node == [type : {"Store", "Load"}, obj : Objects \cup {NoObject}]

\* generaeteEdges looks for the data dependences of a vertex first: in the
\* file the data line of a pair precedes its control line.
DataFirst(s) ==
    \A i, j \in DOMAIN s :
        s[i].edge = s[j].edge /\ s[i].type = "data" /\ s[j].type = "ctrl" => i < j

ASSUME PpdgsAssumption ==
    /\ NoObject \notin Objects
    /\ \A p \in Ppdgs :
          /\ IsFiniteSet(DOMAIN p.nodes)
          /\ \A n \in DOMAIN p.nodes : p.nodes[n] \in Node
          /\ p.lines \in Seq([edge : (DOMAIN p.nodes) \X (DOMAIN p.nodes),
                              type : {"data", "ctrl"}])
          /\ DataFirst(p.lines)

VARIABLES ppdg,         \* the file, never changed
          pc,
          line,         \* the next line
          graph,        \* the DiGraph: the type of every edge
          todo,         \* the edges not analysed yet
          edge,         \* the edge being analysed
          queue, processed_id, ctrl_succesors,   \* of get_ctrl_succesors
          belief_graph, critical_read_set

bfsVars == <<edge, queue, processed_id, ctrl_succesors>>
vars == <<ppdg, pc, line, graph, todo, bfsVars, belief_graph, critical_read_set>>

IsLoad(n) == ppdg.nodes[n].type = "Load"
Obj(n) == ppdg.nodes[n].obj
HasObject(n) == Obj(n) # NoObject
predecessors(n) == {m \in DOMAIN ppdg.nodes : <<m, n>> \in DOMAIN graph}
-----------------------------------------------------------------------------
Init ==
    /\ ppdg \in Ppdgs
    /\ pc = "read" /\ line = 1 /\ graph = <<>> /\ todo = {}
    /\ edge = <<>> /\ queue = <<>> /\ processed_id = {} /\ ctrl_succesors = {}
    /\ belief_graph = {} /\ critical_read_set = {}

\* Mutant: the first type of an edge is kept.
InitEdgesOnce ==
    /\ pc = "read"
    /\ line <= Len(ppdg.lines)
    /\ LET l == ppdg.lines[line]
       IN  graph' = [e \in DOMAIN graph \cup {l.edge} |->
                        IF e \in DOMAIN graph THEN graph[e] ELSE l.type]
    /\ line' = line + 1
    /\ UNCHANGED <<ppdg, pc, todo, bfsVars, belief_graph, critical_read_set>>

\* One line: the graph has one edge per pair, with the type given last.
init_edges ==
    /\ pc = "read"
    /\ line <= Len(ppdg.lines)
    /\ LET l == ppdg.lines[line]
       IN  graph' = [e \in DOMAIN graph \cup {l.edge} |->
                        IF e = l.edge THEN l.type ELSE graph[e]]
    /\ line' = line + 1
    /\ UNCHANGED <<ppdg, pc, todo, bfsVars, belief_graph, critical_read_set>>

AnalyzeGraph ==
    /\ pc = "read"
    /\ line > Len(ppdg.lines)
    /\ pc' = "edges" /\ todo' = DOMAIN graph
    /\ UNCHANGED <<ppdg, line, graph, bfsVars, belief_graph, critical_read_set>>

\* The edge e from a node to the one it depends on.
init_belief_and_critical_read_set_from_edge(e) ==
    /\ pc = "edges"
    /\ e \in todo /\ todo' = todo \ {e}
    /\ LET src == e[1]  tgt == e[2]
       IN  \/ /\ HasObject(src) /\ HasObject(tgt)
              /\ ~IsLoad(src) /\ IsLoad(tgt)
              /\ belief_graph' = belief_graph \cup {<<Obj(tgt), Obj(src)>>}
              /\ critical_read_set' = critical_read_set \cup {Obj(tgt)}
              /\ UNCHANGED <<pc, bfsVars>>
           \/ /\ HasObject(src) /\ HasObject(tgt)
              /\ IsLoad(src) /\ IsLoad(tgt) /\ graph[e] = "ctrl"
              /\ belief_graph' = belief_graph \cup {<<Obj(src), Obj(tgt)>>}
              /\ critical_read_set' = critical_read_set \cup {Obj(tgt)}
              /\ pc' = "bfs" /\ edge' = e
              /\ queue' = <<src>> /\ processed_id' = {} /\ ctrl_succesors' = {}
           \/ /\ \/ ~HasObject(src) \/ ~HasObject(tgt) \/ ~IsLoad(tgt)
                 \/ IsLoad(src) /\ graph[e] = "data"
              /\ UNCHANGED <<pc, bfsVars, belief_graph, critical_read_set>>
    /\ UNCHANGED <<ppdg, line, graph>>

\* Mutant: nodes that were seen are queued again.
CtrlSuccesorsForgetful ==
    /\ pc = "bfs"
    /\ queue # <<>>
    /\ LET new == {m \in predecessors(Head(queue)) : IsLoad(m)}
       IN  /\ \E s \in Bijection(1..Cardinality(new), new) : queue' = Tail(queue) \o s
           /\ ctrl_succesors' = ctrl_succesors \cup {Obj(m) : m \in {n \in new : HasObject(n)}}
    /\ UNCHANGED <<ppdg, pc, line, graph, todo, edge, processed_id, belief_graph, critical_read_set>>

\* Mutant: the search ends at a load of size 0.
CtrlSuccesorsStopAtEmpty ==
    /\ pc = "bfs"
    /\ queue # <<>>
    /\ LET new   == predecessors(Head(queue)) \ processed_id
           loads == {m \in new : IsLoad(m) /\ HasObject(m)}
       IN  /\ processed_id' = processed_id \cup new
           /\ \E s \in Bijection(1..Cardinality(loads), loads) : queue' = Tail(queue) \o s
           /\ ctrl_succesors' = ctrl_succesors \cup {Obj(m) : m \in loads}
    /\ UNCHANGED <<ppdg, pc, line, graph, todo, edge, belief_graph, critical_read_set>>

\* Mutant: the objects of loads of size 0 are looked up too.
CtrlSuccesorsOfEmpty ==
    /\ pc = "bfs"
    /\ queue # <<>>
    /\ LET new   == predecessors(Head(queue)) \ processed_id
           loads == {m \in new : IsLoad(m)}
       IN  /\ processed_id' = processed_id \cup new
           /\ \E s \in Bijection(1..Cardinality(loads), loads) : queue' = Tail(queue) \o s
           /\ ctrl_succesors' = ctrl_succesors \cup {Obj(m) : m \in loads}
    /\ UNCHANGED <<ppdg, pc, line, graph, todo, edge, belief_graph, critical_read_set>>

\* One node of the breadth-first search: the loads that depend on it, not the
\* stores, are searched further; those of size 0 too.
get_ctrl_succesors ==
    /\ pc = "bfs"
    /\ queue # <<>>
    /\ LET new   == predecessors(Head(queue)) \ processed_id
           loads == {m \in new : IsLoad(m)}
       IN  /\ processed_id' = processed_id \cup new
           /\ \E s \in Bijection(1..Cardinality(loads), loads) : queue' = Tail(queue) \o s
           /\ ctrl_succesors' = ctrl_succesors \cup {Obj(m) : m \in {n \in loads : HasObject(n)}}
    /\ UNCHANGED <<ppdg, pc, line, graph, todo, edge, belief_graph, critical_read_set>>

ApplyTransitively ==
    /\ pc = "bfs"
    /\ queue = <<>>
    /\ belief_graph' = belief_graph \cup {<<o, Obj(edge[2])>> : o \in ctrl_succesors}
    /\ pc' = "edges" /\ edge' = <<>> /\ processed_id' = {} /\ ctrl_succesors' = {}
    /\ UNCHANGED <<ppdg, line, graph, todo, queue, critical_read_set>>

Finish ==
    /\ pc = "edges"
    /\ todo = {}
    /\ pc' = "done"
    /\ UNCHANGED <<ppdg, line, graph, todo, bfsVars, belief_graph, critical_read_set>>

Next ==
    \/ init_edges \/ AnalyzeGraph
    \/ \E e \in todo : init_belief_and_critical_read_set_from_edge(e)
    \/ get_ctrl_succesors \/ ApplyTransitively \/ Finish

Spec == Init /\ [][Next]_vars /\ WF_vars(Next)
-----------------------------------------------------------------------------
\* The reference, from the lines of the file alone.
LineEdges(types) == {ppdg.lines[i].edge : i \in {j \in DOMAIN ppdg.lines : ppdg.lines[j].type \in types}}

Edges(types) == {e \in LineEdges(types) : HasObject(e[1]) /\ HasObject(e[2]) /\ IsLoad(e[2])}

\* The loads that depend on node n, directly or through other loads: the least
\* set of loads that is closed under dependence on n and on its members.
DependentLoads(n) ==
    LET loads == {m \in DOMAIN ppdg.nodes : IsLoad(m)}
        closed == {S \in SUBSET loads :
                     \A m \in loads, k \in S \cup {n} :
                        <<m, k>> \in LineEdges({"data", "ctrl"}) => m \in S}
    IN  {m \in loads : \A S \in closed : m \in S}

\* A load that a store depends on persists before the store; a load that other
\* loads are controlled by, before those and before all that depends on them.
Beliefs ==
    {<<Obj(e[2]), Obj(e[1])>> : e \in {d \in Edges({"data", "ctrl"}) : ~IsLoad(d[1])}}
    \cup UNION {{<<Obj(m), Obj(e[2])>> : m \in {k \in DependentLoads(e[1]) \cup {e[1]} : HasObject(k)}} :
                e \in {d \in Edges({"ctrl"}) : IsLoad(d[1])}}

CriticalReads ==
    {Obj(e[2]) : e \in {d \in Edges({"data", "ctrl"}) : ~IsLoad(d[1])} \cup
                       {d \in Edges({"ctrl"}) : IsLoad(d[1])}}
-----------------------------------------------------------------------------
\* The types of the graphs and of the search: what the searches find and what
\* is believed are objects of the list, never an access of size 0.
TypeOK ==
    /\ ppdg \in Ppdgs
    /\ pc \in {"read", "edges", "bfs", "done"}
    /\ line \in 1..(Len(ppdg.lines) + 1)
    /\ DOMAIN graph \subseteq (DOMAIN ppdg.nodes) \X (DOMAIN ppdg.nodes)
    /\ \A e \in DOMAIN graph : graph[e] \in {"data", "ctrl"}
    /\ todo \subseteq DOMAIN graph
    /\ queue \in Seq(DOMAIN ppdg.nodes) /\ processed_id \subseteq DOMAIN ppdg.nodes
    /\ ctrl_succesors \subseteq Objects
    /\ belief_graph \subseteq Objects \X Objects
    /\ critical_read_set \subseteq Objects

\* The database holds the beliefs of the reference, and all of them: that one
\* pair keeps only its last line, that edges come in any order, that searches
\* run into cycles, stores and accesses of size 0 changes nothing.
BeliefsExact ==
    /\ TypeOK
    /\ pc = "done" => belief_graph = Beliefs /\ critical_read_set = CriticalReads
=============================================================================
