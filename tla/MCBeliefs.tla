----------------------------- MODULE MCBeliefs ------------------------------
(***************************************************************************)
(* The list of PM objects and the inference of the beliefs, side by side.  *)
(* A behaviour is about one of them, which the variable part names; the    *)
(* variables of the other keep the value they start with.                  *)
(***************************************************************************)
EXTENDS BeliefDatabase

CONSTANTS Parts,
          MaxAddr,      \* the addresses are 0..MaxAddr
          MaxObjects,   \* the number of different nodes inserted in a behaviour
          NumLines      \* the lines of a file

VARIABLES part, list, step, obj, left, right, curr, found, inserted

listVars == <<list, step, obj, left, right, curr, found, inserted>>
-----------------------------------------------------------------------------
\* All the ranges of at most four addresses as nodes, the empty ones included;
\* stores of one or two.
MCRanges == {r \in [base : 0..MaxAddr, max : 0..MaxAddr] :
                r.base <= r.max /\ r.max <= r.base + 4}
MCNodes == MCRanges
MCStores == {r \in MCRanges : r.max - r.base \in 1..2}
None == <<>>

List == INSTANCE PMObjectList WITH Nodes <- MCNodes, Stores <- MCStores, pc <- step

ASSUME List!RangesAssumption
-----------------------------------------------------------------------------
\* Four nodes: a store, two loads of an object each, and a load that is of size
\* 0 or of the object of the store.
Access(type, o) == [type |-> type, obj |-> o]

NodeSets == {<<Access("Store", "x"), Access("Load", "y"), Access("Load", "z"), Access("Load", o)>> :
                o \in {"none", "x"}}

\* getDataEdges never connects a vertex with itself.  The order of accesses
\* is not used: graphs with cycles are among the files.
AllLines == [edge : {e \in (1..4) \X (1..4) : e[1] # e[2]}, type : {"data", "ctrl"}]

\* A pair's data line before its control line.  The order of the pairs is
\* fixed here, as the analysis takes the edges in any order.
Rank(l) == 8 * l.edge[1] + 2 * l.edge[2] + (IF l.type = "data" THEN 0 ELSE 1)

Files == {f \in [1..NumLines -> AllLines] : \A i, j \in 1..NumLines : i < j => Rank(f[i]) < Rank(f[j])}

NoPpdg == [nodes |-> <<>>, lines |-> <<>>]
MCPpdgs == [nodes : NodeSets, lines : Files] \cup {NoPpdg}
-----------------------------------------------------------------------------
MCInit ==
    /\ Init /\ List!Init /\ part \in Parts
    /\ part = "objects" => ppdg = NoPpdg

InsertOrFind == part = "objects" /\ List!Next /\ UNCHANGED <<vars, part>>
ListLoop == part = "objects" /\ List!Loop /\ UNCHANGED <<vars, part>>
Analysis == part = "beliefs" /\ Next /\ UNCHANGED <<listVars, part>>
Analysed == pc = "done" /\ UNCHANGED <<vars, listVars, part>>

MCNext == InsertOrFind \/ Analysis \/ Analysed

MCVars == <<vars, listVars, part>>
MCSpec == MCInit /\ [][MCNext]_MCVars /\ WF_MCVars(ListLoop) /\ WF_MCVars(Analysis)
-----------------------------------------------------------------------------
\* The list is ordered at every step of insert, which the asserts of try_merge
\* state, and holds the overlap classes of what was inserted between insertions;
\* find misses none of them, see PMObjectList.
ObjectsExact == part = "objects" => List!ObjectsExact /\ List!FindExact

\* The loops of insert, try_merge and find end, and so does the analysis: its
\* searches do not go round in graphs with cycles.
LoopsEnd ==
    /\ (part = "objects" /\ step # "idle") ~> step = "idle"
    /\ part = "beliefs" ~> pc = "done"
=============================================================================
