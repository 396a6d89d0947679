--------------------------- MODULE MCCrashManager ---------------------------
(***************************************************************************)
(* TXs of BodyLen operations over two lines and three objects.  Line A has *)
(* two cells, so stores of one line may overlap; a TX is preceded by       *)
(* nothing, or by initial operations, a TX and operations between TXs.     *)
(***************************************************************************)
EXTENDS CrashManager

CONSTANT MaxBody      \* the most operations of a TX between TXStart and TXEnd

MCLines == {"A", "B"}
MCCells == {"a1", "a2", "b1"}
MCLineOf == [c \in MCCells |-> IF c = "b1" THEN "B" ELSE "A"]
MCObjects == {"x", "y", "z"}

Op(type, line, cells, obj) ==
    [type |-> type, line |-> line, cells |-> cells, obj |-> obj]
Mark(type) == Op(type, "A", {}, "none")
Flush(line) == Op("Flush", line, {}, "none")

Stores == {Op("Store", "A", {"a1"}, "x"), Op("Store", "A", {"a1", "a2"}, "y"),
           Op("Store", "B", {"b1"}, "z")}
Alphabet == Stores \cup {Flush("A"), Flush("B"), Mark("Fence")}

\* A TX of n operations that starts with a store and ends with a fence.
Bodies(n) == {b \in [1..n -> Alphabet] : b[1] \in Stores /\ b[n].type = "Fence"}

\* A body that is too long.
LongBody == [i \in 1..(MaxBody + 1) |-> Mark("Fence")]

\* A store between TXs is left in line A when the TX starts.
Before == <<Op("Store", "A", {"a2"}, "none"), Mark("PMDK"), Mark("TXStart"),
            Op("Store", "B", {"b1"}, "z"), Flush("B"), Mark("Fence"),
            Op("Store", "B", {"b1"}, "z"), Mark("TXEnd"),
            Op("Store", "A", {"a1"}, "x")>>

Target(prefix, first, body) ==
    [ops |-> prefix \o <<Mark("TXStart")>> \o body \o <<Mark("TXEnd")>>,
     tx  |-> [first |-> first,
              lo    |-> Len(prefix) + 1,
              hi    |-> Len(prefix) + Len(body) + 2]]

\* The longest TXs have three stores, a flush, and a fence before the last store.
RichBodies ==
    {b \in Bodies(MaxBody) :
        /\ \E i, j, k \in 2..(MaxBody - 1) :
              i < j /\ k < j /\ b[i] \in Stores /\ b[j] \in Stores /\ b[k].type = "Fence"
        /\ \E i \in 2..(MaxBody - 1) : b[i].type = "Flush"}

MCTraces ==
    {Target(<<>>, 1, b) : b \in Bodies(MaxBody - 1) \cup RichBodies \cup {LongBody}}
    \cup {Target(Before, 3, b) : b \in Bodies(MaxBody - 2)}

MCBeliefs ==
    {[critical |-> {"x", "z"}, hb |-> {}],
     [critical |-> {}, hb |-> {<<"x", "y">>, <<"y", "z">>}],
     [critical |-> {"x", "y"}, hb |-> {<<"z", "x">>, <<"x", "z">>, <<"x", "y">>}]}
=============================================================================
