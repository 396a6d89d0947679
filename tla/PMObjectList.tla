---------------------------- MODULE PMObjectList ----------------------------
(***************************************************************************)
(* The list of PM objects of witcherbeliefdatabase.py: an ordered list of  *)
(* address ranges into which the nodes of the PPDGs are inserted, ranges   *)
(* that overlap being merged, and in which the stores of the trace are     *)
(* then looked up by binary search.                                        *)
(*                                                                         *)
(* insert, try_merge and find are loops; a loop takes one step per         *)
(* iteration.  Indices start at 1.                                         *)
(***************************************************************************)
EXTENDS Naturals, Sequences, FiniteSets

CONSTANTS Nodes,       \* the address ranges of the nodes that are inserted
          Stores,      \* the address ranges that are looked up
          None,        \* what find returns for an unknown address
          MaxObjects   \* the number of different nodes inserted in a behaviour

\* [base, max): get_base_address and get_max_address of a Rangeable.
Ranges == [base : Nat, max : Nat]

\* What is assumed of the constants.
RangesAssumption ==
    /\ Nodes \subseteq Ranges
    /\ Stores \subseteq Ranges /\ \A s \in Stores : s.base < s.max
    /\ None \notin Ranges
    /\ MaxObjects \in Nat

VARIABLES list,         \* PMObjectList.list
          pc,
          obj,          \* the argument of insert or find
          left, right,  \* the bounds of the binary search
          curr,         \* try_merge's position
          found,        \* what find returned last
          inserted      \* the nodes inserted so far (history)

vars == <<list, pc, obj, left, right, curr, found, inserted>>

Before(r, s)  == r.max <= s.base               \* range_cmp(r, s) = -1
Overlap(r, s) == ~Before(r, s) /\ ~Before(s, r) \* range_cmp(r, s) = 0
Contains(r, s) == r.base <= s.base /\ s.max <= r.max

InsertAt(s, i, x) == SubSeq(s, 1, i - 1) \o <<x>> \o SubSeq(s, i, Len(s))

Larger(a, b) == IF a < b THEN b ELSE a

\* Mutant: the merged object ends where the right one did.
MergeAtRightMax(s, i) ==
    [k \in 1..(Len(s) - 1) |->
        CASE k < i -> s[k]
          [] k = i -> [base |-> s[i].base, max |-> s[i + 1].max]
          [] k > i -> s[k + 1]]

\* list[i] takes over list[i + 1].
MergeAt(s, i) ==
    [k \in 1..(Len(s) - 1) |->
        CASE k < i -> s[k]
          [] k = i -> [base |-> s[i].base, max |-> Larger(s[i].max, s[i + 1].max)]
          [] k > i -> s[k + 1]]

mid == left + (right - left) \div 2

\* The operation returns, its local variables are gone.
Idle == pc' = "idle" /\ obj' = None /\ left' = 1 /\ right' = 1 /\ curr' = 1
-----------------------------------------------------------------------------
Init ==
    /\ list = <<>> /\ inserted = {}
    /\ pc = "idle" /\ obj = None /\ found = None
    /\ left = 1 /\ right = 1 /\ curr = 1

\* insert: an empty list, the leftmost place, the rightmost place, or a
\* search for the place in between.  Nodes of size 0 are not inserted.
insert(o) ==
    /\ pc = "idle"
    /\ o.base < o.max
    /\ inserted' = inserted \cup {o}
    /\ Cardinality(inserted') <= MaxObjects
    /\ \/ /\ list = <<>>
          /\ list' = <<o>>
          /\ Idle
       \/ /\ list # <<>> /\ o.base <= list[1].base
          /\ list' = InsertAt(list, 1, o)
          /\ curr' = 1 /\ pc' = "merge_left"
          /\ UNCHANGED <<obj, left, right>>
       \/ /\ list # <<>> /\ o.base > list[1].base /\ o.base >= list[Len(list)].base
          /\ list' = Append(list, o)
          /\ curr' = Len(list) + 1 /\ pc' = "merge_left"
          /\ UNCHANGED <<obj, left, right>>
       \/ /\ list # <<>> /\ o.base > list[1].base /\ o.base < list[Len(list)].base
          /\ obj' = o /\ left' = 1 /\ right' = Len(list) /\ pc' = "search"
          /\ UNCHANGED <<list, curr>>
    /\ UNCHANGED found

\* Mutant: the search goes on until the bounds meet.
SearchUntilMeet ==
    /\ pc = "search"
    /\ IF left < right
       THEN /\ IF obj.base <= list[mid].base THEN right' = mid /\ UNCHANGED left
                                             ELSE left' = mid /\ UNCHANGED right
            /\ UNCHANGED <<list, pc, obj, curr>>
       ELSE /\ list' = InsertAt(list, right, obj)
            /\ curr' = right /\ pc' = "merge_left"
            /\ obj' = None /\ left' = 1 /\ right' = 1
    /\ UNCHANGED <<found, inserted>>

\* Mutant: the object is put before the left bound.
SearchLeft ==
    /\ pc = "search"
    /\ IF left + 1 < right
       THEN /\ IF obj.base <= list[mid].base THEN right' = mid /\ UNCHANGED left
                                             ELSE left' = mid /\ UNCHANGED right
            /\ UNCHANGED <<list, pc, obj, curr>>
       ELSE /\ list' = InsertAt(list, left, obj)
            /\ curr' = left /\ pc' = "merge_left"
            /\ obj' = None /\ left' = 1 /\ right' = 1
    /\ UNCHANGED <<found, inserted>>

Search ==
    /\ pc = "search"
    /\ IF left + 1 < right
       THEN /\ IF obj.base <= list[mid].base THEN right' = mid /\ UNCHANGED left
                                             ELSE left' = mid /\ UNCHANGED right
            /\ UNCHANGED <<list, pc, obj, curr>>
       ELSE /\ list' = InsertAt(list, right, obj)
            /\ curr' = right /\ pc' = "merge_left"
            /\ obj' = None /\ left' = 1 /\ right' = 1
    /\ UNCHANGED <<found, inserted>>

\* Mutant: the position stays behind when the left object takes over.
MergeLeftStay ==
    /\ pc = "merge_left"
    /\ list' = IF curr > 1 /\ Overlap(list[curr - 1], list[curr])
               THEN MergeAt(list, curr - 1) ELSE list
    /\ pc' = "merge_right"
    /\ UNCHANGED <<obj, left, right, curr, found, inserted>>

\* Only one object on the left can overlap; the position follows it.
MergeLeft ==
    /\ pc = "merge_left"
    /\ IF curr > 1 /\ Overlap(list[curr - 1], list[curr])
       THEN list' = MergeAt(list, curr - 1) /\ curr' = curr - 1
       ELSE UNCHANGED <<list, curr>>
    /\ pc' = "merge_right"
    /\ UNCHANGED <<obj, left, right, found, inserted>>

\* Mutant: only one object on the right is merged.
MergeRightOnce ==
    /\ pc = "merge_right"
    /\ list' = IF curr < Len(list) /\ Overlap(list[curr], list[curr + 1])
               THEN MergeAt(list, curr) ELSE list
    /\ Idle
    /\ UNCHANGED <<found, inserted>>

MergeRight ==
    /\ pc = "merge_right"
    /\ IF curr < Len(list) /\ Overlap(list[curr], list[curr + 1])
       THEN list' = MergeAt(list, curr) /\ UNCHANGED <<pc, obj, left, right, curr>>
       ELSE Idle /\ UNCHANGED list
    /\ UNCHANGED <<found, inserted>>

find(s) ==
    /\ pc = "idle"
    /\ list # <<>>
    /\ obj' = s
    /\ left' = 1 /\ right' = Len(list) /\ pc' = "find"
    /\ UNCHANGED <<list, curr, found, inserted>>

\* Mutant: the search goes on in the wrong half.
FindWrongHalf ==
    /\ pc = "find"
    /\ left + 1 < right
    /\ IF Overlap(list[mid], obj) THEN found' = list[mid] /\ pc' = "found"
                                  ELSE UNCHANGED <<found, pc>>
    /\ left' = IF Before(obj, list[mid]) THEN mid ELSE left
    /\ right' = IF Before(list[mid], obj) THEN mid ELSE right
    /\ UNCHANGED <<list, obj, curr, inserted>>

\* One probe of the middle: a hit there is returned unchecked.
FindProbe ==
    /\ pc = "find"
    /\ left + 1 < right
    /\ IF Overlap(list[mid], obj) THEN found' = list[mid] /\ pc' = "found"
                                  ELSE UNCHANGED <<found, pc>>
    /\ left' = IF Before(list[mid], obj) THEN mid ELSE left
    /\ right' = IF Before(obj, list[mid]) THEN mid ELSE right
    /\ UNCHANGED <<list, obj, curr, inserted>>

\* The two that are left; a hit is asserted to contain what is looked up.
FindEnds ==
    /\ pc = "find"
    /\ left + 1 >= right
    /\ found' = IF Overlap(list[left], obj) THEN list[left]
                ELSE IF Overlap(list[right], obj) THEN list[right]
                ELSE None
    /\ pc' = "found"
    /\ UNCHANGED <<list, obj, left, right, curr, inserted>>

Return ==
    /\ pc = "found"
    /\ Idle /\ found' = None
    /\ UNCHANGED <<list, inserted>>

Loop == Search \/ MergeLeft \/ MergeRight \/ FindProbe \/ FindEnds \/ Return

Next == Loop \/ (\E o \in Nodes : insert(o)) \/ (\E s \in Stores : find(s))

Spec == Init /\ [][Next]_vars /\ WF_vars(Loop)
-----------------------------------------------------------------------------
\* The reference: addresses at which no inserted range is cut in two.  The
\* object of a range reaches from the last such address before it to the
\* first one after it; ranges that only touch stay apart.
Cuts == {x \in Nat : \A r \in inserted : ~(r.base < x /\ x < r.max)}

IsObjectOf(m, r) ==
    /\ Contains(m, r)
    /\ m.base \in Cuts /\ m.max \in Cuts
    /\ \A x \in (m.base + 1)..(m.max - 1) : x \notin Cuts

\* The types of the list and of the loops' variables: every index the loops of
\* insert, try_merge and find use is one of the list, and no object is empty.
TypeOK ==
    /\ list \in Seq(Ranges) /\ \A i \in DOMAIN list : list[i].base < list[i].max
    /\ pc \in {"idle", "search", "merge_left", "merge_right", "find", "found"}
    /\ obj \in Nodes \cup Stores \cup {None}
    /\ pc \in {"search", "find"} => left \in 1..right /\ right \in 1..Len(list)
    /\ pc \in {"merge_left", "merge_right"} => curr \in 1..Len(list)
    /\ left \in Nat /\ right \in Nat /\ curr \in Nat
    /\ found \in Ranges \cup {None}
    /\ inserted \subseteq Nodes

\* The asserts of try_merge: whenever two neighbours are merged, the left one
\* starts first, because the list is ordered at every step of insert, and the
\* loops of insert and find stay inside it.  Between insertions the list is the
\* overlap classes of what was inserted, each once and in order, whatever order
\* the nodes came in.
ObjectsExact ==
    /\ TypeOK
    /\ \A i, j \in DOMAIN list : i < j => list[i].base <= list[j].base
    /\ pc \in {"idle", "find", "found"} =>
          /\ \A i, j \in DOMAIN list : i < j => Before(list[i], list[j])
          /\ \A r \in inserted : \E i \in DOMAIN list : IsObjectOf(list[i], r)
          /\ \A i \in DOMAIN list : \E r \in inserted : IsObjectOf(list[i], r)

\* find misses nothing: it returns None only if no object overlaps the store,
\* and for a store inside an inserted range it returns the one object that
\* contains it.
FindExact ==
    pc = "found" =>
        /\ found = None => \A i \in DOMAIN list : ~Overlap(list[i], obj)
        /\ found # None => Overlap(found, obj) /\ \E i \in DOMAIN list : list[i] = found
        /\ (\E r \in inserted : Contains(r, obj)) => found # None /\ Contains(found, obj)
=============================================================================
