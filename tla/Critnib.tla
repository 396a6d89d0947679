------------------------------ MODULE Critnib ------------------------------
(***************************************************************************)
(* The radix tree in which libpmemobj looks up pools, lanes and allocation *)
(* classes (critnib.c): writers take a lock, a reader takes none.  What a  *)
(* remove takes out of the tree is reused DELETED_LIFE removes later; a    *)
(* reader that was overtaken by so many starts again.                      *)
(*                                                                         *)
(* A pointer is a number: 0 is NULL, then come the nodes, then the leaves. *)
(* A slice of a key has one of SLNODES values, and a key two slices.  The  *)
(* writers are one, as their lock makes them; a step is one access to what *)
(* a reader reads as well.  A value is the number of its insert; memory    *)
(* that is not in the tree may hold pointers instead.                      *)
(***************************************************************************)
EXTENDS Naturals, Sequences, FiniteSets

CONSTANTS SLNODES, DELETED_LIFE,
          MaxNodes, MaxLeaves,       \* what Malloc has
          Starts,                    \* the keys at first
          Keys, Questions, Lookups,  \* of the writer and of the reader
          MaxInserts, MaxRemoves

Slots  == 0..(SLNODES - 1)
Nodes  == 1..MaxNodes
Leaves == (MaxNodes + 1)..(MaxNodes + MaxLeaves)
FirstValue == MaxNodes + MaxLeaves + 1

CritnibAssumption ==
    /\ SLNODES \in Nat \ {0, 1} /\ DELETED_LIFE \in Nat \ {0}
    /\ MaxNodes \in Nat /\ MaxLeaves \in Nat \ {0}
    /\ Keys \cup Questions \subseteq 0..(SLNODES * SLNODES - 1)
    /\ Lookups \subseteq {"get", "find_le"}

VARIABLES c,         \* struct critnib, and the memory of its nodes and leaves
          wpc, w,    \* the writer, and the variables of its call
          rpc, rd,   \* the reader
          during,    \* the contents there have been since the reader's call began
          overlap,   \* whether a remove has been under way since
          inserts, removes

vars == <<c, wpc, w, rpc, rd, during, overlap, inserts, removes>>

is_leaf(p) == p > MaxNodes

\* shift is 0 or 1 here, a number of slices.
Width(shift) == IF shift = 0 THEN 1 ELSE SLNODES
slice_index(key, shift) == (key \div Width(shift)) % SLNODES

\* key & path_mask(shift)
path_mask(key, shift) == key - (key % (Width(shift) * SLNODES))

\* The first slice in which the keys differ.
Differ(key, path) == IF slice_index(key, 1) # slice_index(path, 1) THEN 1 ELSE 0

\* What is in the tree below p, as a set of pairs of a key and its value.
RECURSIVE Below(_, _)
Below(d, p) ==
    IF p = 0 THEN {}
    ELSE IF is_leaf(p) THEN {<<d.leaf[p].key, d.leaf[p].value>>}
    ELSE UNION {Below(d, d.node[p].child[i]) : i \in Slots}

Contents(d) == Below(d, d.root)
-----------------------------------------------------------------------------
free_node(d, n) ==
    IF n = 0 THEN d ELSE [d EXCEPT !.node[n].child[0] = d.deleted_node, !.deleted_node = n]

free_leaf(d, k) ==
    IF k = 0 THEN d ELSE [d EXCEPT !.leaf[k].value = d.deleted_leaf, !.deleted_leaf = k]

\* The leaf that alloc_leaf returns, 0 if there is no memory, and what is left.
alloc_leaf(d) ==
    IF d.deleted_leaf # 0
    THEN <<d.deleted_leaf, [d EXCEPT !.deleted_leaf = d.leaf[d.deleted_leaf].value]>>
    ELSE IF d.leaves = MaxLeaves THEN <<0, d>>
    ELSE <<MaxNodes + d.leaves + 1, [d EXCEPT !.leaves = @ + 1]>>

alloc_node(d) ==
    IF d.deleted_node # 0
    THEN <<d.deleted_node, [d EXCEPT !.deleted_node = d.node[d.deleted_node].child[0]]>>
    ELSE IF d.nodes = MaxNodes THEN <<0, d>>
    ELSE <<d.nodes + 1, [d EXCEPT !.nodes = @ + 1]>>

\* A pointer in the tree: the root, or a child of a node.
RootPtr == <<0, 0>>
Deref(d, ptr) == IF ptr = RootPtr THEN d.root ELSE d.node[ptr[1]].child[ptr[2]]
store(d, ptr, p) ==
    IF ptr = RootPtr THEN [d EXCEPT !.root = p] ELSE [d EXCEPT !.node[ptr[1]].child[ptr[2]] = p]

\* The pointer at which the walk of critnib_insert ends.
RECURSIVE InsertAt(_, _, _)
InsertAt(d, ptr, key) ==
    LET n == Deref(d, ptr)
    IN  IF n = 0 \/ is_leaf(n) THEN ptr
        ELSE IF path_mask(key, d.node[n].shift) # d.node[n].path THEN ptr
        ELSE InsertAt(d, <<n, slice_index(key, d.node[n].shift)>>, key)

\* The pointers that lead critnib_remove to the leaf and to its node.
RECURSIVE RemoveAt(_, _, _, _)
RemoveAt(d, ptr, above, key) ==
    LET n == Deref(d, ptr)
    IN  IF n = 0 \/ is_leaf(n) THEN [k_parent |-> ptr, n_parent |-> above]
        ELSE RemoveAt(d, <<n, slice_index(key, d.node[n].shift)>>, ptr, key)

\* The node m that is to stand at ptr, with leaf k and what was there.
FillNode(d, m, ptr, k) ==
    LET key  == d.leaf[k].key
        n    == Deref(d, ptr)
        path == IF is_leaf(n) THEN d.leaf[n].key ELSE d.node[n].path
        sh   == Differ(key, path)
    IN  [d EXCEPT !.node[m] =
            [child |-> [i \in Slots |-> IF i = slice_index(key, sh) THEN k
                                        ELSE IF i = slice_index(path, sh) THEN n ELSE 0],
             path |-> path_mask(key, sh), shift |-> sh]]

FillLeaf(d, key, value) ==
    LET al == alloc_leaf(d)
    IN  <<al[1], IF al[1] = 0 THEN al[2]
                 ELSE [al[2] EXCEPT !.leaf[al[1]] = [key |-> key, value |-> value]]>>

\* A tree with the keys of S as well.
RECURSIVE Tree(_, _)
Tree(d, S) ==
    IF S = {} THEN d
    ELSE LET key == CHOOSE k \in S : \A j \in S : k <= j
             fl  == FillLeaf(d, key, FirstValue + key)
             ptr == InsertAt(d, RootPtr, key)
             al  == alloc_node(fl[2])
         IN  Tree(IF Deref(d, ptr) = 0 THEN store(fl[2], ptr, fl[1])
                  ELSE store(FillNode(al[2], al[1], ptr, fl[1]), ptr, al[1]), S \ {key})

critnib_new ==
    [root |-> 0, deleted_node |-> 0, deleted_leaf |-> 0,
     pending_del_nodes |-> [i \in 0..(DELETED_LIFE - 1) |-> 0],
     pending_del_leaves |-> [i \in 0..(DELETED_LIFE - 1) |-> 0],
     remove_count |-> 0,
     node |-> [n \in Nodes |-> [child |-> [i \in Slots |-> 0], path |-> 0, shift |-> 0]],
     leaf |-> [k \in Leaves |-> [key |-> 0, value |-> 0]],
     nodes |-> 0, leaves |-> 0]

NoWrite == [key |-> 0, k |-> 0, ptr |-> RootPtr, m |-> 0, del |-> 0, n_parent |-> RootPtr]
NoRead == [op |-> "get", key |-> 0, wrs1 |-> 0, n |-> 0, nib |-> 0, frames |-> <<>>, res |-> 0]

Init ==
    /\ \E S \in Starts : c = Tree(critnib_new, S)
    /\ wpc = "idle" /\ w = NoWrite
    /\ rpc = "idle" /\ rd = NoRead
    /\ during = {} /\ overlap = FALSE
    /\ inserts = 0 /\ removes = 0

\* What a step of the writer means for a reader.
Seen(d) == during' = IF rpc \in {"idle", "done"} THEN during ELSE during \cup {Contents(d)}
-----------------------------------------------------------------------------
Unlock == wpc' = "idle" /\ w' = NoWrite

\* critnib_insert: the leaf, which nobody sees yet.
InsertLeaf(key) ==
    /\ wpc = "idle" /\ inserts < MaxInserts /\ inserts' = inserts + 1
    /\ LET fl == FillLeaf(c, key, FirstValue + SLNODES * SLNODES + inserts)
       IN  /\ c' = fl[2]
           /\ IF fl[1] = 0 THEN Unlock
              ELSE wpc' = "place" /\ w' = [NoWrite EXCEPT !.key = key, !.k = fl[1]]
    /\ UNCHANGED <<rpc, rd, during, overlap, removes>>

\* ... its place: an empty slot, or a leaf with the same key, or one where a
\* node must be put between.
InsertPlace ==
    /\ wpc = "place"
    /\ LET ptr == InsertAt(c, RootPtr, w.key)
           n   == Deref(c, ptr)
           al  == alloc_node(c)
       IN  \/ /\ n = 0
              /\ c' = store(c, ptr, w.k) /\ Seen(c')
              /\ Unlock
           \/ /\ n # 0 /\ is_leaf(n) /\ c.leaf[n].key = w.key
              /\ c' = free_leaf(c, w.k)
              /\ Unlock /\ UNCHANGED during
           \/ /\ n # 0 /\ (is_leaf(n) => c.leaf[n].key # w.key)
              /\ IF al[1] = 0 THEN c' = free_leaf(c, w.k) /\ Unlock
                 ELSE /\ c' = FillNode(al[2], al[1], ptr, w.k)
                      /\ wpc' = "link" /\ w' = [w EXCEPT !.ptr = ptr, !.m = al[1]]
              /\ UNCHANGED during
    /\ UNCHANGED <<rpc, rd, overlap, inserts, removes>>

InsertLink ==
    /\ wpc = "link"
    /\ c' = store(c, w.ptr, w.m) /\ Seen(c')
    /\ Unlock
    /\ UNCHANGED <<rpc, rd, overlap, inserts, removes>>
-----------------------------------------------------------------------------
\* critnib_remove: an empty tree is not counted.
RemoveCount(key) ==
    /\ wpc = "idle" /\ removes < MaxRemoves /\ removes' = removes + 1
    /\ c.root # 0
    /\ c' = [c EXCEPT !.remove_count = @ + 1]
    /\ wpc' = "reuse" /\ w' = [NoWrite EXCEPT !.key = key, !.del = c.remove_count % DELETED_LIFE]
    /\ overlap' = (overlap \/ rpc \notin {"idle", "done"})
    /\ UNCHANGED <<rpc, rd, during, inserts>>

\* What was removed DELETED_LIFE removes ago may be used again.
RemoveReuse ==
    /\ wpc = "reuse"
    /\ c' = [free_leaf(free_node(c, c.pending_del_nodes[w.del]), c.pending_del_leaves[w.del])
                EXCEPT !.pending_del_nodes[w.del] = 0, !.pending_del_leaves[w.del] = 0]
    /\ wpc' = "unlink"
    /\ UNCHANGED <<w, rpc, rd, during, overlap, inserts, removes>>

RemoveUnlink ==
    /\ wpc = "unlink"
    /\ LET at == RemoveAt(c, RootPtr, RootPtr, w.key)
           k  == Deref(c, at.k_parent)
           found == k # 0 /\ c.leaf[k].key = w.key
       IN  \/ /\ found
              /\ c' = store(c, at.k_parent, 0) /\ Seen(c')
              /\ wpc' = "retire"
              /\ w' = [w EXCEPT !.k = k, !.ptr = at.k_parent, !.n_parent = at.n_parent]
           \/ /\ ~found
              /\ Unlock /\ UNCHANGED <<c, during>>
    /\ UNCHANGED <<rpc, rd, overlap, inserts, removes>>

\* A node with one child left makes room for it.
RemoveRetire ==
    /\ wpc = "retire"
    /\ LET n    == w.ptr[1]
           left == {i \in Slots : c.node[n].child[i] # 0}
           d    == [c EXCEPT !.pending_del_leaves[w.del] = w.k]
       IN  c' = IF w.ptr # RootPtr /\ Cardinality(left) = 1
                THEN [store(d, w.n_parent, c.node[n].child[CHOOSE i \in left : TRUE])
                        EXCEPT !.pending_del_nodes[w.del] = n]
                ELSE d
    /\ Seen(c')
    /\ Unlock
    /\ UNCHANGED <<rpc, rd, overlap, inserts, removes>>
-----------------------------------------------------------------------------
\* critnib_get and critnib_find_le: one lookup.
Ask(op, key) ==
    /\ rpc = "idle"
    /\ rpc' = "count" /\ rd' = [NoRead EXCEPT !.op = op, !.key = key]
    /\ during' = {Contents(c)}
    /\ overlap' = (wpc \in {"reuse", "unlink", "retire"})
    /\ UNCHANGED <<c, wpc, w, inserts, removes>>

\* A step of the reader alone.
Reads(label, r) == rpc' = label /\ rd' = r /\ UNCHANGED <<c, wpc, w, during, overlap, inserts, removes>>

LoadCount == rpc = "count" /\ Reads("root", [rd EXCEPT !.wrs1 = c.remove_count])

LoadRoot ==
    /\ rpc = "root"
    /\ Reads(IF rd.op = "get" THEN "dive" ELSE "le", [rd EXCEPT !.n = c.root, !.frames = <<>>, !.res = 0])

\* Either the value at rd.n follows, or the call has the answer NULL.
Dive ==
    /\ rpc = "dive"
    /\ LET n == rd.n
       IN  IF n # 0 /\ ~is_leaf(n)
           THEN Reads("dive", [rd EXCEPT !.n = c.node[n].child[slice_index(rd.key, c.node[n].shift)]])
           ELSE Reads(IF n # 0 /\ c.leaf[n].key = rd.key THEN "value" ELSE "check", rd)

\* find_le enters a subtree.  A frame is a node and the slot it went down.
find_le ==
    /\ rpc = "le"
    /\ LET n   == rd.n
           nd  == c.node[n]
           nib == slice_index(rd.key, nd.shift)
       IN  IF n = 0 THEN Reads("back", rd)
           ELSE IF is_leaf(n) THEN Reads(IF c.leaf[n].key <= rd.key THEN "value" ELSE "back", rd)
           ELSE IF path_mask(rd.key, nd.shift) # path_mask(nd.path, nd.shift)
                THEN IF nd.path < rd.key THEN Reads("succ", [rd EXCEPT !.nib = SLNODES - 1])
                     ELSE Reads("back", rd)
           ELSE Reads("le", [rd EXCEPT !.n = nd.child[nib],
                                       !.frames = <<[n |-> n, nib |-> nib]>> \o @])

\* Nothing was found below the first frame: the slots to the left of the one
\* it went down, down to the first that is not NULL.
SearchLeft ==
    /\ rpc = "back"
    /\ IF rd.frames = <<>> THEN Reads("check", rd)
       ELSE LET f == Head(rd.frames)
                m == c.node[f.n].child[f.nib - 1]
            IN  IF f.nib = 0 THEN Reads("back", [rd EXCEPT !.frames = Tail(@)])
                ELSE IF m = 0 THEN Reads("back", [rd EXCEPT !.frames[1].nib = @ - 1])
                ELSE Reads(IF is_leaf(m) THEN "value" ELSE "succ",
                           [rd EXCEPT !.frames = Tail(@), !.n = m, !.nib = SLNODES - 1])

\* One slot, from the right.
find_successor ==
    /\ rpc = "succ"
    /\ LET m == c.node[rd.n].child[rd.nib]
       IN  IF m # 0 THEN Reads("again", [rd EXCEPT !.res = m])
           ELSE IF rd.nib = 0 THEN Reads("back", rd)
           ELSE Reads("succ", [rd EXCEPT !.nib = @ - 1])

\* The slot is read a second time, unless the compiler keeps what was read.
\* Now it may be NULL, whose children are read next.
ReadAgain ==
    /\ rpc = "again"
    /\ \E m \in {rd.res, c.node[rd.n].child[rd.nib]} :
          Reads(IF m = 0 THEN "fault" ELSE IF is_leaf(m) THEN "value" ELSE "succ",
                [rd EXCEPT !.n = m, !.nib = SLNODES - 1, !.res = 0])

LoadValue ==
    /\ rpc = "value"
    /\ LET v == c.leaf[rd.n].value
       IN  Reads(IF v = 0 /\ rd.op = "find_le" THEN "back" ELSE "check", [rd EXCEPT !.res = v])

\* Mutant: one remove too many is tolerated.
CheckCountLate ==
    /\ rpc = "check"
    /\ IF rd.wrs1 + DELETED_LIFE < c.remove_count
       THEN Reads("count", rd)
       ELSE Reads("done", rd)

\* The answer counts if less than DELETED_LIFE removes have begun.
CheckCount ==
    /\ rpc = "check"
    /\ IF rd.wrs1 + DELETED_LIFE <= c.remove_count
       THEN Reads("count", rd)
       ELSE Reads("done", rd)

Next ==
    \/ \E key \in Keys : InsertLeaf(key) \/ RemoveCount(key)
    \/ InsertPlace \/ InsertLink \/ RemoveReuse \/ RemoveUnlink \/ RemoveRetire
    \/ \E op \in Lookups, key \in Questions : Ask(op, key)
    \/ LoadCount \/ LoadRoot \/ Dive \/ find_le \/ SearchLeft \/ find_successor \/ ReadAgain
    \/ LoadValue \/ CheckCount

Spec == Init /\ [][Next]_vars
-----------------------------------------------------------------------------
\* The value of key q in the contents m, and of the greatest key up to q.
Get(m, q) ==
    LET s == {p \in m : p[1] = q}
    IN  IF s = {} THEN 0 ELSE (CHOOSE p \in s : TRUE)[2]

FindLe(m, q) ==
    LET s == {p \in m : p[1] <= q}
    IN  IF s = {} THEN 0 ELSE (CHOOSE p \in s : \A r \in s : r[1] <= p[1])[2]

\* The pointers of a subtree, and of a list of free nodes or leaves.
RECURSIVE Reached(_)
Reached(p) ==
    IF p = 0 THEN {}
    ELSE {p} \cup IF is_leaf(p) THEN {} ELSE UNION {Reached(c.node[p].child[i]) : i \in Slots}

RECURSIVE Free(_)
Free(p) ==
    IF p = 0 THEN {} ELSE {p} \cup Free(IF is_leaf(p) THEN c.leaf[p].value ELSE c.node[p].child[0])

\* The tree has every key once.  What waits for its reuse is not in the tree,
\* what is free neither (free_node, free_leaf).
TreeOK ==
    LET tree    == Reached(c.root)
        pending == {c.pending_del_nodes[i] : i \in DOMAIN c.pending_del_nodes}
                   \cup {c.pending_del_leaves[i] : i \in DOMAIN c.pending_del_leaves}
        free    == Free(c.deleted_node) \cup Free(c.deleted_leaf)
    IN  /\ tree \cap (pending \cup free) = {} /\ (pending \ {0}) \cap free = {}
        /\ \A p, q \in Contents(c) : p[1] = q[1] => p = q

\* What critnib_get returns was current at some time during the call, whatever
\* was removed and reused meanwhile.
GetCurrent == rpc = "done" /\ rd.op = "get" => \E m \in during : rd.res = Get(m, rd.key)

\* What critnib_find_le returns is the value of a key that was there during the
\* call, not greater than the one asked for; if no remove was under way, no key
\* that was there all the time lies between the two.
FindLeSound ==
    rpc = "done" /\ rd.op = "find_le" =>
        /\ rd.res # 0 => \E p \in UNION during : p[2] = rd.res /\ p[1] <= rd.key
        /\ ~overlap =>
              \A p \in UNION during :
                  (p[1] <= rd.key /\ \A m \in during : p \in m)
                      => \E q \in UNION during : q[2] = rd.res /\ p[1] <= q[1]

\* What critnib_find_le returns was current at some time during the call.
\* critnib.c says so ("the result of get() or find_le() is a value that was
\* current at any point between the call start and end"), and that inserts
\* "never interfere with reads".
FindLeCurrent ==
    rpc = "done" /\ rd.op = "find_le" => \E m \in during : rd.res = FindLe(m, rd.key)
=============================================================================
