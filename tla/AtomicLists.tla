---------------------------- MODULE AtomicLists ----------------------------
(***************************************************************************)
(* What the persistent lists of libpmemobj promise: sequences of objects,  *)
(* changed by calls that take effect at one instant or not at all.  A      *)
(* crash ends all calls and changes no list.                               *)
(***************************************************************************)
EXTENDS Naturals, Sequences, SequencesExt

CONSTANTS Threads,   \* one call at a time each
          Heads,     \* the lists
          Elems,     \* the objects
          NoCall

VARIABLES lists,     \* the objects of every list, in order
          objs,      \* the objects that are allocated
          call,      \* the call of each thread
          result     \* what it returns, once that is settled

vars == <<lists, objs, call, result>>

\* Sequence s with e next to dest; 0 stands for no object: the first of the
\* list, if e is to come before it, or the last.
Insert(s, dest, before, e) ==
    LET i == CHOOSE n \in DOMAIN s : s[n] = dest
    IN  IF dest = 0 THEN IF before THEN <<e>> \o s ELSE Append(s, e)
        ELSE InsertAt(s, IF before THEN i ELSE i + 1, e)

\* Moving an object next to itself leaves it where it is.
Move(s, dest, before, e) == IF dest = e THEN s ELSE Insert(Remove(s, e), dest, before, e)

Init ==
    /\ objs \subseteq Elems /\ lists \in [Heads -> Seq(objs)]
    /\ call = [t \in Threads |-> NoCall] /\ result = [t \in Threads |-> "none"]

Start(t) ==
    /\ call[t] = NoCall
    /\ call'[t] # NoCall /\ \A u \in Threads \ {t} : call'[u] = call[u]
    /\ UNCHANGED <<lists, objs, result>>

TakeEffect(t) ==
    /\ call[t] # NoCall /\ result[t] = "none"
    /\ result' = [result EXCEPT ![t] = "ok"] /\ UNCHANGED call
    /\ LET c == call[t]
       IN  \/ /\ c.op = "insert"
              /\ lists' = [lists EXCEPT ![c.head] = Insert(@, c.dest, c.before, c.oid)]
              /\ UNCHANGED objs
           \/ /\ c.op = "insert_new"
              /\ \E e \in Elems \ objs :
                    /\ lists' = [lists EXCEPT ![c.head] = Insert(@, c.dest, c.before, e)]
                    /\ objs' = objs \cup {e}
           \/ /\ c.op \in {"remove", "remove_free"}
              /\ lists' = [lists EXCEPT ![c.head] = Remove(@, c.oid)]
              /\ objs' = IF c.op = "remove" THEN objs ELSE objs \ {c.oid}
           \/ /\ c.op = "move"
              /\ lists' = IF c.old = c.head
                          THEN [lists EXCEPT ![c.head] = Move(@, c.dest, c.before, c.oid)]
                          ELSE [lists EXCEPT ![c.old] = Remove(@, c.oid),
                                             ![c.head] = Insert(@, c.dest, c.before, c.oid)]
              /\ UNCHANGED objs

Fail(t) ==
    /\ call[t] # NoCall /\ result[t] = "none"
    /\ result' = [result EXCEPT ![t] = "failed"]
    /\ UNCHANGED <<lists, objs, call>>

Return(t) ==
    /\ result[t] # "none"
    /\ call' = [call EXCEPT ![t] = NoCall] /\ result' = [result EXCEPT ![t] = "none"]
    /\ UNCHANGED <<lists, objs>>

Crash ==
    /\ call' = [t \in Threads |-> NoCall] /\ result' = [t \in Threads |-> "none"]
    /\ UNCHANGED <<lists, objs>>

Next == \/ \E t \in Threads : Start(t) \/ TakeEffect(t) \/ Fail(t) \/ Return(t)
        \/ Crash

Spec == Init /\ [][Next]_vars
=============================================================================
