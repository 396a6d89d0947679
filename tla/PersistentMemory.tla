-------------------------- MODULE PersistentMemory --------------------------
(***************************************************************************)
(* What a persistent memory promises a program that crashes: the abstract  *)
(* specification the simulated cache has to implement.                     *)
(*                                                                         *)
(* The stores of one cacheline become durable in program order, at any     *)
(* time (the hardware may evict a line whenever it likes), and a fence     *)
(* completes only when everything flushed before it is durable.  A crash   *)
(* leaves the durable stores plus, per line, any further prefix of what    *)
(* was issued.                                                             *)
(***************************************************************************)
EXTENDS MemoryOperations

VARIABLES ops,      \* the program: a sequence of operations, never changed
          n,        \* how many of them have completed
          pending,  \* the stores covered by a flush and not known durable
          durable,  \* the stores that survive every crash from now on
          image     \* the memory contents found after the last crash

vars == <<ops, n, pending, durable, image>>

Issued(k) == {i \in 1..k : ops[i].type = "Store"}

\* A set of stores a crash after k operations may leave: what was issued,
\* closed under "earlier in the same line".
Survivors(k, D) ==
    /\ D \subseteq Issued(k)
    /\ \A i \in D : \A j \in Issued(k) :
          j < i /\ ops[j].line = ops[i].line => j \in D

\* The last store of D that wrote a cell, 0 for the initial contents.
Contents(D) ==
    [c \in Cells |->
        LET W == {i \in D : c \in ops[i].cells}
        IN  IF W = {} THEN 0 ELSE Latest(W)]

Init ==
    /\ IsTrace(ops)
    /\ n = 0
    /\ pending = {}
    /\ durable = {}
    /\ image = [c \in Cells |-> 0]

\* Lines are evicted: more stores become durable.
Evict ==
    /\ durable \subseteq durable'
    /\ Survivors(n, durable')
    /\ pending' = pending \ durable'
    /\ UNCHANGED <<ops, n, image>>

\* The next operation of the program completes.
Execute ==
    /\ n < Len(ops)
    /\ n' = n + 1
    /\ durable \subseteq durable'
    /\ Survivors(n + 1, durable')
    /\ pending' = (IF ops[n + 1].type = "Flush"
                   THEN pending \cup {i \in Issued(n) : ops[i].line = ops[n + 1].line}
                   ELSE pending) \ durable'
    /\ ops[n + 1].type = "Fence" => pending' = {}
    /\ UNCHANGED <<ops, image>>

\* A crash: the image is one the memory may be left with.
Crash ==
    /\ \E D \in SUBSET Issued(n) :
          /\ durable \subseteq D
          /\ Survivors(n, D)
          /\ image' = Contents(D)
    /\ UNCHANGED <<ops, n, pending, durable>>

Next == Evict \/ Execute \/ Crash

Spec == Init /\ [][Next]_vars
=============================================================================
