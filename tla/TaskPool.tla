------------------------------ MODULE TaskPool ------------------------------
(***************************************************************************)
(* What the engines expect of a pool of workers: a task runs once, after   *)
(* it was submitted, and a wait returns only when everything submitted     *)
(* before it has run.                                                      *)
(***************************************************************************)
CONSTANT Tasks

VARIABLES state,  \* where each task is
          wait    \* the caller's wait

vars == <<state, wait>>

Init ==
    /\ state = [t \in Tasks |-> "new"]
    /\ wait = "idle"

Move(t, from, to) ==
    /\ state[t] = from
    /\ state' = [state EXCEPT ![t] = to]
    /\ UNCHANGED wait

Submit(t) == wait = "idle" /\ Move(t, "new", "submitted")
Start(t)  == Move(t, "submitted", "running")
Finish(t) == Move(t, "running", "finished")

Wait ==
    /\ wait = "idle" /\ wait' = "waiting"
    /\ UNCHANGED state

Return ==
    /\ wait = "waiting" /\ wait' = "returned"
    /\ \A t \in Tasks : state[t] \in {"new", "finished"}
    /\ UNCHANGED state

Next == Wait \/ Return \/ \E t \in Tasks : Submit(t) \/ Start(t) \/ Finish(t)

Spec == Init /\ [][Next]_vars
=============================================================================
