---------------------------- MODULE AtomicBlocks ----------------------------
(***************************************************************************)
(* What a block device with power-fail write atomicity promises: the       *)
(* abstract specification that the block translation table implements.     *)
(*                                                                         *)
(* A block holds a value.  A call takes effect at one instant between its  *)
(* start and its return; a crash ends all calls, and each write that was   *)
(* in progress has taken effect or has not.                                *)
(***************************************************************************)
CONSTANTS Lanes,   \* one call at a time on each lane
          Lbas,    \* the logical blocks
          Values,  \* what a caller may write
          Zero, Error, \* the contents of a zeroed block and of one marked bad
          NoCall

VARIABLES blocks,  \* the contents of every block
          call,    \* the call on each lane
          result   \* what it returns, once it has taken effect

vars == <<blocks, call, result>>

Writes == [op : {"write"}, lba : Lbas, new : Values \cup {Zero, Error}]
Reads  == [op : {"read"}, lba : Lbas]

Init ==
    /\ blocks = [x \in Lbas |-> Zero]
    /\ call = [l \in Lanes |-> NoCall]
    /\ result = [l \in Lanes |-> NoCall]

Start(l) ==
    /\ call[l] = NoCall
    /\ \E c \in Writes \cup Reads : call' = [call EXCEPT ![l] = c]
    /\ UNCHANGED <<blocks, result>>

DoRead(l) ==
    /\ call[l] \in Reads /\ result[l] = NoCall
    /\ result' = [result EXCEPT ![l] = blocks[call[l].lba]]
    /\ UNCHANGED <<blocks, call>>

DoWrite(l) ==
    /\ call[l] \in Writes /\ result[l] = NoCall
    /\ blocks' = [blocks EXCEPT ![call[l].lba] = call[l].new]
    /\ result' = [result EXCEPT ![l] = "ok"]
    /\ UNCHANGED call

\* The device may refuse a call, which then has no effect.
Refuse(l) ==
    /\ call[l] # NoCall
    /\ call[l] \in Writes => result[l] = NoCall
    /\ result' = [result EXCEPT ![l] = "failed"]
    /\ UNCHANGED <<blocks, call>>

Return(l) ==
    /\ result[l] # NoCall
    /\ call' = [call EXCEPT ![l] = NoCall]
    /\ result' = [result EXCEPT ![l] = NoCall]
    /\ UNCHANGED blocks

\* A block keeps its contents or gets those of a write in progress.
Crash ==
    /\ \A x \in Lbas :
          \/ blocks'[x] = blocks[x]
          \/ \E l \in Lanes : /\ call[l] \in Writes /\ result[l] = NoCall
                              /\ call[l].lba = x /\ blocks'[x] = call[l].new
    /\ blocks' \in [Lbas -> Values \cup {Zero, Error}]
    /\ call' = [l \in Lanes |-> NoCall]
    /\ result' = [l \in Lanes |-> NoCall]

Next ==
    \/ \E l \in Lanes : Start(l) \/ DoRead(l) \/ DoWrite(l) \/ Refuse(l) \/ Return(l)
    \/ Crash

Spec == Init /\ [][Next]_vars
=============================================================================
