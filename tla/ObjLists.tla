------------------------------ MODULE ObjLists ------------------------------
(***************************************************************************)
(* The persistent lists of libpmemobj (list.c), with the locks in their    *)
(* heads (sync.c) and the lanes whose redo logs their calls use (lane.c).  *)
(* Threads call concurrently; a crash may come at every step, and opening  *)
(* the pool again recovers one lane after another.                         *)
(*                                                                         *)
(* A list is a ring: the head has its first object, every object the next  *)
(* and the previous one of the same field.  An object is its offset, 0 is  *)
(* OID_NULL.  A redo log is applied completely or not at all, RedoLog      *)
(* shows; here it counts from the moment it is durable.  An object's       *)
(* allocation is a word of the pool that the same log changes              *)
(* (palloc_publish).  pmemobj_mutex_lock fails if os_mutex_init does.      *)
(***************************************************************************)
EXTENDS Naturals, Sequences, SequencesExt, FiniteSets

CONSTANTS Threads, NoThread,
          Heads,                 \* lists, numbered in the order of their addresses
          FieldOf,               \* pe_offset: the entry that a list uses
          Elems,                 \* objects
          Owned, Starts,         \* the objects at first, with their threads, and the lists
          nlanes, LANE_JUMP, LANE_PRIMARY_ATTEMPTS,
          NoCall, NoLane,
          Befores,               \* insert before the object named, or after it
          MaxCalls, MaxCrashes, MaxFailures     \* bounds

Lanes  == 0..(nlanes - 1)
Fields == {FieldOf[h] : h \in Heads}

ListsAssumption ==
    /\ Threads # {} /\ NoThread \notin Threads
    /\ Heads \subseteq Nat /\ Elems \subseteq Nat \ {0}
    /\ DOMAIN FieldOf = Heads
    /\ DOMAIN Owned \subseteq Elems /\ \A e \in DOMAIN Owned : Owned[e] \in Threads
    /\ nlanes \in Nat \ {0} /\ LANE_JUMP \in Nat \ {0} /\ LANE_PRIMARY_ATTEMPTS \in Nat

VARIABLES mem,           \* the words of the pool
          log, stored,   \* of each lane: the redo log, and whether it is durable
          mutex,         \* of each list: [runid, owner]
          run_id,
          lane_locks, next_lane_idx,
          info,          \* struct lane_info of each thread
          owner,         \* the thread that uses an object
          pc, call, result,
          wait, held,    \* the lists whose locks a call still takes, and holds
          obj,           \* the object of the call
          opening,       \* the lane to be recovered next; nlanes: the pool is open
          calls, crashes, failures

pool  == <<mem, log, stored>>
lanes == <<lane_locks, next_lane_idx, info>>
local == <<pc, call, result, wait, held, obj>>
count == <<calls, crashes, failures>>
vars  == <<pool, mutex, run_id, lanes, owner, local, opening, count>>

\* A word: what it is, the field of the entry it belongs to, and the object or
\* the list.
first(h) == <<"first", 1, h>>
huuid(h) == <<"huuid", 1, h>>        \* the pool's id in the OID of the head
bit(e)   == <<"bit", 1, e>>          \* in the bitmap of the heap
pe_next(e, f) == <<"next", f, e>>
pe_prev(e, f) == <<"prev", f, e>>
uuid(e, f)    == <<"uuid", f, e>>    \* the pool's id in both OIDs of the entry

At(m, w) == m[w[1]][w[2]][w[3]]
Set(w, v) == <<w, v>>

\* The words m after the entries of s, in this order.
RECURSIVE Applied(_, _)
Applied(m, s) ==
    IF s = <<>> THEN m
    ELSE LET w == s[1][1]
         IN  Applied([m EXCEPT ![w[1]][w[2]][w[3]] = s[1][2]], Tail(s))
-----------------------------------------------------------------------------
\* What the functions of list.c put into the redo log.
list_get_dest(h, dest, before) ==
    IF dest # 0 THEN dest
    ELSE IF At(mem, first(h)) = 0 \/ before THEN At(mem, first(h))
    ELSE At(mem, pe_prev(At(mem, first(h)), FieldOf[h]))

list_update_head(h, e) ==
    <<Set(first(h), e)>> \o IF At(mem, huuid(h)) = 0 THEN <<Set(huuid(h), 1)>> ELSE <<>>

\* Mutant: the head keeps an object that is removed while others remain.
RemoveKeepsHead(h, e) ==
    LET f == FieldOf[h]
        n == At(mem, pe_next(e, f))
        p == At(mem, pe_prev(e, f))
    IN  IF n = e THEN list_update_head(h, 0)
        ELSE <<Set(pe_prev(n, f), p), Set(pe_next(p, f), n)>>

list_remove_single(h, e) ==
    LET f == FieldOf[h]
        n == At(mem, pe_next(e, f))
        p == At(mem, pe_prev(e, f))
    IN  IF n = e THEN list_update_head(h, 0)
        ELSE <<Set(pe_prev(n, f), p), Set(pe_next(p, f), n)>>
             \o IF At(mem, first(h)) = e THEN list_update_head(h, n) ELSE <<>>

\* With the next and the previous object of the one inserted.
list_insert_before(dest, e, f) ==
    LET p == At(mem, pe_prev(dest, f))
    IN  [next |-> dest, prev |-> p, log |-> <<Set(pe_prev(dest, f), e), Set(pe_next(p, f), e)>>]

list_insert_after(dest, e, f) ==
    LET n == At(mem, pe_next(dest, f))
    IN  [next |-> n, prev |-> dest, log |-> <<Set(pe_next(dest, f), e), Set(pe_prev(n, f), e)>>]

list_insert_user(h, dest, before, e) ==
    LET b == list_insert_before(dest, e, FieldOf[h])
    IN  IF dest = 0 THEN [next |-> e, prev |-> e, log |-> list_update_head(h, e)]
        ELSE IF ~before THEN list_insert_after(dest, e, FieldOf[h])
        ELSE IF dest # At(mem, first(h)) THEN b
        ELSE [b EXCEPT !.log = @ \o list_update_head(h, e)]

list_fill_entry(e, f, n, p) == <<Set(pe_next(e, f), n), Set(pe_prev(e, f), p)>>

\* Mutant: an object is moved in its own list as between two lists.
MoveAlways(c) ==
    LET f   == FieldOf[c.head]
        ins == list_insert_user(c.head, list_get_dest(c.head, c.dest, c.before), c.before, c.oid)
    IN  list_remove_single(c.old, c.oid) \o ins.log
        \o list_fill_entry(c.oid, f, ins.next, ins.prev)

\* The log of list_move: neighbours in one list share words, which the changes
\* of a remove and an insert would both write.
MoveLog(c) ==
    LET f    == FieldOf[c.head]
        dest == list_get_dest(c.head, c.dest, c.before)
        ins  == list_insert_user(c.head, dest, c.before, c.oid)
        same == c.old = c.head
    IN  IF same /\ dest = c.oid THEN <<>>
        ELSE IF same /\ c.before /\ At(mem, pe_prev(dest, f)) = c.oid
             THEN IF At(mem, first(c.head)) # dest THEN <<>> ELSE list_update_head(c.head, c.oid)
        ELSE IF same /\ ~c.before /\ At(mem, pe_next(dest, f)) = c.oid
             THEN IF At(mem, first(c.head)) # c.oid THEN <<>>
                  ELSE list_update_head(c.head, At(mem, pe_next(c.oid, f)))
        ELSE list_remove_single(c.old, c.oid) \o ins.log
             \o list_fill_entry(c.oid, f, ins.next, ins.prev)
-----------------------------------------------------------------------------
\* The lists as recovery would leave them: with every log that is durable.
Lasting ==
    LET RECURSIVE Recovered(_, _)
        Recovered(m, l) == IF l = nlanes THEN m
                           ELSE Recovered(IF stored[l] THEN Applied(m, log[l]) ELSE m, l + 1)
    IN  Recovered(mem, 0)

\* The objects of list h in the words m, from the first around the ring.
Ring(m, h) ==
    LET nxt == m.next[FieldOf[h]]
        RECURSIVE From(_)
        From(s) == IF Len(s) > Cardinality(Elems) \/ nxt[s[Len(s)]] \in {0, s[1]} THEN s
                   ELSE From(Append(s, nxt[s[Len(s)]]))
    IN  IF m.first[1][h] = 0 THEN <<>> ELSE From(<<m.first[1][h]>>)

\* A pool whose lists are s.
Pool(s) ==
    LET Places(e, f) == {p \in {<<h, n>> : h \in Heads, n \in 1..Cardinality(Elems)} :
                            FieldOf[p[1]] = f /\ p[2] <= Len(s[p[1]]) /\ s[p[1]][p[2]] = e}
        Entry(Value(_, _)) ==
            [f \in Fields |-> [e \in Elems |->
                IF Places(e, f) = {} THEN 0 ELSE LET p == CHOOSE q \in Places(e, f) : TRUE
                                                 IN  Value(s[p[1]], p[2])]]
    IN  [first |-> <<[h \in Heads |-> IF s[h] = <<>> THEN 0 ELSE s[h][1]]>>,
         huuid |-> <<[h \in Heads |-> IF s[h] = <<>> THEN 0 ELSE 1]>>,
         bit |-> <<[e \in Elems |-> IF e \in DOMAIN Owned THEN 1 ELSE 0]>>,
         next |-> Entry(LAMBDA r, n : r[(n % Len(r)) + 1]),
         prev |-> Entry(LAMBDA r, n : r[((n + Len(r) - 2) % Len(r)) + 1]),
         uuid |-> Entry(LAMBDA r, n : 1)]

NoInfo == [lane_idx |-> NoLane, primary |-> 0, primary_attempts |-> LANE_PRIMARY_ATTEMPTS]

Init ==
    /\ \E s \in Starts : mem = Pool(s)
    /\ log = [l \in Lanes |-> <<>>] /\ stored = [l \in Lanes |-> FALSE]
    /\ mutex = [h \in Heads |-> [runid |-> 0, owner |-> NoThread]] /\ run_id = 2
    /\ lane_locks = [l \in Lanes |-> 0] /\ next_lane_idx = 0
    /\ info = [t \in Threads |-> NoInfo]
    /\ owner = [e \in Elems |-> IF e \in DOMAIN Owned THEN Owned[e] ELSE NoThread]
    /\ pc = [t \in Threads |-> "idle"] /\ call = [t \in Threads |-> NoCall]
    /\ result = [t \in Threads |-> "none"]
    /\ wait = [t \in Threads |-> <<>>] /\ held = [t \in Threads |-> {}]
    /\ obj = [t \in Threads |-> 0]
    /\ opening = nlanes /\ calls = 0 /\ crashes = 0 /\ failures = 0

Goto(t, label) == pc' = [pc EXCEPT ![t] = label]
LaneOf(t) == info[t].lane_idx

\* The calls that take the lock of the list before the lane.
LockFirst(t) == call[t].op \in {"insert_new", "remove_free"}

\* Mutant: the locks are taken in the order of the arguments.
LocksAsGiven(c) == IF c.op = "move" /\ c.old # c.head THEN <<c.head, c.old>> ELSE <<c.head>>

\* list_mutexes_lock: in ascending order of their addresses.
list_mutexes_lock(c) ==
    IF c.op = "move" /\ c.old # c.head
    THEN IF c.head < c.old THEN <<c.head, c.old>> ELSE <<c.old, c.head>>
    ELSE <<c.head>>

\* What a thread may ask for: it works on objects of its own, and names only
\* those as destinations; other threads cannot remove them meanwhile.
Requests(t) ==
    LET own == {e \in Elems : owner[e] = t /\ At(mem, bit(e)) = 1}
        on  == [h \in Heads |-> own \cap ToSet(Ring(mem, h))]
        OffField(h) == own \ UNION {on[g] : g \in {k \in Heads : FieldOf[k] = FieldOf[h]}}
        Calls(op, h, old, dests, befores, oids) ==
            [op : {op}, head : {h}, old : {old}, dest : dests, before : befores, oid : oids]
    IN  UNION {LET new == {0} \cup on[h]
               IN  Calls("insert", h, h, new, Befores, OffField(h))
                   \cup Calls("insert_new", h, h, new, Befores, {0})
                   \cup Calls("remove", h, h, {0}, {FALSE}, on[h])
                   \cup Calls("remove_free", h, h, {0}, {FALSE}, on[h] \ UNION {on[g] : g \in Heads \ {h}})
                   \cup Calls("move", h, h, new, Befores, on[h])
                   \cup UNION {Calls("move", h, g, new, Befores,
                                     on[g] \cap (OffField(h) \cup (IF FieldOf[g] = FieldOf[h] THEN on[g] ELSE {})))
                               : g \in Heads \ {h}}
               : h \in Heads}

Start(t) ==
    /\ opening = nlanes
    /\ pc[t] = "idle" /\ calls < MaxCalls
    /\ \E c \in Requests(t) :
          /\ call' = [call EXCEPT ![t] = c]
          /\ wait' = [wait EXCEPT ![t] = list_mutexes_lock(c)]
          /\ obj' = [obj EXCEPT ![t] = c.oid]
          /\ Goto(t, IF c.op \in {"insert_new", "remove_free"} THEN "lock" ELSE "lane")
    /\ calls' = calls + 1
    /\ UNCHANGED <<pool, mutex, run_id, lanes, owner, result, held, opening, crashes, failures>>
-----------------------------------------------------------------------------
\* A thread's first hold of the pool: the lanes at which threads start are
\* LANE_JUMP apart.
lane_hold(t) ==
    /\ pc[t] = "lane"
    /\ LET primary == IF info[t].lane_idx = NoLane THEN next_lane_idx ELSE info[t].primary
       IN  info' = [info EXCEPT ![t].lane_idx = primary % nlanes, ![t].primary = primary]
    /\ next_lane_idx' = IF info[t].lane_idx = NoLane THEN next_lane_idx + LANE_JUMP ELSE next_lane_idx
    /\ Goto(t, "get_lane")
    /\ UNCHANGED <<pool, mutex, run_id, lane_locks, owner, call, result, wait, held, obj, opening, count>>

HasLane(t) == Goto(t, IF ~LockFirst(t) THEN "lock"
                      ELSE IF call[t].op = "insert_new" THEN "reserve" ELSE "log")

\* One compare-and-swap of the lane's lock; the next lane if it is taken.
get_lane(t) ==
    /\ pc[t] = "get_lane"
    /\ LET i == info[t]
       IN  \/ /\ lane_locks[i.lane_idx] = 0
              /\ lane_locks' = [lane_locks EXCEPT ![i.lane_idx] = 1]
              /\ info' = [info EXCEPT ![t] =
                    IF i.lane_idx = i.primary \/ i.primary_attempts = 0
                    THEN [i EXCEPT !.primary = i.lane_idx, !.primary_attempts = LANE_PRIMARY_ATTEMPTS]
                    ELSE i]
              /\ HasLane(t)
           \/ /\ lane_locks[i.lane_idx] = 1
              /\ info' = [info EXCEPT ![t] =
                    [i EXCEPT !.lane_idx = (@ + 1) % nlanes,
                              !.primary_attempts = IF i.lane_idx = i.primary /\ @ > 0 THEN @ - 1 ELSE @]]
              /\ UNCHANGED <<lane_locks, pc>>
    /\ UNCHANGED <<pool, mutex, run_id, next_lane_idx, owner, call, result, wait, held, obj, opening, count>>

Returned(t) ==
    /\ call' = [call EXCEPT ![t] = NoCall] /\ result' = [result EXCEPT ![t] = "none"]
    /\ obj' = [obj EXCEPT ![t] = 0]
    /\ Goto(t, "idle")

lane_release(t) ==
    /\ pc[t] = "release"
    /\ lane_locks' = [lane_locks EXCEPT ![LaneOf(t)] = 0]
    /\ IF LockFirst(t) THEN Goto(t, "unlock") /\ UNCHANGED <<call, result, obj>> ELSE Returned(t)
    /\ UNCHANGED <<pool, mutex, run_id, next_lane_idx, info, owner, wait, held, opening, count>>

\* What follows when the lock of the next list could not be had: what was
\* locked is unlocked, and a lane released.
LockFailed(t) ==
    /\ wait' = [wait EXCEPT ![t] = <<>>]
    /\ failures' = failures + 1
    /\ result' = [result EXCEPT ![t] = "failed"]
    /\ Goto(t, IF held[t] # {} THEN "unlock" ELSE IF LockFirst(t) THEN "return" ELSE "release")

\* _get_value: the first who finds a lock of an earlier run initialises it.
ClaimMutex(t) ==
    /\ pc[t] = "lock"
    /\ LET h == Head(wait[t])
       IN  /\ mutex[h].runid \notin {run_id, run_id - 1}
           /\ mutex' = [mutex EXCEPT ![h].runid = run_id - 1]
    /\ Goto(t, "init")
    /\ UNCHANGED <<pool, run_id, lanes, owner, call, result, wait, held, obj, opening, count>>

InitMutex(t) ==
    /\ pc[t] = "init"
    /\ LET h == Head(wait[t])
       IN  \/ /\ mutex' = [mutex EXCEPT ![h] = [runid |-> run_id, owner |-> NoThread]]
              /\ Goto(t, "lock")
              /\ UNCHANGED <<result, wait, failures>>
           \/ /\ failures < MaxFailures
              /\ mutex' = [mutex EXCEPT ![h].runid = 0]
              /\ LockFailed(t)
    /\ UNCHANGED <<pool, run_id, lanes, owner, call, held, obj, opening, calls, crashes>>

pmemobj_mutex_lock(t) ==
    /\ pc[t] = "lock"
    /\ LET h == Head(wait[t])
       IN  /\ mutex[h] = [runid |-> run_id, owner |-> NoThread]
           /\ mutex' = [mutex EXCEPT ![h].owner = t]
           /\ held' = [held EXCEPT ![t] = @ \cup {h}]
           /\ wait' = [wait EXCEPT ![t] = Tail(@)]
           /\ Goto(t, IF Len(wait[t]) > 1 THEN "lock" ELSE IF LockFirst(t) THEN "lane" ELSE "log")
    /\ UNCHANGED <<pool, run_id, lanes, owner, call, result, obj, opening, count>>

\* list_mutexes_unlock, and the unlocking of the one lock of the other calls.
pmemobj_mutex_unlock(t) ==
    /\ pc[t] = "unlock"
    /\ LET h == IF call[t].head \in held[t] THEN call[t].head ELSE call[t].old
       IN  /\ mutex' = [mutex EXCEPT ![h].owner = NoThread]
           /\ held' = [held EXCEPT ![t] = @ \ {h}]
           /\ Goto(t, IF held[t] # {h} THEN "unlock" ELSE IF LockFirst(t) THEN "return" ELSE "release")
    /\ UNCHANGED <<pool, run_id, lanes, owner, call, result, wait, obj, opening, count>>
-----------------------------------------------------------------------------
Reserves(t, e) == call[t] # NoCall /\ call[t].op = "insert_new" /\ obj[t] = e

\* The heap reserves an object that is free and that no other call has.
palloc_reserve(t) ==
    /\ pc[t] = "reserve"
    /\ \/ \E e \in Elems :
             /\ At(mem, bit(e)) = 0 /\ \A u \in Threads : ~Reserves(u, e)
             /\ obj' = [obj EXCEPT ![t] = e] /\ owner' = [owner EXCEPT ![e] = t]
             /\ Goto(t, "log")
             /\ UNCHANGED <<result, failures>>
       \/ /\ failures < MaxFailures /\ failures' = failures + 1
          /\ result' = [result EXCEPT ![t] = "failed"]
          /\ Goto(t, "release")
          /\ UNCHANGED <<obj, owner>>
    /\ UNCHANGED <<pool, mutex, run_id, lanes, call, wait, held, opening, calls, crashes>>

\* What a call puts into the log of its lane, and what it writes beforehand to
\* words that no list has yet: the entry of a new object, the pool's id in an
\* entry that comes into use.  The object id that insert_new returns and
\* remove_free clears is a variable of pmemobj_list_insert_new or a parameter of
\* pmemobj_list_remove, never in the pool: it has no entry in the log.
Prepared(c, e) ==
    LET f   == FieldOf[c.head]
        ins == list_insert_user(c.head, list_get_dest(c.head, c.dest, c.before), c.before, e)
    IN  CASE c.op = "insert" ->
               [log |-> ins.log \o list_fill_entry(e, f, ins.next, ins.prev), now |-> <<Set(uuid(e, f), 1)>>]
          [] c.op = "insert_new" ->
               [log |-> Append(ins.log, Set(bit(e), 1)),
                now |-> Append(list_fill_entry(e, f, ins.next, ins.prev), Set(uuid(e, f), 1))]
          [] c.op = "remove" ->
               [log |-> list_remove_single(c.head, e) \o list_fill_entry(e, f, 0, 0), now |-> <<>>]
          [] c.op = "remove_free" ->
               [log |-> Append(list_remove_single(c.head, e), Set(bit(e), 0)), now |-> <<>>]
          [] c.op = "move" ->
               [log |-> MoveLog(c), now |-> IF FieldOf[c.old] # f THEN <<Set(uuid(e, f), 1)>> ELSE <<>>]

FillLog(t) ==
    /\ pc[t] = "log"
    /\ LET p == Prepared(call[t], obj[t])
       IN  /\ log' = [log EXCEPT ![LaneOf(t)] = p.log]
           /\ mem' = Applied(mem, p.now)
    /\ Goto(t, "store")
    /\ UNCHANGED <<stored, mutex, run_id, lanes, owner, call, result, wait, held, obj, opening, count>>

\* operation_process: the log is made durable ...
StoreLog(t) ==
    /\ pc[t] = "store"
    /\ stored' = [stored EXCEPT ![LaneOf(t)] = TRUE]
    /\ result' = [result EXCEPT ![t] = "ok"]
    /\ Goto(t, "process")
    /\ UNCHANGED <<mem, log, mutex, run_id, lanes, owner, call, wait, held, obj, opening, count>>

\* ... applied, and invalidated.
operation_process(t) ==
    /\ pc[t] = "process"
    /\ mem' = Applied(mem, log[LaneOf(t)])
    /\ stored' = [stored EXCEPT ![LaneOf(t)] = FALSE]
    /\ log' = [log EXCEPT ![LaneOf(t)] = <<>>]
    /\ Goto(t, IF LockFirst(t) THEN "release" ELSE "unlock")
    /\ UNCHANGED <<mutex, run_id, lanes, owner, call, result, wait, held, obj, opening, count>>

Return(t) ==
    /\ pc[t] = "return"
    /\ Returned(t)
    /\ UNCHANGED <<pool, mutex, run_id, lanes, owner, wait, held, opening, count>>
-----------------------------------------------------------------------------
\* What is left are the words of the pool, the logs that are durable and the
\* locks as they were.  The next run has another number.
Crash ==
    /\ crashes < MaxCrashes /\ crashes' = crashes + 1
    /\ log' = [l \in Lanes |-> IF stored[l] THEN log[l] ELSE <<>>]
    /\ lane_locks' = [l \in Lanes |-> 0] /\ next_lane_idx' = 0
    /\ info' = [t \in Threads |-> NoInfo]
    /\ run_id' = run_id + 2
    /\ pc' = [t \in Threads |-> "idle"] /\ call' = [t \in Threads |-> NoCall]
    /\ result' = [t \in Threads |-> "none"]
    /\ wait' = [t \in Threads |-> <<>>] /\ held' = [t \in Threads |-> {}]
    /\ obj' = [t \in Threads |-> 0]
    /\ opening' = 0
    /\ UNCHANGED <<mem, stored, mutex, owner, calls, failures>>

\* The external redo log of one lane.
lane_recover_and_section_boot ==
    /\ opening < nlanes
    /\ mem' = IF stored[opening] THEN Applied(mem, log[opening]) ELSE mem
    /\ stored' = [stored EXCEPT ![opening] = FALSE] /\ log' = [log EXCEPT ![opening] = <<>>]
    /\ opening' = opening + 1
    /\ UNCHANGED <<mutex, run_id, lanes, owner, local, count>>

Next ==
    \/ \E t \in Threads :
          \/ Start(t) \/ lane_hold(t) \/ get_lane(t) \/ lane_release(t)
          \/ ClaimMutex(t) \/ InitMutex(t) \/ pmemobj_mutex_lock(t) \/ pmemobj_mutex_unlock(t)
          \/ palloc_reserve(t) \/ FillLog(t) \/ StoreLog(t) \/ operation_process(t) \/ Return(t)
    \/ Crash \/ lane_recover_and_section_boot

Spec == Init /\ [][Next]_vars
-----------------------------------------------------------------------------
\* Threads that hold a lane.
HoldsLane(t) ==
    \/ pc[t] \in {"reserve", "log", "store", "process", "release"}
    \/ pc[t] \in {"lock", "init", "unlock"} /\ ~LockFirst(t)

Blocked(t) ==
    \/ pc[t] = "lock" /\ LET m == mutex[Head(wait[t])]
                         IN  m.runid = run_id - 1 \/ (m.runid = run_id /\ m.owner # NoThread)
    \/ pc[t] = "get_lane" /\ \A l \in Lanes : lane_locks[l] = 1

TypeOK ==
    /\ \A name \in DOMAIN mem, f \in Fields :
          f \in DOMAIN mem[name] => \A a \in DOMAIN mem[name][f] : mem[name][f][a] \in Elems \cup {0, 1}
    /\ \A h \in Heads : mutex[h].owner \in Threads \cup {NoThread} /\ mutex[h].runid <= run_id
    /\ \A t \in Threads : info[t].lane_idx \in Lanes \cup {NoLane} /\ held[t] \subseteq Heads

\* As recovery would leave them the lists are rings, in both directions, of
\* allocated objects; none is on two lists of one field, every OID has the id
\* of the pool.
ListsIntact ==
    LET m == Lasting
        R == [h \in Heads |-> Ring(m, h)]
    IN  \A h \in Heads :
          LET r == R[h]  f == FieldOf[h]
          IN  /\ r # <<>> => At(m, huuid(h)) = 1
              /\ \A n \in DOMAIN r :
                    /\ At(m, bit(r[n])) = 1 /\ At(m, uuid(r[n], f)) = 1
                    /\ At(m, pe_next(r[n], f)) = r[(n % Len(r)) + 1]
                    /\ At(m, pe_prev(r[(n % Len(r)) + 1], f)) = r[n]
                    /\ \A g \in Heads : FieldOf[g] = f =>
                          \A k \in DOMAIN R[g] : R[g][k] = r[n] => g = h /\ k = n

\* No two threads have a lane or a list at a time, whatever the crash before
\* left in the words of a lock; a lane is locked if and only if a thread has it.
Exclusive ==
    /\ \A t, u \in Threads :
          t # u => /\ held[t] \cap held[u] = {}
                   /\ HoldsLane(t) /\ HoldsLane(u) => LaneOf(t) # LaneOf(u)
    /\ opening = nlanes =>
          \A l \in Lanes : lane_locks[l] = 1 <=> \E t \in Threads : HoldsLane(t) /\ LaneOf(t) = l

\* Some thread that is in a call can always go on.
NoDeadlock ==
    (\E t \in Threads : pc[t] # "idle") => \E t \in Threads : pc[t] # "idle" /\ ~Blocked(t)

LastingLists == CHOOSE r \in {[h \in Heads |-> Ring(m, h)] : m \in {Lasting}} : TRUE
LastingObjs == UNION {{e \in Elems : At(m, bit(e)) = 1} : m \in {Lasting}}

AL == INSTANCE AtomicLists WITH lists <- LastingLists, objs <- LastingObjs

\* The lists are sequences that calls change at one instant.
ImplementsAtomicLists == AL!Spec
=============================================================================
