------------------------ MODULE ParallelEngineProofs ------------------------
(***************************************************************************)
(* The inductive invariant of ParallelEngine, for any number of workers    *)
(* and tasks, and what it gives: the pool's counts are exact and no worker *)
(* is stranded, the epilogue misses no result, and the pool implements     *)
(* TaskPool.                                                               *)
(*                                                                         *)
(* The argument is about the order of the queue: the Nones of the barrier  *)
(* are put behind all tasks, there is one for each worker, and a worker    *)
(* that took one waits until all did.  So no worker takes two, and when    *)
(* all have arrived no task is queued and none is being run.               *)
(***************************************************************************)
EXTENDS ParallelEngine, FiniteSetTheorems, TLAPS

N == Cardinality(Workers)

\* The queue holds tasks, then the Nones that no worker has taken.  Each worker
\* takes one None, after which it is never given a task again.
QueueInv ==
    \E k \in 0..Len(queue) :
        /\ \A i \in 1..k : queue[i] \in Tasks
        /\ \A i \in (k + 1)..Len(queue) : queue[i] = None
        /\ Len(queue) - k + Cardinality(arrived) = puts
        /\ arrived # {} => k = 0

\* Where the workers are that have and that have not taken their None, and what
\* they hold.
WorkerInv ==
    \A w \in Workers :
        /\ w \in arrived => /\ wpc[w] \in {"barrier", "notify", "task_done", "loop", "poll", "stopped"}
                            /\ wpc[w] = "barrier" \/ arrived = Workers
        /\ w \notin arrived => wpc[w] \in {"loop", "poll", "get", "exec", "task_done"}
        /\ wpc[w] \in {"loop", "poll", "get", "stopped"} => job[w] = Nothing
        /\ wpc[w] = "exec" => job[w] \in Tasks \ finished
        /\ wpc[w] \in {"barrier", "notify"} => job[w] = None
        /\ wpc[w] = "task_done" => job[w] \in finished \cup {None}
        /\ wpc[w] = "stopped" => srv \in {"stop", "exit"}

\* A task that was sent is in one place: in a message, in the queue, with a
\* worker, or finished.
Accounted ==
    \A t \in sent : \/ t \in finished
                    \/ \E i \in DOMAIN backlog : backlog[i] = t
                    \/ \E i \in DOMAIN queue : queue[i] = t
                    \/ \E w \in Workers : job[w] = t

PlaceInv ==
    /\ \A i, j \in DOMAIN backlog : backlog[i] = backlog[j] => i = j
    /\ \A i, j \in DOMAIN queue : queue[i] = queue[j] /\ queue[i] # None => i = j
    /\ \A i \in DOMAIN backlog : backlog[i] \in Tasks =>
          /\ backlog[i] \in sent \ finished
          /\ \A j \in DOMAIN queue : queue[j] # backlog[i]
          /\ \A w \in Workers : job[w] # backlog[i]
    /\ \A i \in DOMAIN queue : queue[i] \in Tasks =>
          /\ queue[i] \in sent \ finished
          /\ \A w \in Workers : job[w] # queue[i]
    /\ \A w \in Workers : job[w] \in Tasks => job[w] \in sent
    /\ \A w, v \in Workers : job[w] = job[v] /\ job[w] \in Tasks => w = v
    /\ finished \subseteq sent

\* How far the client is, and with it the server.
ClientInv ==
    /\ cpc = "dispatch" => /\ \A i \in DOMAIN backlog : backlog[i] \in Tasks
                           /\ srv = "accept" /\ puts = 0 /\ ~reply
    /\ cpc # "dispatch" => sent = Tasks
    /\ cpc = "wait" =>
          \/ /\ srv = "accept" /\ puts = 0 /\ ~reply /\ backlog # <<>>
             /\ backlog[Len(backlog)] = "Barrier"
             /\ \A i \in 1..(Len(backlog) - 1) : backlog[i] \in Tasks
          \/ /\ backlog = <<>> /\ ~reply
             /\ \/ srv = "put"
                \/ srv = "wait" /\ puts = N
                \/ srv = "woken" /\ arrived = Workers
          \/ backlog = <<>> /\ srv = "accept" /\ reply /\ arrived = Workers
    /\ cpc = "epilogue" => backlog = <<>> /\ srv = "accept" /\ reply /\ arrived = Workers
    /\ cpc = "quit" =>
          /\ arrived = Workers
          /\ \/ srv = "accept" /\ backlog = <<"Quit">>
             \/ srv \in {"join", "stop", "exit"} /\ backlog = <<>>
    /\ srv \in {"stop", "exit"} => unfinished = 0
    /\ stop # {} => srv \in {"stop", "exit"}
    /\ results \subseteq finished
    /\ collected = results \cap examined
    /\ cpc \in {"dispatch", "wait"} => examined = {}

PoolInv ==
    /\ TypeOK /\ UnfinishedExact /\ QueueInv /\ WorkerInv
    /\ PlaceInv /\ Accounted /\ ClientInv
-----------------------------------------------------------------------------
\* Most leaves are first-order; SMT is named where one needs arithmetic, functions
\* or records.
USE Zenon

\* How many workers there are, and that all have arrived when as many have.
LEMMA WorkerCount ==
    /\ N \in Nat \ {0}
    /\ \A S \in SUBSET Workers : /\ IsFiniteSet(S) /\ Cardinality(S) \in 0..N
                                 /\ Cardinality(S) = N => S = Workers
<1>1. N \in Nat \ {0}
    BY PoolAssumption, FS_CardinalityType, FS_EmptySet DEF N
<1>2. ASSUME NEW S \in SUBSET Workers
      PROVE  /\ IsFiniteSet(S) /\ Cardinality(S) \in 0..N
             /\ Cardinality(S) = N => S = Workers
    <2>1. /\ IsFiniteSet(S) /\ Cardinality(S) <= N
          /\ Cardinality(S) = N => S = Workers
        BY PoolAssumption, FS_Subset DEF N
    <2>2. Cardinality(S) \in Nat
        BY <2>1, FS_CardinalityType
    <2> QED  BY <1>1, <2>1, <2>2, SMT
<1> QED  BY <1>1, <1>2

\* Before the pool is asked to wait no worker has been given a None; a None is
\* taken by a worker that has not arrived, and is followed by Nones only; once
\* all have arrived the queue is empty.
LEMMA QueueFacts ==
    ASSUME TypeOK, QueueInv
    PROVE  /\ puts = 0 => arrived = {} /\ \A i \in DOMAIN queue : queue[i] \in Tasks
           /\ arrived = Workers => queue = <<>> /\ puts = N
           /\ arrived # {} => \A i \in DOMAIN queue : queue[i] = None
           /\ queue # <<>> /\ Head(queue) = None =>
                 arrived # Workers /\ \A i \in DOMAIN queue : queue[i] = None
<1>1. PICK k \in 0..Len(queue) :
          /\ \A i \in 1..k : queue[i] \in Tasks
          /\ \A i \in (k + 1)..Len(queue) : queue[i] = None
          /\ Len(queue) - k + Cardinality(arrived) = puts
          /\ arrived # {} => k = 0
    BY DEF QueueInv
<1>2. /\ queue \in Seq(Tasks \cup {None}) /\ Len(queue) \in Nat /\ DOMAIN queue = 1..Len(queue)
      /\ puts \in 0..N /\ N \in Nat \ {0} /\ Cardinality(arrived) \in 0..N
    BY WorkerCount, SMT DEF TypeOK, N
<1>3. puts = 0 => arrived = {} /\ \A i \in DOMAIN queue : queue[i] \in Tasks
    <2>1. Len(queue) - k + Cardinality(arrived) = puts /\ k \in 0..Len(queue)
        BY <1>1
    <2>2. Len(queue) \in Nat /\ Cardinality(arrived) \in Nat
        BY <1>2, SMT
    <2>3. puts = 0 => Cardinality(arrived) = 0 /\ k = Len(queue)
        BY <2>1, <2>2, SMT
    <2>4. Cardinality(arrived) = 0 => arrived = {}
        BY WorkerCount, FS_EmptySet DEF TypeOK
    <2> QED  BY <1>1, <1>2, <2>3, <2>4
<1>4. arrived = Workers => queue = <<>> /\ puts = N
    <2>1. arrived = Workers => k = 0 /\ Cardinality(arrived) = N
        BY <1>1, PoolAssumption DEF N
    <2>2. arrived = Workers => Len(queue) = 0 /\ puts = N
        BY <1>1, <1>2, <2>1, SMT
    <2> QED  BY <1>2, <2>2, SMT
<1>5. arrived # {} => \A i \in DOMAIN queue : queue[i] = None
    BY <1>1, <1>2, SMT
<1>6. ASSUME queue # <<>>, Head(queue) = None
      PROVE  arrived # Workers /\ \A i \in DOMAIN queue : queue[i] = None
    <2>1. 1 \in 1..Len(queue) /\ queue[1] = None
        BY <1>2, <1>6, SMT
    <2>2. k = 0
        BY <1>1, <1>2, <2>1, PoolAssumption, SMT
    <2> QED  BY <1>1, <1>2, <1>4, <1>6, <2>2, SMT
<1> QED  BY <1>3, <1>4, <1>5, <1>6

LEMMA InitPoolInv == Init => PoolInv
<1> SUFFICES ASSUME Init PROVE PoolInv
    OBVIOUS
<1> USE DEF Init, InitPool
<1>1. TypeOK
    <2>1. puts \in 0..Cardinality(Workers)
        BY WorkerCount, SMT DEF N
    <2>2. wpc \in [Workers -> {"loop", "poll", "get", "exec", "barrier", "notify",
                              "task_done", "stopped"}]
        OBVIOUS
    <2>3. job \in [Workers -> Tasks \cup {None, Nothing}]
        OBVIOUS
    <2>4. reply \in BOOLEAN
        OBVIOUS
    <2>5. backlog \in Seq(Tasks \cup {"Barrier", "Quit"}) /\ queue \in Seq(Tasks \cup {None})
        BY SMT
    <2> QED  BY <2>1, <2>2, <2>3, <2>4, <2>5 DEF TypeOK
<1>2. UnfinishedExact
    <2>1. Holding = {}
        BY DEF Holding
    <2> QED  BY <2>1, FS_EmptySet, SMT DEF UnfinishedExact
<1>3. QueueInv
    BY FS_EmptySet, SMT DEF QueueInv
<1>4. WorkerInv /\ PlaceInv /\ Accounted /\ ClientInv
    BY PoolAssumption, SMT DEF WorkerInv, PlaceInv, Accounted, ClientInv
<1> QED  BY <1>1, <1>2, <1>3, <1>4 DEF PoolInv

\* A message is added at the end of the backlog.
LEMMA Sending ==
    ASSUME TypeOK, NEW m \in Tasks \cup {"Barrier", "Quit"}, backlog' = Append(backlog, m)
    PROVE  /\ backlog' \in Seq(Tasks \cup {"Barrier", "Quit"})
           /\ Len(backlog') = Len(backlog) + 1 /\ Len(backlog) \in Nat
           /\ DOMAIN backlog = 1..Len(backlog) /\ DOMAIN backlog' = 1..(Len(backlog) + 1)
           /\ \A i \in DOMAIN backlog : backlog'[i] = backlog[i]
           /\ backlog'[Len(backlog) + 1] = m
    BY SMT DEF TypeOK

LEMMA ClientPreserves == ASSUME PoolInv, Client PROVE PoolInv'
<1> USE DEF PoolInv
<1>1. ASSUME NEW t \in Tasks, threadPoolDispatchTask(t) PROVE PoolInv'
    <2> USE <1>1 DEF threadPoolDispatchTask, serverVars, workerVars
    <2>1. TypeOK'
        BY Sending DEF TypeOK
    <2>2. UnfinishedExact' /\ QueueInv' /\ WorkerInv'
        BY DEF UnfinishedExact, Holding, QueueInv, WorkerInv
    <2>3. PlaceInv'
        BY Sending, SMT DEF PlaceInv
    <2>5. Accounted'
        <3>1. /\ \A i \in DOMAIN backlog : i \in DOMAIN backlog' /\ backlog'[i] = backlog[i]
              /\ \E i \in DOMAIN backlog' : backlog'[i] = t
            BY Sending, SMT
        <3> QED  BY <3>1, SMT DEF Accounted
    <2>4. ClientInv'
        BY Sending, SMT DEF ClientInv
    <2> QED  BY <2>1, <2>2, <2>3, <2>4, <2>5
<1>2. CASE threadPoolWait
    <2> USE <1>2 DEF threadPoolWait, serverVars, workerVars
    <2>1. TypeOK'
        BY Sending DEF TypeOK
    <2>2. UnfinishedExact' /\ QueueInv' /\ WorkerInv'
        BY DEF UnfinishedExact, Holding, QueueInv, WorkerInv
    <2>3. PlaceInv'
        BY Sending, PoolAssumption, SMT DEF PlaceInv, ClientInv
    <2>5. Accounted'
        <3>1. \A i \in DOMAIN backlog : i \in DOMAIN backlog' /\ backlog'[i] = backlog[i]
            BY Sending, SMT
        <3> QED  BY <3>1, SMT DEF Accounted
    <2>4. ClientInv'
        BY Sending, SMT DEF ClientInv
    <2> QED  BY <2>1, <2>2, <2>3, <2>4, <2>5
<1>3. CASE WaitReturns
    <2> USE <1>3 DEF WaitReturns, poolVars, serverVars, workerVars
    <2>1. TypeOK' /\ UnfinishedExact' /\ QueueInv' /\ WorkerInv'
        BY DEF TypeOK, UnfinishedExact, Holding, QueueInv, WorkerInv
    <2>2. PlaceInv' /\ ClientInv'
        BY DEF PlaceInv, ClientInv
    <2>3. Accounted'
        BY DEF Accounted
    <2> QED  BY <2>1, <2>2, <2>3
<1>4. ASSUME NEW t \in Tasks, epilogue(t) PROVE PoolInv'
    <2> USE <1>4 DEF epilogue, poolVars, serverVars, workerVars
    <2>1. TypeOK' /\ UnfinishedExact' /\ QueueInv' /\ WorkerInv'
        BY DEF TypeOK, UnfinishedExact, Holding, QueueInv, WorkerInv
    <2>2. PlaceInv' /\ ClientInv'
        BY SMT DEF PlaceInv, ClientInv
    <2>3. Accounted'
        BY DEF Accounted
    <2> QED  BY <2>1, <2>2, <2>3
<1>5. CASE threadPoolQuit
    <2> USE <1>5 DEF threadPoolQuit, serverVars, workerVars
    <2>1. TypeOK'
        BY Sending DEF TypeOK
    <2>2. UnfinishedExact' /\ QueueInv' /\ WorkerInv'
        BY DEF UnfinishedExact, Holding, QueueInv, WorkerInv
    <2>3. backlog' = <<"Quit">>
        BY SMT DEF ClientInv, TypeOK
    <2>4. PlaceInv'
        BY <2>3, PoolAssumption, SMT DEF PlaceInv, ClientInv
    <2>6. Accounted'
        <3>1. DOMAIN backlog = {}
            BY SMT DEF ClientInv
        <3> QED  BY <3>1 DEF Accounted
    <2>5. ClientInv'
        BY <2>3 DEF ClientInv
    <2> QED  BY <2>1, <2>2, <2>4, <2>5, <2>6
<1> QED  BY <1>1, <1>2, <1>3, <1>4, <1>5 DEF Client

\* The oldest message is taken from the backlog.
LEMMA Receiving ==
    ASSUME TypeOK, backlog # <<>>, backlog' = Tail(backlog)
    PROVE  /\ backlog' \in Seq(Tasks \cup {"Barrier", "Quit"})
           /\ Len(backlog) \in Nat \ {0} /\ Len(backlog') = Len(backlog) - 1
           /\ DOMAIN backlog = 1..Len(backlog) /\ DOMAIN backlog' = 1..(Len(backlog) - 1)
           /\ \A i \in DOMAIN backlog' : backlog'[i] = backlog[i + 1]
           /\ Head(backlog) = backlog[1]
    BY SMT DEF TypeOK

\* An entry is put at the end of the queue.
LEMMA Putting ==
    ASSUME TypeOK, NEW x \in Tasks \cup {None}, Put(x)
    PROVE  /\ queue' \in Seq(Tasks \cup {None})
           /\ Len(queue') = Len(queue) + 1 /\ Len(queue) \in Nat
           /\ DOMAIN queue = 1..Len(queue) /\ DOMAIN queue' = 1..(Len(queue) + 1)
           /\ \A i \in DOMAIN queue : queue'[i] = queue[i]
           /\ queue'[Len(queue) + 1] = x
           /\ unfinished' = unfinished + 1
    BY SMT DEF TypeOK, Put

LEMMA AcceptPreserves == ASSUME PoolInv, Accept, UNCHANGED <<clientVars, results>> PROVE PoolInv'
<1> USE DEF PoolInv, clientVars
<1>1. /\ srv = "accept" /\ backlog # <<>> /\ backlog' = Tail(backlog)
      /\ UNCHANGED <<reply, stop, wpc, job, arrived, finished>>
    BY DEF Accept, workerVars
<1>2. CASE Head(backlog) \in Tasks
    <2>1. Put(Head(backlog)) /\ UNCHANGED <<srv, puts>>
        BY <1>2, PoolAssumption DEF Accept
    <2>2. cpc \in {"dispatch", "wait"} /\ puts = 0 /\ ~reply
        BY <1>1, <1>2, Receiving, PoolAssumption, SMT DEF ClientInv, TypeOK
    <2>3. TypeOK'
        BY <1>1, <1>2, <2>1, Receiving, Putting, SMT DEF TypeOK
    <2>4. UnfinishedExact'
        <3>1. Holding' = Holding /\ IsFiniteSet(Holding)
            BY <1>1, WorkerCount DEF Holding
        <3>2. Cardinality(Holding) \in Nat
            BY <3>1, FS_CardinalityType
        <3> QED  BY <1>2, <2>1, <3>1, <3>2, Putting, SMT DEF UnfinishedExact, TypeOK
    <2>5. QueueInv'
        <3>1. arrived = {} /\ \A i \in DOMAIN queue : queue[i] \in Tasks
            BY <2>2, QueueFacts
        <3>2. Cardinality(arrived) = 0
            BY <3>1, FS_EmptySet
        <3>3. Len(queue') \in Nat /\ \A i \in 1..Len(queue') : queue'[i] \in Tasks
            BY <1>2, <2>1, <3>1, Putting, SMT
        <3>4. Len(queue') - Len(queue') + Cardinality(arrived') = puts'
            BY <1>1, <2>1, <2>2, <3>2, <3>3, SMT
        <3>5. Len(queue') \in 0..Len(queue') /\ \A i \in (Len(queue') + 1)..Len(queue') : queue'[i] = None
            BY <3>3, SMT
        <3> QED  BY <1>1, <3>1, <3>3, <3>4, <3>5 DEF QueueInv
    <2>6. WorkerInv'
        BY <1>1, <2>1 DEF WorkerInv
    <2>7. PlaceInv'
        <3>1. /\ \A i, j \in DOMAIN backlog' : backlog'[i] = backlog'[j] => i = j
              /\ \A i \in DOMAIN backlog' : i + 1 \in DOMAIN backlog /\ i + 1 # 1
            BY <1>1, Receiving, SMT DEF PlaceInv
        <3>2. \A i \in DOMAIN backlog' : backlog'[i] # Head(backlog)
            BY <1>1, <3>1, Receiving, SMT DEF PlaceInv
        <3>3. \A i, j \in DOMAIN queue' : queue'[i] = queue'[j] /\ queue'[i] # None => i = j
            BY <1>1, <1>2, <2>1, Receiving, Putting, SMT DEF PlaceInv
        <3>4. \A i \in DOMAIN backlog' : backlog'[i] \in Tasks =>
                 /\ backlog'[i] \in sent' \ finished'
                 /\ \A j \in DOMAIN queue' : queue'[j] # backlog'[i]
                 /\ \A w \in Workers : job'[w] # backlog'[i]
            BY <1>1, <1>2, <2>1, <3>1, <3>2, Receiving, Putting, SMT DEF PlaceInv
        <3>5. \A i \in DOMAIN queue' : queue'[i] \in Tasks =>
                 /\ queue'[i] \in sent' \ finished'
                 /\ \A w \in Workers : job'[w] # queue'[i]
            BY <1>1, <1>2, <2>1, Receiving, Putting, SMT DEF PlaceInv
        <3> QED  BY <1>1, <3>1, <3>3, <3>4, <3>5 DEF PlaceInv
    <2>9. Accounted'
        <3> SUFFICES ASSUME NEW t \in sent, NEW i \in DOMAIN backlog, backlog[i] = t
                     PROVE  \/ \E j \in DOMAIN backlog' : backlog'[j] = t
                            \/ \E j \in DOMAIN queue' : queue'[j] = t
            <4>1. \A j \in DOMAIN queue : j \in DOMAIN queue' /\ queue'[j] = queue[j]
                BY <1>2, <2>1, Putting, SMT
            <4> QED  BY <1>1, <4>1 DEF Accounted, clientVars
        <3>1. CASE i = 1
            BY <1>1, <1>2, <2>1, <3>1, Receiving, Putting, SMT
        <3>2. CASE i # 1
            <4>1. i - 1 \in DOMAIN backlog' /\ backlog'[i - 1] = backlog[i]
                BY <1>1, <3>2, Receiving, SMT
            <4> QED  BY <4>1
        <3> QED  BY <3>1, <3>2
    <2>8. ClientInv'
        <3>1. cpc = "dispatch" => \A i \in DOMAIN backlog' : backlog'[i] \in Tasks
            BY <1>1, Receiving, SMT DEF ClientInv
        <3>2. ASSUME cpc = "wait"
              PROVE  /\ backlog' # <<>> /\ backlog'[Len(backlog')] = "Barrier"
                     /\ \A i \in 1..(Len(backlog') - 1) : backlog'[i] \in Tasks
            <4>1. /\ backlog[Len(backlog)] = "Barrier"
                  /\ \A i \in 1..(Len(backlog) - 1) : backlog[i] \in Tasks
                BY <1>1, <2>2, <3>2 DEF ClientInv
            <4>2. Len(backlog) # 1
                BY <1>1, <1>2, <4>1, Receiving, PoolAssumption
            <4>3. /\ Len(backlog') = Len(backlog) - 1 /\ Len(backlog') \in Nat \ {0}
                  /\ \A i \in 1..Len(backlog') : backlog'[i] = backlog[i + 1]
                BY <1>1, <4>2, Receiving, SMT
            <4>4. backlog'[Len(backlog')] = backlog[Len(backlog)] /\ Len(backlog) \in Nat
                BY <1>1, <4>3, Receiving, SMT
            <4>5. \A i \in 1..(Len(backlog') - 1) : backlog'[i] = backlog[i + 1] /\ i + 1 \in 1..(Len(backlog) - 1)
                BY <4>3, <4>4, SMT
            <4> QED  BY <4>1, <4>3, <4>4, <4>5, SMT
        <3> QED  BY <1>1, <2>1, <2>2, <3>1, <3>2 DEF ClientInv
    <2> QED  BY <2>3, <2>4, <2>5, <2>6, <2>7, <2>8, <2>9
<1>3. CASE Head(backlog) = "Barrier"
    <2>1. srv' = "put" /\ puts' = 0 /\ UNCHANGED <<queue, unfinished>>
        BY <1>3, PoolAssumption DEF Accept
    <2>2. cpc = "wait" /\ puts = 0 /\ ~reply /\ Len(backlog) = 1
        <3>1. 1 \in DOMAIN backlog /\ backlog[1] = "Barrier" /\ backlog[1] \notin Tasks
            BY <1>1, <1>3, Receiving, PoolAssumption, SMT
        <3>2. cpc = "wait"
            BY <1>1, <3>1, SMT DEF ClientInv, TypeOK
        <3>3. puts = 0 /\ ~reply /\ \A i \in 1..(Len(backlog) - 1) : backlog[i] \in Tasks
            BY <1>1, <3>2 DEF ClientInv
        <3> QED  BY <1>1, <3>1, <3>2, <3>3, Receiving, SMT
    <2>3. backlog' = <<>>
        BY <1>1, <2>2, SMT DEF TypeOK
    <2>4. TypeOK'
        BY <1>1, <2>1, <2>2, <2>3, Receiving DEF TypeOK
    <2>5. UnfinishedExact' /\ QueueInv'
        BY <1>1, <2>1, <2>2 DEF UnfinishedExact, Holding, QueueInv
    <2>6. WorkerInv'
        BY <1>1, <2>1 DEF WorkerInv
    <2>7. PlaceInv' /\ Accounted'
        <3>1. \A i \in DOMAIN backlog : backlog[i] \notin Tasks
            BY <1>1, <1>3, <2>2, Receiving, PoolAssumption, SMT
        <3>2. DOMAIN backlog' = {}
            BY <2>3, SMT
        <3>3. PlaceInv'
            BY <1>1, <2>1, <3>2 DEF PlaceInv
        <3>4. Accounted'
            BY <1>1, <2>1, <3>1 DEF Accounted, TypeOK
        <3> QED  BY <3>3, <3>4
    <2>8. ClientInv'
        BY <1>1, <2>1, <2>2, <2>3 DEF ClientInv
    <2> QED  BY <2>4, <2>5, <2>6, <2>7, <2>8
<1>4. CASE Head(backlog) = "Quit"
    <2>1. srv' = "join" /\ UNCHANGED <<queue, unfinished, puts>>
        BY <1>4, PoolAssumption DEF Accept
    <2>2. cpc = "quit" /\ arrived = Workers /\ Len(backlog) = 1
        BY <1>1, <1>4, Receiving, PoolAssumption, SMT DEF ClientInv, TypeOK
    <2>3. backlog' = <<>>
        BY <1>1, <2>2, SMT DEF TypeOK
    <2>4. TypeOK'
        BY <1>1, <2>1, <2>2, <2>3, Receiving DEF TypeOK
    <2>5. UnfinishedExact' /\ QueueInv'
        BY <1>1, <2>1, <2>2 DEF UnfinishedExact, Holding, QueueInv
    <2>6. WorkerInv'
        BY <1>1, <2>1 DEF WorkerInv
    <2>7. PlaceInv' /\ Accounted'
        <3>1. \A i \in DOMAIN backlog : backlog[i] \notin Tasks
            BY <1>1, <1>4, <2>2, Receiving, PoolAssumption, SMT
        <3>2. DOMAIN backlog' = {}
            BY <2>3, SMT
        <3>3. PlaceInv'
            BY <1>1, <2>1, <3>2 DEF PlaceInv
        <3>4. Accounted'
            BY <1>1, <2>1, <3>1 DEF Accounted, TypeOK
        <3> QED  BY <3>3, <3>4
    <2>8. ClientInv'
        BY <1>1, <2>1, <2>2, <2>3 DEF ClientInv
    <2> QED  BY <2>4, <2>5, <2>6, <2>7, <2>8
<1> QED  BY <1>2, <1>3, <1>4 DEF Accept

LEMMA PutNonePreserves == ASSUME PoolInv, PutNone, UNCHANGED <<clientVars, results>> PROVE PoolInv'
<1> USE DEF PoolInv, clientVars
<1>1. /\ srv = "put" /\ puts < N /\ puts' = puts + 1 /\ Put(None)
      /\ UNCHANGED <<backlog, srv, reply, stop, wpc, job, arrived, finished>>
    BY DEF PutNone, workerVars, N
<1>2. cpc = "wait" /\ backlog = <<>> /\ ~reply
    BY <1>1 DEF ClientInv, TypeOK
<1>3. TypeOK'
    <2>1. puts' \in 0..Cardinality(Workers)
        BY <1>1, WorkerCount, SMT DEF TypeOK, N
    <2> QED  BY <1>1, <2>1, Putting, SMT DEF TypeOK
<1>4. UnfinishedExact'
    <2>1. Holding' = Holding /\ IsFiniteSet(Holding)
        BY <1>1, WorkerCount DEF Holding
    <2>2. Cardinality(Holding) \in Nat
        BY <2>1, FS_CardinalityType
    <2>3. unfinished' = unfinished + 1 /\ Len(queue') = Len(queue) + 1 /\ Len(queue) \in Nat
        BY <1>1, Putting
    <2>4. unfinished = Len(queue) + Cardinality(Holding)
        BY DEF UnfinishedExact
    <2>5. unfinished' = Len(queue') + Cardinality(Holding)
        BY <2>2, <2>3, <2>4, SMT
    <2> QED  BY <2>1, <2>5 DEF UnfinishedExact
<1>5. QueueInv'
    <2>1. PICK k \in 0..Len(queue) :
              /\ \A i \in 1..k : queue[i] \in Tasks
              /\ \A i \in (k + 1)..Len(queue) : queue[i] = None
              /\ Len(queue) - k + Cardinality(arrived) = puts
              /\ arrived # {} => k = 0
        BY DEF QueueInv
    <2>2. Len(queue) \in Nat /\ Len(queue') = Len(queue) + 1
        BY <1>1, Putting
    <2>3. k \in 0..Len(queue')
        BY <2>2, SMT
    <2>4. \A i \in 1..k : queue'[i] \in Tasks
        BY <1>1, <2>1, Putting, SMT
    <2>5. \A i \in (k + 1)..Len(queue') : queue'[i] = None
        BY <1>1, <2>1, Putting, SMT
    <2>6. Len(queue') - k + Cardinality(arrived') = puts'
        <3>1. Len(queue) - k + Cardinality(arrived) = puts /\ Cardinality(arrived) \in 0..N
            BY <2>1, WorkerCount DEF TypeOK
        <3>2. N \in Nat
            BY WorkerCount
        <3> QED  BY <1>1, <2>2, <3>1, <3>2, SMT
    <2> QED  BY <1>1, <2>1, <2>3, <2>4, <2>5, <2>6 DEF QueueInv
<1>6. WorkerInv'
    BY <1>1 DEF WorkerInv
<1>7. PlaceInv'
    BY <1>1, Putting, PoolAssumption, SMT DEF PlaceInv
<1>8. Accounted'
    <2>1. \A i \in DOMAIN queue : i \in DOMAIN queue' /\ queue'[i] = queue[i]
        BY <1>1, Putting, SMT
    <2> QED  BY <1>1, <2>1 DEF Accounted
<1>9. ClientInv'
    BY <1>1, <1>2, Putting DEF ClientInv
<1> QED  BY <1>3, <1>4, <1>5, <1>6, <1>7, <1>8, <1>9

\* What a step that moves the server alone keeps.
LEMMA ServerMoves ==
    ASSUME PoolInv, UNCHANGED <<backlog, queue, unfinished, puts, wpc, job, arrived, finished, sent>>
    PROVE  UnfinishedExact' /\ QueueInv' /\ PlaceInv' /\ Accounted'
<1>1. UnfinishedExact' /\ QueueInv'
    BY DEF PoolInv, UnfinishedExact, Holding, QueueInv
<1>2. PlaceInv'
    BY DEF PoolInv, PlaceInv
<1>3. Accounted'
    BY DEF PoolInv, Accounted
<1> QED  BY <1>1, <1>2, <1>3

LEMMA ServerPreserves == ASSUME PoolInv, ServerStep PROVE PoolInv'
<1> USE DEF clientVars, workerVars
<1>1. UNCHANGED <<clientVars, results>> /\ Server
    BY DEF ServerStep
<1>2. CASE Accept
    BY <1>1, <1>2, AcceptPreserves
<1>3. CASE PutNone
    BY <1>1, <1>3, PutNonePreserves
<1>4. CASE ConditionWait
    <2>1. TypeOK' /\ WorkerInv' /\ ClientInv'
        BY <1>1, <1>4 DEF ConditionWait, PoolInv, TypeOK, WorkerInv, ClientInv, N
    <2> QED  BY <1>1, <1>4, <2>1, ServerMoves DEF ConditionWait, PoolInv
<1>5. CASE SendBarrierComplete
    <2>1. TypeOK' /\ WorkerInv'
        BY <1>1, <1>5 DEF SendBarrierComplete, PoolInv, TypeOK, WorkerInv
    <2>2. ClientInv'
        BY <1>1, <1>5 DEF SendBarrierComplete, PoolInv, TypeOK, ClientInv
    <2> QED  BY <1>1, <1>5, <2>1, <2>2, ServerMoves DEF SendBarrierComplete, PoolInv
<1>6. CASE JoinQueue
    <2>1. TypeOK' /\ WorkerInv'
        BY <1>1, <1>6 DEF JoinQueue, PoolInv, TypeOK, WorkerInv
    <2>2. ClientInv'
        BY <1>1, <1>6 DEF JoinQueue, PoolInv, TypeOK, ClientInv
    <2> QED  BY <1>1, <1>6, <2>1, <2>2, ServerMoves DEF JoinQueue, PoolInv
<1>7. ASSUME NEW w \in Workers, stop_thread(w) PROVE PoolInv'
    <2>1. TypeOK' /\ WorkerInv'
        BY <1>1, <1>7 DEF stop_thread, PoolInv, TypeOK, WorkerInv
    <2>2. ClientInv'
        BY <1>1, <1>7 DEF stop_thread, PoolInv, ClientInv
    <2> QED  BY <1>1, <1>7, <2>1, <2>2, ServerMoves DEF stop_thread, PoolInv
<1>8. CASE ServerExit
    <2>1. TypeOK' /\ WorkerInv'
        BY <1>1, <1>8 DEF ServerExit, PoolInv, TypeOK, WorkerInv
    <2>2. ClientInv'
        BY <1>1, <1>8 DEF ServerExit, PoolInv, TypeOK, ClientInv
    <2> QED  BY <1>1, <1>8, <2>1, <2>2, ServerMoves DEF ServerExit, PoolInv
<1> QED  BY <1>1, <1>2, <1>3, <1>4, <1>5, <1>6, <1>7, <1>8 DEF Server
-----------------------------------------------------------------------------
\* The oldest entry is taken from the queue.
LEMMA Getting ==
    ASSUME TypeOK, queue # <<>>, queue' = Tail(queue)
    PROVE  /\ queue' \in Seq(Tasks \cup {None})
           /\ Len(queue) \in Nat \ {0} /\ Len(queue') = Len(queue) - 1
           /\ DOMAIN queue = 1..Len(queue) /\ DOMAIN queue' = 1..(Len(queue) - 1)
           /\ \A i \in DOMAIN queue' : queue'[i] = queue[i + 1]
           /\ Head(queue) = queue[1] /\ Head(queue) \in Tasks \cup {None}
    BY SMT DEF TypeOK

\* What a step that moves a worker and leaves queue and jobs alone keeps.
LEMMA WorkerMoves ==
    ASSUME PoolInv, UNCHANGED <<backlog, queue, unfinished, puts, job, arrived, finished, sent>>
    PROVE  UnfinishedExact' /\ QueueInv' /\ PlaceInv' /\ Accounted'
<1>1. UnfinishedExact' /\ QueueInv'
    BY DEF PoolInv, UnfinishedExact, Holding, QueueInv
<1>2. PlaceInv'
    BY DEF PoolInv, PlaceInv
<1>3. Accounted'
    BY DEF PoolInv, Accounted
<1> QED  BY <1>1, <1>2, <1>3

LEMMA GetTaskPreserves ==
    ASSUME PoolInv, NEW w \in Workers, get_task(w), UNCHANGED <<clientVars, results>>
    PROVE  PoolInv'
<1> USE DEF PoolInv
<1>1. /\ queue # <<>> /\ queue' = Tail(queue)
      /\ job' = [job EXCEPT ![w] = Head(queue)]
      /\ wpc[w] = "get" /\ w \notin arrived /\ job[w] = Nothing
      /\ UNCHANGED <<backlog, unfinished, srv, puts, reply, stop, finished>>
      /\ UNCHANGED <<cpc, sent, examined, collected, results>>
    BY DEF get_task, Goto, serverVars, clientVars, WorkerInv
<1>2. /\ job' \in [Workers -> Tasks \cup {None, Nothing}] /\ job'[w] = Head(queue)
      /\ \A v \in Workers \ {w} : job'[v] = job[v]
    BY <1>1, Getting DEF TypeOK
<1>3. UnfinishedExact'
    <2>1. Holding' = Holding \cup {w} /\ w \notin Holding /\ IsFiniteSet(Holding)
        BY <1>1, <1>2, Getting, WorkerCount, PoolAssumption, SMT DEF Holding
    <2>2. Cardinality(Holding') = Cardinality(Holding) + 1 /\ Cardinality(Holding) \in Nat
        BY <2>1, FS_AddElement, FS_CardinalityType
    <2>3. Len(queue') = Len(queue) - 1 /\ Len(queue) \in Nat
        BY <1>1, Getting
    <2>4. unfinished' = Len(queue) + Cardinality(Holding)
        BY <1>1 DEF UnfinishedExact
    <2> QED  BY <2>2, <2>3, <2>4, SMT DEF UnfinishedExact
<1>4. PlaceInv'
    <2>1. \A i \in DOMAIN queue' : i + 1 \in DOMAIN queue /\ queue'[i] = queue[i + 1] /\ i + 1 # 1
        BY <1>1, Getting, SMT
    <2>2. 1 \in DOMAIN queue /\ Head(queue) = queue[1]
        BY <1>1, Getting, SMT
    <2>3. \A i, j \in DOMAIN queue' : queue'[i] = queue'[j] /\ queue'[i] # None => i = j
        BY <1>1, <2>1, Getting, SMT DEF PlaceInv
    <2>4. \A i \in DOMAIN backlog : backlog[i] \in Tasks =>
              /\ \A j \in DOMAIN queue' : queue'[j] # backlog[i]
              /\ \A v \in Workers : job'[v] # backlog[i]
        BY <1>2, <2>1, <2>2, SMT DEF PlaceInv
    <2>5. \A i \in DOMAIN queue' : queue'[i] \in Tasks =>
              /\ queue'[i] \in sent \ finished
              /\ \A v \in Workers : job'[v] # queue'[i]
        BY <1>2, <2>1, <2>2, PoolAssumption, SMT DEF PlaceInv
    <2>6. \A v \in Workers : job'[v] \in Tasks => job'[v] \in sent
        BY <1>2, <2>2 DEF PlaceInv
    <2>7. \A u, v \in Workers : job'[u] = job'[v] /\ job'[u] \in Tasks => u = v
        BY <1>2, <2>2, SMT DEF PlaceInv
    <2> QED  BY <1>1, <2>3, <2>4, <2>5, <2>6, <2>7, SMT DEF PlaceInv
<1>5. Accounted'
    <2> SUFFICES ASSUME NEW t \in sent, NEW i \in DOMAIN queue, queue[i] = t
                 PROVE  (\E j \in DOMAIN queue' : queue'[j] = t) \/ \E v \in Workers : job'[v] = t
        <3>1. \A v \in Workers : job[v] \in sent => job'[v] = job[v]
            BY <1>1, <1>2, PoolAssumption DEF TypeOK
        <3> QED  BY <1>1, <3>1, SMT DEF Accounted
    <2>1. CASE i = 1
        BY <1>1, <1>2, <2>1, Getting
    <2>2. CASE i # 1
        <3>1. i - 1 \in DOMAIN queue' /\ queue'[i - 1] = queue[i]
            BY <1>1, <2>2, Getting, SMT
        <3> QED  BY <3>1
    <2> QED  BY <2>1, <2>2
<1>6. PICK k \in 0..Len(queue) :
          /\ \A i \in 1..k : queue[i] \in Tasks
          /\ \A i \in (k + 1)..Len(queue) : queue[i] = None
          /\ Len(queue) - k + Cardinality(arrived) = puts
          /\ arrived # {} => k = 0
    BY DEF QueueInv
<1>7. CASE Head(queue) = None
    <2>1. arrived' = arrived \cup {w} /\ wpc' = [wpc EXCEPT ![w] = "barrier"]
        BY <1>7 DEF get_task, Goto
    <2>2. arrived # Workers /\ \A i \in DOMAIN queue : queue[i] = None
        BY <1>1, <1>7, QueueFacts
    <2>3. TypeOK'
        BY <1>1, <1>2, <2>1, Getting DEF TypeOK
    <2>4. QueueInv'
        <3>1. k = 0
            BY <1>1, <1>6, <2>2, Getting, PoolAssumption, SMT
        <3>2. \A i \in 1..Len(queue') : queue'[i] = None
            BY <1>1, <2>2, Getting, SMT
        <3>3. Cardinality(arrived') = Cardinality(arrived) + 1 /\ Cardinality(arrived) \in Nat
            BY <1>1, <2>1, WorkerCount, FS_AddElement, SMT DEF TypeOK
        <3>4. Len(queue) + Cardinality(arrived) = puts
            BY <1>1, <1>6, <3>1, <3>3, Getting, SMT
        <3>5. Len(queue) \in Nat \ {0} /\ Len(queue') = Len(queue) - 1 /\ puts' = puts
            BY <1>1, Getting
        <3>6. Len(queue') - 0 + Cardinality(arrived') = puts' /\ Len(queue') \in Nat
            BY <3>3, <3>4, <3>5, SMT
        <3> QED  BY <3>2, <3>6, SMT DEF QueueInv
    <2>5. WorkerInv'
        BY <1>1, <1>2, <1>7, <2>1, <2>2, SMT DEF WorkerInv, TypeOK
    <2>6. ClientInv'
        BY <1>1, <2>1, <2>2 DEF ClientInv
    <2> QED  BY <1>3, <1>4, <1>5, <2>3, <2>4, <2>5, <2>6
<1>8. CASE Head(queue) # None
    <2>1. arrived' = arrived /\ wpc' = [wpc EXCEPT ![w] = "exec"] /\ Head(queue) \in Tasks
        BY <1>1, <1>8, Getting DEF get_task, Goto
    <2>2. TypeOK'
        BY <1>1, <1>2, <2>1, Getting DEF TypeOK
    <2>3. QueueInv'
        <3>1. k # 0 /\ Len(queue) \in Nat /\ Len(queue') = Len(queue) - 1
            BY <1>1, <1>6, <1>8, Getting, SMT
        <3>2. \A i \in 1..(k - 1) : queue'[i] \in Tasks
            BY <1>1, <1>6, <3>1, Getting, SMT
        <3>3. \A i \in ((k - 1) + 1)..Len(queue') : queue'[i] = None
            BY <1>1, <1>6, <3>1, Getting, SMT
        <3>4. Len(queue) - k + Cardinality(arrived) = puts /\ Cardinality(arrived) \in 0..N /\ N \in Nat
            BY <1>6, WorkerCount DEF TypeOK
        <3>5. Len(queue') - (k - 1) + Cardinality(arrived') = puts' /\ k - 1 \in 0..Len(queue')
            BY <1>1, <2>1, <3>1, <3>4, SMT
        <3>6. arrived' = {}
            BY <1>6, <2>1, <3>1
        <3> QED  BY <3>2, <3>3, <3>5, <3>6 DEF QueueInv
    <2>4. WorkerInv'
        <3>1. /\ wpc'[w] = "exec" /\ \A v \in Workers \ {w} : wpc'[v] = wpc[v]
              /\ job'[w] \in Tasks
            BY <1>2, <2>1 DEF TypeOK
        <3>2. job'[w] \notin finished
            BY <1>1, <1>2, <2>1, Getting, SMT DEF PlaceInv
        <3> QED  BY <1>1, <1>2, <2>1, <3>1, <3>2 DEF WorkerInv
    <2>5. ClientInv'
        BY <1>1, <2>1 DEF ClientInv
    <2> QED  BY <1>3, <1>4, <1>5, <2>2, <2>3, <2>4, <2>5
<1> QED  BY <1>7, <1>8

LEMMA TaskDonePreserves ==
    ASSUME PoolInv, NEW w \in Workers, TaskDone(w), UNCHANGED <<clientVars, results>>
    PROVE  PoolInv'
<1> USE DEF PoolInv
<1>1. /\ wpc[w] = "task_done" /\ wpc' = [wpc EXCEPT ![w] = "loop"]
      /\ unfinished' = unfinished - 1 /\ job' = [job EXCEPT ![w] = Nothing]
      /\ UNCHANGED <<backlog, queue, srv, puts, reply, stop, arrived, finished>>
      /\ UNCHANGED <<cpc, sent, examined, collected, results>>
    BY DEF TaskDone, Goto, serverVars, clientVars
<1>2. /\ job' \in [Workers -> Tasks \cup {None, Nothing}] /\ job'[w] = Nothing
      /\ \A v \in Workers \ {w} : job'[v] = job[v]
      /\ job[w] \in finished \cup {None} /\ job[w] # Nothing
    BY <1>1, PoolAssumption DEF TypeOK, WorkerInv
<1>3. /\ unfinished = Len(queue) + Cardinality(Holding)
      /\ Cardinality(Holding) \in Nat \ {0} /\ Len(queue) \in Nat
      /\ Cardinality(Holding') = Cardinality(Holding) - 1
    <2>1. Holding' = Holding \ {w} /\ w \in Holding /\ IsFiniteSet(Holding)
        BY <1>1, <1>2, WorkerCount DEF Holding
    <2>2. Cardinality(Holding) \in Nat \ {0}
        BY <2>1, FS_CardinalityType, FS_EmptySet
    <2>3. Cardinality(Holding') = Cardinality(Holding) - 1
        BY <2>1, FS_RemoveElement
    <2> QED  BY <2>2, <2>3, SMT DEF UnfinishedExact, TypeOK
<1>4. unfinished \in Nat \ {0} /\ unfinished' \in Nat /\ UnfinishedExact'
    BY <1>1, <1>3, SMT DEF UnfinishedExact
<1>5. TypeOK'
    BY <1>1, <1>2, <1>4 DEF TypeOK
<1>6. QueueInv'
    BY <1>1 DEF QueueInv
<1>7. WorkerInv'
    BY <1>1, <1>2 DEF WorkerInv, TypeOK
<1>8. PlaceInv'
    <2>1. \A v \in Workers : job'[v] \in Tasks => job'[v] = job[v] /\ v # w
        BY <1>2, PoolAssumption
    <2> QED  BY <1>1, <2>1, SMT DEF PlaceInv
<1>9. Accounted'
    <2>1. \A v \in Workers : job[v] \in sent => job'[v] = job[v] \/ job[v] \in finished
        BY <1>2, PoolAssumption DEF TypeOK
    <2> QED  BY <1>1, <2>1 DEF Accounted
<1>10. ClientInv'
    BY <1>1, <1>4 DEF ClientInv
<1> QED  BY <1>4, <1>5, <1>6, <1>7, <1>8, <1>9, <1>10

LEMMA ExecutePreserves == ASSUME PoolInv, NEW w \in Workers, Execute(w) PROVE PoolInv'
<1> USE DEF PoolInv
<1>1. /\ wpc[w] = "exec" /\ wpc' = [wpc EXCEPT ![w] = "task_done"]
      /\ finished' = finished \cup {job[w]} /\ results' \in {results, results \cup {job[w]}}
      /\ UNCHANGED <<backlog, queue, unfinished, srv, puts, reply, stop, job, arrived>>
      /\ UNCHANGED <<cpc, sent, examined, collected>>
    BY DEF Execute, exec_task, Goto, serverVars, clientVars
<1>2. job[w] \in Tasks \ finished /\ w \notin arrived
    BY <1>1 DEF WorkerInv
<1>3. TypeOK'
    BY <1>1, <1>2 DEF TypeOK
<1>4. UnfinishedExact' /\ QueueInv'
    BY <1>1 DEF UnfinishedExact, Holding, QueueInv
<1>5. WorkerInv'
    <2>1. /\ wpc'[w] = "task_done" /\ job'[w] \in finished' /\ job'[w] # Nothing
          /\ \A v \in Workers \ {w} : wpc'[v] = wpc[v] /\ job'[v] = job[v]
        BY <1>1, <1>2, PoolAssumption DEF TypeOK
    <2>2. \A v \in Workers \ {w} : job[v] # job[w]
        BY <1>2 DEF PlaceInv
    <2> QED  BY <1>1, <1>2, <2>1, <2>2 DEF WorkerInv
<1>6. PlaceInv'
    <2>1. \A i \in DOMAIN backlog : backlog[i] \in Tasks => backlog[i] \notin finished'
        BY <1>1 DEF PlaceInv
    <2>2. \A i \in DOMAIN queue : queue[i] \in Tasks => queue[i] \notin finished'
        BY <1>1 DEF PlaceInv
    <2>3. finished' \subseteq sent
        BY <1>1, <1>2, SMT DEF PlaceInv
    <2> QED  BY <1>1, <2>1, <2>2, <2>3 DEF PlaceInv
<1>7. Accounted'
    BY <1>1 DEF Accounted
<1>8. ClientInv'
    <2>1. cpc \in {"dispatch", "wait"} /\ examined = {}
        BY <1>2 DEF ClientInv, TypeOK
    <2> QED  BY <1>1, <1>2, <2>1 DEF ClientInv
<1> QED  BY <1>3, <1>4, <1>5, <1>6, <1>7, <1>8

LEMMA WorkerPreserves == ASSUME PoolInv, NEW w \in Workers, Worker(w) PROVE PoolInv'
<1> USE DEF serverVars, clientVars, Goto
<1>1. CASE Execute(w)
    BY <1>1, ExecutePreserves
<1>2. CASE WorkerLoop(w) /\ UNCHANGED <<clientVars, results>>
    <2>1. CASE TestStop(w)
        <3>1. w \in stop => arrived = Workers
            BY DEF PoolInv, ClientInv, TypeOK
        <3>2. TypeOK' /\ ClientInv'
            BY <1>2, <2>1 DEF TestStop, PoolInv, TypeOK, ClientInv
        <3>3. WorkerInv'
            BY <1>2, <2>1, <3>1 DEF TestStop, PoolInv, TypeOK, ClientInv, WorkerInv
        <3> QED  BY <1>2, <2>1, <3>2, <3>3, WorkerMoves DEF TestStop, PoolInv
    <2>2. CASE Poll(w)
        <3>1. w \in arrived => queue = <<>>
            BY <2>2, QueueFacts DEF Poll, PoolInv, WorkerInv
        <3>2. TypeOK' /\ ClientInv'
            BY <1>2, <2>2 DEF Poll, PoolInv, TypeOK, ClientInv
        <3>3. WorkerInv'
            BY <1>2, <2>2, <3>1 DEF Poll, PoolInv, TypeOK, WorkerInv
        <3> QED  BY <1>2, <2>2, <3>2, <3>3, WorkerMoves DEF Poll, PoolInv
    <2>3. CASE get_task(w)
        BY <1>2, <2>3, GetTaskPreserves
    <2>4. CASE BarrierTrips(w)
        <3>1. TypeOK' /\ ClientInv'
            BY <1>2, <2>4 DEF BarrierTrips, PoolInv, TypeOK, ClientInv
        <3>2. WorkerInv'
            BY <1>2, <2>4 DEF BarrierTrips, PoolInv, TypeOK, WorkerInv
        <3> QED  BY <1>2, <2>4, <3>1, <3>2, WorkerMoves DEF BarrierTrips, PoolInv
    <2>5. CASE NotifyAll(w)
        <3>1. arrived = Workers
            BY <2>5 DEF NotifyAll, PoolInv, WorkerInv
        <3>2. TypeOK' /\ WorkerInv'
            BY <1>2, <2>5 DEF NotifyAll, PoolInv, TypeOK, WorkerInv
        <3>3. ClientInv'
            BY <1>2, <2>5, <3>1 DEF NotifyAll, PoolInv, TypeOK, ClientInv
        <3> QED  BY <1>2, <2>5, <3>2, <3>3, WorkerMoves DEF NotifyAll, PoolInv
    <2>6. CASE TaskDone(w)
        BY <1>2, <2>6, TaskDonePreserves
    <2> QED  BY <1>2, <2>1, <2>2, <2>3, <2>4, <2>5, <2>6 DEF WorkerLoop
<1> QED  BY <1>1, <1>2 DEF Worker

\* Every step keeps the invariant, and so does stuttering.
LEMMA NextPreserves == ASSUME PoolInv, [Next]_vars PROVE PoolInv'
<1>1. CASE UNCHANGED vars
    <2> USE <1>1 DEF vars, poolVars, serverVars, workerVars, clientVars
    <2>1. TypeOK' /\ WorkerInv'
        BY DEF PoolInv, TypeOK, WorkerInv
    <2>2. ClientInv'
        BY DEF PoolInv, ClientInv
    <2> QED  BY <2>1, <2>2, ServerMoves DEF PoolInv
<1> QED  BY <1>1, ClientPreserves, ServerPreserves, WorkerPreserves DEF Next
-----------------------------------------------------------------------------
\* PoolInv holds in every state of every behaviour of the engine.
THEOREM AlwaysPoolInv == Spec => []PoolInv
<1>1. Init => PoolInv
    BY InitPoolInv
<1>2. PoolInv /\ [Next]_vars => PoolInv'
    BY NextPreserves
<1> QED  BY <1>1, <1>2, PTL DEF Spec

\* All tasks are finished when every worker has arrived.
LEMMA AllFinished ==
    ASSUME PoolInv, arrived = Workers, cpc # "dispatch", \A i \in DOMAIN backlog : backlog[i] \notin Tasks
    PROVE  finished = Tasks
<1>1. sent = Tasks /\ queue = <<>>
    BY QueueFacts DEF PoolInv, ClientInv
<1>2. \A w \in Workers : job[w] \in Tasks => job[w] \in finished
    BY PoolAssumption DEF PoolInv, WorkerInv
<1>3. ASSUME NEW t \in Tasks PROVE t \in finished
    BY <1>1, <1>2, SMT DEF PoolInv, Accounted
<1> QED  BY <1>3 DEF PoolInv, TypeOK

\* unfinished counts what is queued or held at any time, task_done takes it
\* below zero never, and the workers that stop_thread joins are not blocked on
\* the queue, however many workers and tasks there are.
THEOREM PoolAlwaysConsistent == Spec => []PoolConsistent
<1>1. PoolInv => PoolConsistent
    <2> SUFFICES ASSUME PoolInv PROVE NoStrandedWorker
        BY DEF PoolInv, PoolConsistent
    <2> SUFFICES ASSUME srv \in {"stop", "exit"}
                 PROVE  queue = <<>> /\ \A w \in Workers : wpc[w] \in {"loop", "poll", "stopped"}
        BY DEF NoStrandedWorker
    <2>1. arrived = Workers /\ unfinished = 0
        BY DEF PoolInv, ClientInv, TypeOK
    <2>2. queue = <<>>
        BY <2>1, QueueFacts DEF PoolInv
    <2>3. Holding = {}
        <3>1. IsFiniteSet(Holding) /\ Cardinality(Holding) \in Nat
            BY WorkerCount, FS_CardinalityType DEF Holding
        <3>2. Cardinality(Holding) = 0
            BY <2>1, <2>2, <3>1, SMT DEF PoolInv, UnfinishedExact
        <3> QED  BY <3>1, <3>2, FS_EmptySet
    <2>4. \A w \in Workers : job[w] = Nothing
        BY <2>3 DEF Holding
    <2> QED  BY <2>1, <2>2, <2>4, PoolAssumption DEF PoolInv, WorkerInv, TypeOK
<1> QED  BY <1>1, AlwaysPoolInv, PTL

\* The epilogue reads every result there is, however many workers and tasks
\* there are: no command runs any more when it looks for the first file.
THEOREM EpilogueAlwaysComplete == Spec => []EpilogueComplete
<1>1. PoolInv => EpilogueComplete
    <2> SUFFICES ASSUME PoolInv, cpc \in {"epilogue", "quit"}
                 PROVE  finished = Tasks /\ collected = results \cap examined
        BY DEF EpilogueComplete
    <2>1. arrived = Workers /\ \A i \in DOMAIN backlog : backlog[i] \notin Tasks
        BY PoolAssumption, SMT DEF PoolInv, ClientInv
    <2>2. finished = Tasks
        BY <2>1, AllFinished
    <2> QED  BY <2>2 DEF PoolInv, ClientInv
<1> QED  BY <1>1, AlwaysPoolInv, PTL
-----------------------------------------------------------------------------
Running(t) == \E w \in Workers : job[w] = t /\ wpc[w] = "exec"

\* Where TaskPool has a task.
State ==
    [t \in Tasks |-> IF Running(t) THEN "running"
                     ELSE IF t \in finished THEN "finished"
                     ELSE IF t \in sent THEN "submitted" ELSE "new"]

\* TaskPool steps in terms of State.
LEMMA PoolSteps ==
    /\ \A t \in Tasks :
          /\ cpc = "dispatch" /\ cpc' = cpc /\ State[t] = "new"
                /\ State' = [State EXCEPT ![t] = "submitted"] => TP!Submit(t)
          /\ cpc' = cpc /\ State[t] = "submitted"
                /\ State' = [State EXCEPT ![t] = "running"] => TP!Start(t)
          /\ cpc' = cpc /\ State[t] = "running"
                /\ State' = [State EXCEPT ![t] = "finished"] => TP!Finish(t)
    /\ cpc = "dispatch" /\ cpc' = "wait" /\ State' = State => TP!Wait
    /\ cpc = "wait" /\ cpc' = "epilogue" /\ State' = State
          /\ (\A t \in Tasks : State[t] = "finished") => TP!Return
    /\ State' = State /\ (cpc' = cpc \/ (cpc = "epilogue" /\ cpc' = "quit")) => UNCHANGED TP!vars
BY DEF State, Running, TP!Submit, TP!Start, TP!Finish, TP!Move, TP!Wait, TP!Return, TP!vars

\* A step that neither sends, nor takes, nor runs a task leaves State alone.
LEMMA SameState ==
    ASSUME UNCHANGED <<finished, sent>>, \A t \in Tasks : Running(t)' <=> Running(t)
    PROVE  State' = State
BY DEF State

\* So does a worker that runs no task before or after its step.
LEMMA WorkerStutters ==
    ASSUME NEW w \in Workers, wpc[w] # "exec", wpc'[w] # "exec", UNCHANGED <<finished, sent>>,
           \A v \in Workers \ {w} : wpc'[v] = wpc[v] /\ job'[v] = job[v]
    PROVE  State' = State
<1>1. \A t \in Tasks : Running(t)' <=> Running(t)
    BY DEF Running
<1> QED  BY <1>1, SameState

\* get_task of a task is TaskPool's Start.
LEMMA GetStarts ==
    ASSUME PoolInv, NEW w \in Workers, get_task(w), Head(queue) # None, UNCHANGED clientVars
    PROVE  \E t \in Tasks : TP!Start(t)
<1>0. PICK t : t = Head(queue)
    OBVIOUS
<1>1. /\ queue # <<>> /\ queue' = Tail(queue) /\ wpc[w] = "get"
      /\ job' = [job EXCEPT ![w] = t] /\ wpc' = [wpc EXCEPT ![w] = "exec"]
      /\ UNCHANGED <<finished, sent, cpc>>
    BY <1>0 DEF get_task, Goto, clientVars
<1>2. /\ t \in Tasks /\ t \in sent \ finished /\ \A v \in Workers : job[v] # t
    BY <1>0, <1>1, Getting, SMT DEF PoolInv, PlaceInv
<1>3. /\ job'[w] = t /\ wpc'[w] = "exec"
      /\ \A v \in Workers \ {w} : job'[v] = job[v] /\ wpc'[v] = wpc[v]
    BY <1>1 DEF PoolInv, TypeOK
<1>4. ~Running(t) /\ Running(t)' /\ \A s \in Tasks \ {t} : Running(s)' <=> Running(s)
    BY <1>1, <1>2, <1>3 DEF Running
<1>5. State[t] = "submitted" /\ State' = [State EXCEPT ![t] = "running"]
    BY <1>1, <1>2, <1>4 DEF State
<1> QED  BY <1>1, <1>2, <1>5, PoolSteps

\* A command's end is TaskPool's Finish.
LEMMA ExecuteFinishes ==
    ASSUME PoolInv, NEW w \in Workers, Execute(w)
    PROVE  \E t \in Tasks : TP!Finish(t)
<1>0. PICK t : t = job[w]
    OBVIOUS
<1>1. /\ wpc[w] = "exec" /\ wpc' = [wpc EXCEPT ![w] = "task_done"]
      /\ finished' = finished \cup {t} /\ UNCHANGED <<job, sent, cpc>>
    BY <1>0 DEF Execute, exec_task, Goto, clientVars
<1>2. t \in Tasks /\ \A v \in Workers \ {w} : job[v] # t
    BY <1>0, <1>1 DEF PoolInv, WorkerInv, PlaceInv
<1>3. /\ wpc'[w] = "task_done" /\ job' = job /\ job[w] = t
      /\ \A v \in Workers \ {w} : wpc'[v] = wpc[v]
    BY <1>0, <1>1 DEF PoolInv, TypeOK
<1>4. Running(t) /\ ~Running(t)' /\ \A s \in Tasks \ {t} : Running(s)' <=> Running(s)
    BY <1>1, <1>2, <1>3 DEF Running
<1>5. State[t] = "running" /\ State' = [State EXCEPT ![t] = "finished"]
    BY <1>1, <1>2, <1>4 DEF State
<1> QED  BY <1>1, <1>2, <1>5, PoolSteps

\* Every step is a step of TaskPool or a stutter.
LEMMA Simulation == ASSUME PoolInv, [Next]_vars PROVE [TP!Next]_(TP!vars)
<1> USE DEF clientVars, poolVars, serverVars, workerVars
<1>1. CASE UNCHANGED vars
    <2>1. State' = State
        BY <1>1, SameState DEF vars, Running
    <2> QED  BY <1>1, <2>1, PoolSteps DEF vars
<1>2. CASE ServerStep
    <2>1. UNCHANGED <<wpc, job, finished, sent, cpc>>
        BY <1>2 DEF ServerStep, Server, Accept, PutNone, ConditionWait, SendBarrierComplete,
                    JoinQueue, stop_thread, ServerExit
    <2>2. State' = State
        BY <2>1, SameState DEF Running
    <2> QED  BY <2>1, <2>2, PoolSteps
<1>3. ASSUME NEW t \in Tasks, threadPoolDispatchTask(t) PROVE [TP!Next]_(TP!vars)
    <2>1. cpc = "dispatch" /\ t \notin sent /\ sent' = sent \cup {t} /\ UNCHANGED <<wpc, job, finished, cpc>>
        BY <1>3 DEF threadPoolDispatchTask
    <2>2. t \notin finished /\ ~Running(t) /\ \A s \in Tasks : Running(s)' <=> Running(s)
        BY <2>1, SMT DEF PoolInv, PlaceInv, Running
    <2>3. State[t] = "new" /\ State' = [State EXCEPT ![t] = "submitted"]
        BY <2>1, <2>2 DEF State
    <2>4. TP!Submit(t)
        BY <2>1, <2>3, PoolSteps
    <2> QED  BY <2>4 DEF TP!Next
<1>4. CASE threadPoolWait
    <2>1. cpc = "dispatch" /\ cpc' = "wait" /\ UNCHANGED <<wpc, job, finished, sent>>
        BY <1>4 DEF threadPoolWait
    <2>2. State' = State
        BY <2>1, SameState DEF Running
    <2> QED  BY <2>1, <2>2, PoolSteps DEF TP!Next
<1>5. CASE WaitReturns
    <2>1. /\ cpc = "wait" /\ cpc' = "epilogue" /\ UNCHANGED <<wpc, job, finished, sent>>
          /\ backlog = <<>> /\ arrived = Workers
        BY <1>5 DEF WaitReturns, PoolInv, ClientInv
    <2>2. finished = Tasks
        BY <2>1, AllFinished, SMT
    <2>3. \A t \in Tasks : ~Running(t)
        BY <2>2 DEF Running, PoolInv, WorkerInv
    <2>4. State' = State /\ \A t \in Tasks : State[t] = "finished"
        BY <2>1, <2>2, <2>3, SameState DEF State, Running
    <2> QED  BY <2>1, <2>4, PoolSteps DEF TP!Next
<1>6. ASSUME NEW t \in Tasks, epilogue(t) PROVE [TP!Next]_(TP!vars)
    <2>1. UNCHANGED <<wpc, job, finished, sent, cpc>>
        BY <1>6 DEF epilogue
    <2>2. State' = State
        BY <2>1, SameState DEF Running
    <2> QED  BY <2>1, <2>2, PoolSteps
<1>7. CASE threadPoolQuit
    <2>1. cpc = "epilogue" /\ cpc' = "quit" /\ UNCHANGED <<wpc, job, finished, sent>>
        BY <1>7 DEF threadPoolQuit
    <2>2. State' = State
        BY <2>1, SameState DEF Running
    <2> QED  BY <2>1, <2>2, PoolSteps
<1>8. ASSUME NEW w \in Workers, Worker(w) PROVE [TP!Next]_(TP!vars)
    <2>1. CASE Execute(w)
        BY <2>1, ExecuteFinishes DEF TP!Next
    <2>2. CASE get_task(w) /\ Head(queue) # None /\ UNCHANGED clientVars
        BY <2>2, GetStarts DEF TP!Next
    <2>3. CASE /\ WorkerLoop(w) /\ UNCHANGED clientVars
               /\ ~(get_task(w) /\ Head(queue) # None)
        <3>1. /\ wpc[w] # "exec" /\ wpc'[w] # "exec" /\ UNCHANGED <<finished, sent, cpc>>
              /\ \A v \in Workers \ {w} : wpc'[v] = wpc[v] /\ job'[v] = job[v]
            BY <2>3 DEF WorkerLoop, TestStop, Poll, get_task, BarrierTrips, NotifyAll, TaskDone,
                        Goto, PoolInv, TypeOK
        <3>2. State' = State
            BY <3>1, WorkerStutters
        <3> QED  BY <3>1, <3>2, PoolSteps
    <2> QED  BY <1>8, <2>1, <2>2, <2>3 DEF Worker
<1> QED  BY <1>1, <1>2, <1>3, <1>4, <1>5, <1>6, <1>7, <1>8 DEF Next, Client

\* The pool implements TaskPool for any number of workers and tasks: each task
\* is run once, and the wait returns only when all of them have been run.
THEOREM PoolImplementsTaskPool == Spec => ImplementsTaskPool
<1>1. Init => TP!Init
    BY PoolAssumption DEF Init, InitPool, TP!Init
<1>2. PoolInv /\ [Next]_vars => [TP!Next]_(TP!vars)
    BY Simulation
<1> QED  BY <1>1, <1>2, AlwaysPoolInv, PTL DEF Spec, ImplementsTaskPool, TP!Spec
=============================================================================
