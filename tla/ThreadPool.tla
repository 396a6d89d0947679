----------------------------- MODULE ThreadPool -----------------------------
(***************************************************************************)
(* The thread pool of replay/engines/witcherutils/WitcherParallelUtils.py: *)
(* one server thread, one thread per worker, a task queue they share, the  *)
(* threading.Barrier of the workers and the condition on which the server  *)
(* waits for them.  Its client is the main thread of the process, in       *)
(* ParallelEngine.                                                         *)
(*                                                                         *)
(* A process makes one threadPoolWait, so the barrier trips once: it is    *)
(* the set of workers that arrived.  The lock of the condition is held     *)
(* only inside one step of the model: notify_all returns when the sleeper  *)
(* it woke has left the wait.                                              *)
(***************************************************************************)
EXTENDS Naturals, Sequences, FiniteSets

CONSTANTS Workers,  \* the worker threads
          Tasks,    \* the commands dispatched to the pool
          None,     \* the queue entry that sends a worker to the barrier
          Nothing   \* a worker that holds no queue entry

ASSUME PoolAssumption ==
    /\ IsFiniteSet(Workers) /\ Workers # {}
    /\ None \notin Tasks /\ Nothing \notin Tasks \cup {None}
    /\ {"Barrier", "Quit"} \cap Tasks = {}

VARIABLES backlog,    \* connections the server has not accepted, by message
          queue,      \* witcherTaskQueue
          unfinished, \* its count of entries without a task_done
          srv,        \* where _operateThreadPool is
          puts,       \* entries its Barrier loop has put
          reply,      \* "BarrierComplete" was sent
          wpc,        \* where each worker's run is
          job,        \* the entry each worker took
          arrived,    \* workers that reached taskQueueMemoryBarrier
          stop,       \* workers whose stop event is set
          finished    \* tasks that were executed

serverVars == <<srv, puts, reply, stop>>
workerVars == <<wpc, job, arrived, finished>>
poolVars == <<backlog, queue, unfinished, serverVars, workerVars>>

\* spawnWitcherThreadPool: the workers run before the server listens.
InitPool ==
    /\ backlog = <<>> /\ queue = <<>> /\ unfinished = 0
    /\ srv = "accept" /\ puts = 0 /\ reply = FALSE /\ stop = {}
    /\ wpc = [w \in Workers |-> "loop"]
    /\ job = [w \in Workers |-> Nothing]
    /\ arrived = {} /\ finished = {}

\* queue.put
Put(x) == queue' = Append(queue, x) /\ unfinished' = unfinished + 1
-----------------------------------------------------------------------------
\* The server accepts one connection and reads its one message.
Accept ==
    /\ srv = "accept"
    /\ backlog # <<>>
    /\ backlog' = Tail(backlog)
    /\ LET m == Head(backlog)
       IN  \/ m \in Tasks /\ Put(m) /\ UNCHANGED <<srv, puts>>
           \/ m = "Barrier" /\ srv' = "put" /\ puts' = 0 /\ UNCHANGED <<queue, unfinished>>
           \/ m = "Quit" /\ srv' = "join" /\ UNCHANGED <<queue, unfinished, puts>>
    /\ UNCHANGED <<reply, stop, workerVars>>

PutNone ==
    /\ srv = "put"
    /\ puts < Cardinality(Workers)
    /\ Put(None)
    /\ puts' = puts + 1
    /\ UNCHANGED <<backlog, srv, reply, stop, workerVars>>

\* threadWaitCondition.wait(): only a later notify_all ends it.
ConditionWait ==
    /\ srv = "put"
    /\ puts = Cardinality(Workers)
    /\ srv' = "wait"
    /\ UNCHANGED <<backlog, queue, unfinished, puts, reply, stop, workerVars>>

SendBarrierComplete ==
    /\ srv = "woken"
    /\ srv' = "accept" /\ reply' = TRUE
    /\ UNCHANGED <<backlog, queue, unfinished, puts, stop, workerVars>>

\* Mutant: Quit does not wait for the queue.
JoinQueueAtOnce ==
    /\ srv = "join"
    /\ srv' = "stop"
    /\ UNCHANGED <<backlog, queue, unfinished, puts, reply, stop, workerVars>>

\* witcherTaskQueue.join() in _terminateThreadPool.
JoinQueue ==
    /\ srv = "join"
    /\ unfinished = 0
    /\ srv' = "stop"
    /\ UNCHANGED <<backlog, queue, unfinished, puts, reply, stop, workerVars>>

\* stop_thread for the next worker, once the previous one has been joined.
stop_thread(w) ==
    /\ srv = "stop"
    /\ w \notin stop
    /\ \A v \in stop : wpc[v] = "stopped"
    /\ stop' = stop \cup {w}
    /\ UNCHANGED <<backlog, queue, unfinished, srv, puts, reply, workerVars>>

ServerExit ==
    /\ srv = "stop"
    /\ stop = Workers /\ \A w \in Workers : wpc[w] = "stopped"
    /\ srv' = "exit"
    /\ UNCHANGED <<backlog, queue, unfinished, puts, reply, stop, workerVars>>

Server ==
    \/ Accept \/ PutNone \/ ConditionWait \/ SendBarrierComplete
    \/ JoinQueue \/ ServerExit
    \/ \E w \in Workers : stop_thread(w)
-----------------------------------------------------------------------------
Goto(w, from, to) == wpc[w] = from /\ wpc' = [wpc EXCEPT ![w] = to]

\* Mutant: the loop condition does not look at the stop event.
TestStopForever(w) ==
    /\ Goto(w, "loop", "poll")
    /\ UNCHANGED <<backlog, queue, unfinished, serverVars, job, arrived, finished>>

TestStop(w) ==
    /\ Goto(w, "loop", IF w \in stop THEN "stopped" ELSE "poll")
    /\ UNCHANGED <<backlog, queue, unfinished, serverVars, job, arrived, finished>>

\* qsize() is read before, and not together with, the get.
Poll(w) ==
    /\ Goto(w, "poll", IF queue # <<>> THEN "get" ELSE "loop")
    /\ UNCHANGED <<backlog, queue, unfinished, serverVars, job, arrived, finished>>

\* Mutant: the entry is used without the test for None.
GetWithoutTest(w) ==
    /\ queue # <<>>
    /\ queue' = Tail(queue)
    /\ job' = [job EXCEPT ![w] = Head(queue)]
    /\ Goto(w, "get", "exec")
    /\ UNCHANGED <<backlog, unfinished, serverVars, arrived, finished>>

\* Mutant: a task is left in the queue while it runs.
GetWithoutRemoving(w) ==
    /\ queue # <<>>
    /\ queue' = IF Head(queue) = None \/ Head(queue) \in finished THEN Tail(queue) ELSE queue
    /\ job' = [job EXCEPT ![w] = Head(queue)]
    /\ Goto(w, "get", IF Head(queue) = None THEN "barrier" ELSE "exec")
    /\ arrived' = IF Head(queue) = None THEN arrived \cup {w} ELSE arrived
    /\ UNCHANGED <<backlog, unfinished, serverVars, finished>>

\* The get blocks while the queue is empty.
get_task(w) ==
    /\ queue # <<>>
    /\ queue' = Tail(queue)
    /\ job' = [job EXCEPT ![w] = Head(queue)]
    /\ Goto(w, "get", IF Head(queue) = None THEN "barrier" ELSE "exec")
    /\ arrived' = IF Head(queue) = None THEN arrived \cup {w} ELSE arrived
    /\ UNCHANGED <<backlog, unfinished, serverVars, finished>>

exec_task(w) ==
    /\ Goto(w, "exec", "task_done")
    /\ finished' = finished \cup {job[w]}
    /\ UNCHANGED <<backlog, queue, unfinished, serverVars, job, arrived>>

\* Mutant: no taskQueueMemoryBarrier.wait().
NoBarrier(w) ==
    /\ Goto(w, "barrier", "notify")
    /\ UNCHANGED <<backlog, queue, unfinished, serverVars, job, arrived, finished>>

\* taskQueueMemoryBarrier.wait() returns when every worker is there.
BarrierTrips(w) ==
    /\ arrived = Workers
    /\ Goto(w, "barrier", "notify")
    /\ UNCHANGED <<backlog, queue, unfinished, serverVars, job, arrived, finished>>

\* Mutant: the worker leaves the barrier without notifying.
NotifyNobody(w) ==
    /\ Goto(w, "notify", "task_done")
    /\ UNCHANGED <<backlog, queue, unfinished, serverVars, job, arrived, finished>>

\* Mutant: task_done is called for commands only.
NotifyWithoutTaskDone(w) ==
    /\ Goto(w, "notify", "loop")
    /\ srv' = IF srv = "wait" THEN "woken" ELSE srv
    /\ job' = [job EXCEPT ![w] = Nothing]
    /\ UNCHANGED <<backlog, queue, unfinished, puts, reply, stop, arrived, finished>>

NotifyAll(w) ==
    /\ Goto(w, "notify", "task_done")
    /\ srv' = IF srv = "wait" THEN "woken" ELSE srv
    /\ UNCHANGED <<backlog, queue, unfinished, puts, reply, stop, job, arrived, finished>>

TaskDone(w) ==
    /\ Goto(w, "task_done", "loop")
    /\ unfinished' = unfinished - 1
    /\ job' = [job EXCEPT ![w] = Nothing]
    /\ UNCHANGED <<backlog, queue, serverVars, arrived, finished>>

\* Every step of a worker but exec_task, whose effect is the client's.
WorkerLoop(w) ==
    \/ TestStop(w) \/ Poll(w) \/ get_task(w)
    \/ BarrierTrips(w) \/ NotifyAll(w) \/ TaskDone(w)
=============================================================================
