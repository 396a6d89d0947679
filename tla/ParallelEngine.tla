--------------------------- MODULE ParallelEngine ---------------------------
(***************************************************************************)
(* WitcherParallelEngine on the thread pool: main starts the pool, run     *)
(* dispatches one command per TX, waits, and reads the result files in     *)
(* epilogue; main then quits the pool.  PPDGParallel uses the pool the     *)
(* same way, with the ppdg files of merge_ppdgs as results.                *)
(*                                                                         *)
(* A command is one CrashManager run in a process of its own; it leaves a  *)
(* result file, or none if it gave up or died.                             *)
(***************************************************************************)
EXTENDS ThreadPool

VARIABLES cpc,        \* where main is
          sent,       \* the tasks dispatched
          results,    \* the tasks whose result file exists
          examined,   \* the tasks whose file the epilogue has looked for
          collected   \* the tasks whose results it read

clientVars == <<cpc, sent, examined, collected>>
vars == <<poolVars, clientVars, results>>

Init ==
    /\ InitPool
    /\ cpc = "dispatch" /\ sent = {}
    /\ results = {} /\ examined = {} /\ collected = {}

threadPoolDispatchTask(t) ==
    /\ cpc = "dispatch"
    /\ t \notin sent
    /\ sent' = sent \cup {t}
    /\ backlog' = Append(backlog, t)
    /\ UNCHANGED <<queue, unfinished, serverVars, workerVars, cpc, results, examined, collected>>

threadPoolWait ==
    /\ cpc = "dispatch"
    /\ sent = Tasks
    /\ cpc' = "wait"
    /\ backlog' = Append(backlog, "Barrier")
    /\ UNCHANGED <<queue, unfinished, serverVars, workerVars, sent, results, examined, collected>>

WaitReturns ==
    /\ cpc = "wait"
    /\ reply
    /\ cpc' = "epilogue"
    /\ UNCHANGED <<poolVars, sent, results, examined, collected>>

\* A TX without a result file counts as one without candidates.
epilogue(t) ==
    /\ cpc = "epilogue"
    /\ t \notin examined
    /\ examined' = examined \cup {t}
    /\ collected' = IF t \in results THEN collected \cup {t} ELSE collected
    /\ UNCHANGED <<poolVars, cpc, sent, results>>

threadPoolQuit ==
    /\ cpc = "epilogue"
    /\ examined = Tasks
    /\ cpc' = "quit"
    /\ backlog' = Append(backlog, "Quit")
    /\ UNCHANGED <<queue, unfinished, serverVars, workerVars, sent, results, examined, collected>>

Client ==
    \/ threadPoolWait \/ WaitReturns \/ threadPoolQuit
    \/ \E t \in Tasks : threadPoolDispatchTask(t) \/ epilogue(t)

Execute(w) ==
    /\ exec_task(w)
    /\ results' \in {results, results \cup {job[w]}}
    /\ UNCHANGED clientVars

Worker(w) == Execute(w) \/ (WorkerLoop(w) /\ UNCHANGED <<clientVars, results>>)

ServerStep == Server /\ UNCHANGED <<clientVars, results>>

Next == Client \/ ServerStep \/ \E w \in Workers : Worker(w)

\* Threads are scheduled fairly and commands end (CrashManager's Termination;
\* the executions it starts have a timeout).
Fairness ==
    /\ WF_vars(Client) /\ WF_vars(ServerStep)
    /\ \A w \in Workers : WF_vars(Worker(w))

Spec == Init /\ [][Next]_vars /\ Fairness
-----------------------------------------------------------------------------
\* The types of the pool's and the engine's state: the queue holds tasks and
\* Nones only, and no more Nones are put than there are workers.
TypeOK ==
    /\ backlog \in Seq(Tasks \cup {"Barrier", "Quit"})
    /\ queue \in Seq(Tasks \cup {None})
    /\ unfinished \in Nat
    /\ srv \in {"accept", "put", "wait", "woken", "join", "stop", "exit"}
    /\ puts \in 0..Cardinality(Workers)
    /\ reply \in BOOLEAN
    /\ wpc \in [Workers -> {"loop", "poll", "get", "exec", "barrier", "notify",
                            "task_done", "stopped"}]
    /\ job \in [Workers -> Tasks \cup {None, Nothing}]
    /\ arrived \subseteq Workers /\ stop \subseteq Workers
    /\ finished \subseteq Tasks
    /\ cpc \in {"dispatch", "wait", "epilogue", "quit"}
    /\ sent \subseteq Tasks /\ results \subseteq Tasks
    /\ examined \subseteq Tasks /\ collected \subseteq Tasks

Holding == {w \in Workers : job[w] # Nothing}

\* The entries queued or held by a worker are what unfinished counts.
UnfinishedExact == unfinished = Len(queue) + Cardinality(Holding)

\* The epilogue reads every result there is: when a file is looked for, its
\* command is over, so no result appears after it was found missing.
EpilogueComplete ==
    cpc \in {"epilogue", "quit"} =>
        finished = Tasks /\ collected = results \cap examined

\* None of the workers that stop_thread joins is, or gets, blocked on the queue.
NoStrandedWorker ==
    srv \in {"stop", "exit"} =>
        queue = <<>> /\ \A w \in Workers : wpc[w] \in {"loop", "poll", "stopped"}

\* The count queue.join waits for reaches zero neither early nor late, task_done
\* never underflows, and the unguarded qsize-then-get strands no worker on the
\* way out.
PoolConsistent == TypeOK /\ UnfinishedExact /\ NoStrandedWorker

\* The pool as an implementation of TaskPool.
TP == INSTANCE TaskPool
      WITH state <- [t \in Tasks |->
                        IF \E w \in Workers : job[w] = t /\ wpc[w] = "exec" THEN "running"
                        ELSE IF t \in finished THEN "finished"
                        ELSE IF t \in sent THEN "submitted" ELSE "new"],
           wait  <- CASE cpc = "dispatch" -> "idle"
                      [] cpc = "wait"     -> "waiting"
                      [] OTHER            -> "returned"

\* The pool runs each task once and lets the wait return only afterwards.
ImplementsTaskPool == TP!Spec

\* A server that sleeps before the last worker has notified is woken.
SleeperWoken ==
    srv = "wait" /\ (\E w \in Workers : w \notin arrived \/ wpc[w] \in {"barrier", "notify"})
        ~> cpc = "epilogue"

\* Once Quit is sent every thread ends, so the process does.
QuitEnds ==
    cpc = "quit" ~> srv = "exit" /\ \A w \in Workers : wpc[w] = "stopped"

\* run reaches its epilogue: "print the result".
RunPrintsResult == <>(cpc = "epilogue")
=============================================================================
