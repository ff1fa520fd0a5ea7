--------------------------- MODULE ActorThreadPool ---------------------------
(***************************************************************************)
(* ActorThreadPool: a fixed pool of threads that runs the tasks of each    *)
(* actor one at a time, in order.  The selector thread is the only one     *)
(* that calls submit and shutdown; the worker threads run the tasks and    *)
(* call complete.  submit and complete work under the monitor of the       *)
(* actor, and every operation inside the monitor is a step of its own.     *)
(***************************************************************************)
EXTENDS Naturals, Sequences

CONSTANTS Act,       \* the actors: the connection handlers
          Worker,    \* the threads of the fixed pool
          MaxTasks,  \* bound: the number of tasks submitted for each actor
          Selector,  \* the thread that submits
          None

ASSUME PoolAssumption == /\ Selector \notin Worker
                         /\ None \notin Worker \cup {Selector}
                         /\ None \notin Act
                         /\ MaxTasks \in Nat

VARIABLES
  playingNow,  \* the actors that have a task queued or running
  pending,     \* acts: the tasks of each actor that wait behind it
  queue,       \* the queue of the executor, in FIFO order
  monitor,     \* the thread in synchronized(act), for each actor
  selector,    \* where the selector thread is: the step and the actor
  pc, act, task,  \* where each worker is, the actor and the task it has
  submitted,   \* tasks handed to the pool for each actor, numbered from 1
  done,        \* history: the number of the task of each actor that ended last
  down         \* shutdown was called

workers == <<pc, act, task>>
vars == <<playingNow, pending, queue, monitor, selector, workers, submitted,
          done, down>>

Thread == Worker \cup {Selector}

Init ==
  /\ playingNow = {}
  /\ pending = [a \in Act |-> << >>]
  /\ queue = << >>
  /\ monitor = [a \in Act |-> None]
  /\ selector = [pc |-> "idle", act |-> None]
  /\ pc = [w \in Worker |-> "idle"]
  /\ act = [w \in Worker |-> None]
  /\ task = [w \in Worker |-> 0]
  /\ submitted = [a \in Act |-> 0]
  /\ done = [a \in Act |-> 0]
  /\ down = FALSE

-----------------------------------------------------------------------------
NoMonitor(a) == TRUE  \* mutant: submit and complete are not synchronized
Free(a) == monitor[a] = None

Enter(t, a) == Free(a) /\ monitor' = [monitor EXCEPT ![a] = t]
Leave(a) == monitor' = [monitor EXCEPT ![a] = None]

(* threads.execute; a pool that is shut down rejects the task.             *)
Execute(a, k) == queue' = IF down THEN queue ELSE Append(queue, [act |-> a, task |-> k])

-----------------------------------------------------------------------------
(* submit(act, r), on the selector thread                                  *)

SubmitEnter(a) ==
  /\ selector.pc = "idle" /\ submitted[a] < MaxTasks
  /\ Enter(Selector, a)
  /\ selector' = [pc |-> "test", act |-> a]
  /\ UNCHANGED <<playingNow, pending, queue, workers, submitted, done, down>>

(* Mutant: the actor is not put into playingNow.                           *)
ForgetPlaying ==
  /\ selector.pc = "test"
  /\ selector' = [pc |-> IF selector.act \in playingNow THEN "pend" ELSE "execute",
                  act |-> selector.act]
  /\ UNCHANGED <<playingNow, pending, queue, monitor, workers, submitted, done, down>>

SubmitTest ==
  /\ selector.pc = "test"
  /\ playingNow' = playingNow \cup {selector.act}
  /\ selector' = [pc |-> IF selector.act \in playingNow THEN "pend" ELSE "execute",
                  act |-> selector.act]
  /\ UNCHANGED <<pending, queue, monitor, workers, submitted, done, down>>

Push(s, k) == <<k>> \o s  \* mutant: the task goes to the front
Add(s, k) == Append(s, k)

SubmitEnd ==
  LET a == selector.act  k == submitted[a] + 1 IN
  /\ \/ /\ selector.pc = "execute"
        /\ Execute(a, k)
        /\ UNCHANGED pending
     \/ /\ selector.pc = "pend"
        /\ pending' = [pending EXCEPT ![a] = Add(@, k)]
        /\ UNCHANGED queue
  /\ submitted' = [submitted EXCEPT ![a] = k]
  /\ Leave(a)
  /\ selector' = [pc |-> "idle", act |-> None]
  /\ UNCHANGED <<playingNow, workers, done, down>>

(* shutdownNow, after the main loop of the reactor: the queue is dropped   *)
(* and nothing is submitted any more.                                      *)
Shutdown ==
  /\ selector.pc = "idle"
  /\ selector' = [pc |-> "ended", act |-> None]
  /\ down' = TRUE
  /\ queue' = << >>
  /\ UNCHANGED <<playingNow, pending, monitor, workers, submitted, done>>

-----------------------------------------------------------------------------
(* A worker thread: the lambda of execute, then complete(act)              *)

Take(w) ==
  /\ pc[w] = "idle" /\ queue # << >>
  /\ pc' = [pc EXCEPT ![w] = "run"]
  /\ act' = [act EXCEPT ![w] = Head(queue).act]
  /\ task' = [task EXCEPT ![w] = Head(queue).task]
  /\ queue' = Tail(queue)
  /\ UNCHANGED <<playingNow, pending, monitor, selector, submitted, done, down>>

(* Mutant: complete is not called when the task throws.                    *)
SkipComplete(w) ==
  /\ pc[w] = "run"
  /\ done' = [done EXCEPT ![act[w]] = task[w]]
  /\ \E next \in {"idle", "complete"} : pc' = [pc EXCEPT ![w] = next]
  /\ UNCHANGED <<playingNow, pending, queue, monitor, selector, act, task,
                 submitted, down>>

(* r.run() returns or throws: complete is called in a finally.             *)
RunEnd(w) ==
  /\ pc[w] = "run"
  /\ done' = [done EXCEPT ![act[w]] = task[w]]
  /\ pc' = [pc EXCEPT ![w] = "complete"]
  /\ UNCHANGED <<playingNow, pending, queue, monitor, selector, act, task,
                 submitted, down>>

CompleteEnter(w) ==
  /\ pc[w] = "complete"
  /\ Enter(w, act[w])
  /\ pc' = [pc EXCEPT ![w] = "test"]
  /\ UNCHANGED <<playingNow, pending, queue, selector, act, task, submitted,
                 done, down>>

CompleteTest(w) ==
  /\ pc[w] = "test"
  /\ pc' = [pc EXCEPT ![w] = IF pending[act[w]] = << >> THEN "remove" ELSE "poll"]
  /\ UNCHANGED <<playingNow, pending, queue, monitor, selector, act, task,
                 submitted, done, down>>

(* Mutant: isEmpty is not asked, and poll gives null for an empty queue.   *)
PollUntested(w) ==
  LET a == act[w] IN
  /\ pc[w] \in {"remove", "poll"}
  /\ Execute(a, IF pending[a] = << >> THEN None ELSE Head(pending[a]))
  /\ pending' = [pending EXCEPT ![a] = IF @ = << >> THEN @ ELSE Tail(@)]
  /\ Leave(a)
  /\ pc' = [pc EXCEPT ![w] = "idle"]
  /\ act' = [act EXCEPT ![w] = None]
  /\ task' = [task EXCEPT ![w] = 0]
  /\ UNCHANGED <<playingNow, selector, submitted, done, down>>

CompleteEnd(w) ==
  LET a == act[w] IN
  /\ \/ /\ pc[w] = "remove"
        /\ playingNow' = playingNow \ {a}
        /\ UNCHANGED <<pending, queue>>
     \/ /\ pc[w] = "poll"
        /\ Execute(a, Head(pending[a]))
        /\ pending' = [pending EXCEPT ![a] = Tail(@)]
        /\ UNCHANGED playingNow
  /\ Leave(a)
  /\ pc' = [pc EXCEPT ![w] = "idle"]
  /\ act' = [act EXCEPT ![w] = None]
  /\ task' = [task EXCEPT ![w] = 0]
  /\ UNCHANGED <<selector, submitted, done, down>>

-----------------------------------------------------------------------------
Submit == SubmitTest \/ SubmitEnd
Work(w) == RunEnd(w) \/ CompleteEnter(w) \/ CompleteTest(w) \/ CompleteEnd(w)

Next == \/ \E a \in Act : SubmitEnter(a)
        \/ Submit
        \/ Shutdown
        \/ \E w \in Worker : Take(w) \/ Work(w)

(* The threads run; the reactor need not read, and need not stop.  The     *)
(* tasks return: each handles the bytes of one buffer.                     *)
Fairness == /\ WF_vars(Submit)
            /\ WF_vars(\E w \in Worker : Take(w))
            /\ \A w \in Worker : WF_vars(Work(w))

Spec == Init /\ [][Next]_vars /\ Fairness

-----------------------------------------------------------------------------
(* What the variables are, whatever the threads do.  The queues hold tasks *)
(* and never null: complete polls only what it found not to be empty.      *)
TypeOK ==
  /\ playingNow \in SUBSET Act
  /\ pending \in [Act -> Seq(Nat)]
  /\ queue \in Seq([act : Act, task : Nat])
  /\ monitor \in [Act -> Thread \cup {None}]
  /\ selector \in [pc : {"idle", "test", "execute", "pend", "ended"},
                   act : Act \cup {None}]
  /\ pc \in [Worker -> {"idle", "run", "complete", "test", "remove", "poll"}]
  /\ act \in [Worker -> Act \cup {None}]
  /\ task \in [Worker -> Nat]
  /\ submitted \in [Act -> Nat]
  /\ done \in [Act -> Nat]
  /\ down \in BOOLEAN

(* No two threads run tasks of one actor: the handler's decoder and        *)
(* protocol are not written for two threads.                               *)
OneAtATime ==
  \A v, w \in Worker : pc[v] = "run" /\ pc[w] = "run" /\ act[v] = act[w] => v = w

Queued == {queue[i].act : i \in DOMAIN queue}
WorkedOn == {act[w] : w \in Worker}

(* A task that waits behind its actor has a queued task or a thread ahead  *)
(* of it that will call complete: the test of playingNow in submit and the *)
(* removal in complete do not cross.                                       *)
NoStrandedTask ==
  \A a \in Act : pending[a] # << >> =>
    \/ down
    \/ a \in playingNow /\ a \in Queued \cup WorkedOn

(* Every task handed to the pool is run, unless the pool is shut down.     *)
EveryTaskRuns ==
  \A a \in Act : \A k \in 1..MaxTasks :
    submitted[a] >= k ~> (done[a] >= k \/ down)

(* The task of actor a that runs now, or 0.                                *)
runningNow == [a \in Act |->
  IF \E w \in Worker : pc[w] = "run" /\ act[w] = a
  THEN task[CHOOSE w \in Worker : pc[w] = "run" /\ act[w] = a]
  ELSE 0]

Serial == INSTANCE SerialExecutor WITH running <- runningNow

(* Serial, in order, and nothing starts after a shutdown.                  *)
RunsSerially == Serial!Spec

=============================================================================
