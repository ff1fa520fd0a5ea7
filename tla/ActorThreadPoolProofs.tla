------------------------ MODULE ActorThreadPoolProofs ------------------------
(***************************************************************************)
(* Proofs about ActorThreadPool, for any actors, threads and number of     *)
(* tasks: its type invariant, that an actor is served by one thread at a   *)
(* time, that no waiting task is stranded, and that it implements          *)
(* SerialExecutor.                                                         *)
(***************************************************************************)
EXTENDS ActorThreadPool, Integers, TLAPS

(* An actor has at most one carrier: an entry of the queue, a thread that  *)
(* runs one of its tasks or completes it, or the selector thread that is   *)
(* about to execute one.                                                   *)
Executing == IF selector.pc = "execute" THEN {selector.act} ELSE {}

InMonitor ==
  /\ selector.pc \in {"test", "execute", "pend"} =>
       selector.act \in Act /\ monitor[selector.act] = Selector
  /\ \A w \in Worker : /\ pc[w] # "idle" => act[w] \in Act
                       /\ pc[w] = "idle" => act[w] = None
                       /\ pc[w] \in {"test", "remove", "poll"} => monitor[act[w]] = w

OneCarrier ==
  /\ \A v, w \in Worker : act[v] = act[w] /\ act[v] \in Act => v = w
  /\ Queued \cap WorkedOn = {}
  /\ Executing \cap (Queued \cup WorkedOn) = {}

QueuedOnce == \A i, j \in DOMAIN queue : queue[i].act = queue[j].act => i = j

Playing ==
  /\ \A a \in Act : a \in Queued \cup WorkedOn \cup Executing => a \in playingNow
  /\ down \/ playingNow \subseteq Queued \cup WorkedOn \cup Executing
  /\ selector.pc = "pend" => selector.act \in playingNow

Waiting ==
  /\ \A a \in Act : a \notin playingNow \/ a \in Executing => pending[a] = << >>
  /\ \A w \in Worker : /\ pc[w] = "remove" => pending[act[w]] = << >>
                       /\ pc[w] = "poll" => pending[act[w]] # << >>
  /\ down => selector.pc = "ended" /\ queue = << >>

(* The number of the last task of each actor taken out of pending.         *)
Dispatched == [a \in Act |-> submitted[a] - Len(pending[a])]

NumberedPending ==
  \A a \in Act : \A i \in DOMAIN pending[a] : pending[a][i] = Dispatched[a] + i

NumberedQueue ==
  \A i \in DOMAIN queue : /\ queue[i].task = Dispatched[queue[i].act]
                          /\ queue[i].task = done[queue[i].act] + 1

NumberedWork ==
  \A w \in Worker :
    /\ pc[w] = "run" => /\ task[w] = Dispatched[act[w]]
                        /\ task[w] = done[act[w]] + 1
    /\ pc[w] \in {"complete", "test", "remove", "poll"} =>
         done[act[w]] = Dispatched[act[w]]

AllDone == \A a \in Act : a \notin playingNow \/ a \in Executing => done[a] = submitted[a]

Numbered == NumberedPending /\ NumberedQueue /\ NumberedWork /\ AllDone

IInv == TypeOK /\ InMonitor /\ OneCarrier /\ QueuedOnce
          /\ Playing /\ Waiting /\ Numbered

-----------------------------------------------------------------------------
Entry == [act : Act, task : Nat]

(* The queue of the executor when an entry is added and taken.             *)
LEMMA AppendQueue ==
  ASSUME queue \in Seq(Entry), NEW e \in Entry, queue' = Append(queue, e)
  PROVE  /\ queue' \in Seq(Entry)
         /\ DOMAIN queue = 1..Len(queue) /\ DOMAIN queue' = 1..(Len(queue) + 1)
         /\ Len(queue) \in Nat
         /\ \A i \in 1..Len(queue) : queue'[i] = queue[i]
         /\ queue'[Len(queue) + 1] = e
         /\ Queued' = Queued \cup {e.act}
<1>1. /\ queue' \in Seq(Entry)
      /\ DOMAIN queue = 1..Len(queue) /\ DOMAIN queue' = 1..(Len(queue) + 1)
      /\ Len(queue) \in Nat
      /\ \A i \in 1..Len(queue) : queue'[i] = queue[i]
      /\ queue'[Len(queue) + 1] = e
  OBVIOUS
<1> QED BY <1>1 DEF Queued

LEMMA TailQueue ==
  ASSUME queue \in Seq(Entry), queue # << >>, queue' = Tail(queue), QueuedOnce
  PROVE  /\ queue' \in Seq(Entry) /\ Head(queue) \in Entry
         /\ DOMAIN queue = 1..Len(queue) /\ DOMAIN queue' = 1..(Len(queue) - 1)
         /\ Len(queue) \in Nat
         /\ \A i \in 1..(Len(queue) - 1) : queue'[i] = queue[i + 1]
         /\ Head(queue) = queue[1] /\ 1 \in DOMAIN queue
         /\ Queued' = Queued \ {Head(queue).act} /\ Head(queue).act \in Queued
<1>1. /\ queue' \in Seq(Entry) /\ Head(queue) \in Entry
      /\ DOMAIN queue = 1..Len(queue) /\ DOMAIN queue' = 1..(Len(queue) - 1)
      /\ Len(queue) \in Nat
      /\ \A i \in 1..(Len(queue) - 1) : queue'[i] = queue[i + 1]
      /\ Head(queue) = queue[1] /\ 1 \in DOMAIN queue
  OBVIOUS
<1>2. ASSUME NEW a \in Queued' PROVE a \in Queued /\ a # Head(queue).act
  <2>1. PICK i \in 1..(Len(queue) - 1) : queue[i + 1].act = a
    BY <1>1, <1>2 DEF Queued
  <2> QED BY <1>1, <2>1 DEF Queued, QueuedOnce
<1>3. ASSUME NEW a \in Queued, a # Head(queue).act PROVE a \in Queued'
  <2>1. PICK i \in 1..Len(queue) : queue[i].act = a
    BY <1>1, <1>3 DEF Queued
  <2>2. i - 1 \in 1..(Len(queue) - 1) /\ queue'[i - 1].act = a
    BY <1>1, <1>3, <2>1
  <2> QED BY <1>1, <2>2 DEF Queued
<1>4. Head(queue).act \in Queued
  BY <1>1 DEF Queued
<1> QED BY <1>1, <1>2, <1>3, <1>4

LEMMA Entries ==
  ASSUME queue \in Seq(Entry)
  PROVE  \A i \in DOMAIN queue : /\ queue[i] \in Entry /\ queue[i].act \in Act
                                 /\ queue[i].task \in Nat
                                 /\ queue[i].act \in Queued
<1>1. \A i \in DOMAIN queue : queue[i] \in Entry
  OBVIOUS
<1> QED BY <1>1 DEF Entry, Queued

LEMMA InitInv == Init => IInv
<1> SUFFICES ASSUME Init PROVE IInv
  OBVIOUS
<1> USE PoolAssumption DEF Init
<1>1. TypeOK
  <2>1. /\ playingNow \in SUBSET Act
        /\ pending \in [Act -> Seq(Nat)]
        /\ queue \in Seq([act : Act, task : Nat])
        /\ monitor \in [Act -> Thread \cup {None}]
        /\ selector \in [pc : {"idle", "test", "execute", "pend", "ended"},
                         act : Act \cup {None}]
    BY DEF Thread
  <2>2. /\ pc \in [Worker -> {"idle", "run", "complete", "test", "remove", "poll"}]
        /\ act \in [Worker -> Act \cup {None}]
        /\ task \in [Worker -> Nat]
    OBVIOUS
  <2>3. submitted \in [Act -> Nat] /\ done \in [Act -> Nat] /\ down \in BOOLEAN
    OBVIOUS
  <2> QED BY <2>1, <2>2, <2>3 DEF TypeOK
<1>2. InMonitor
  BY DEF InMonitor
<1>3. OneCarrier
  BY DEF OneCarrier, Executing, Queued
<1>4. QueuedOnce
  BY DEF QueuedOnce
<1>5. Playing
  BY DEF Playing, Executing, Queued, WorkedOn
<1>6. Waiting
  BY DEF Waiting, Executing
<1>7. Numbered
  BY DEF Numbered, NumberedPending, NumberedQueue, NumberedWork, AllDone,
         Dispatched, Executing
<1> QED BY <1>1, <1>2, <1>3, <1>4, <1>5, <1>6, <1>7 DEF IInv

(* The selector thread in submit.                                          *)
LEMMA SubmitInv ==
  ASSUME IInv, (\E a \in Act : SubmitEnter(a)) \/ SubmitTest \/ Shutdown
  PROVE  IInv'
<1> USE PoolAssumption DEF IInv
<1>1. ASSUME NEW a \in Act, SubmitEnter(a) PROVE IInv'
  <2> USE <1>1 DEF SubmitEnter, workers
  <2>1. TypeOK'
    BY DEF TypeOK, Enter, Thread
  <2>2. InMonitor'
    BY DEF InMonitor, Enter, Free, TypeOK, Thread
  <2>3. /\ Queued' = Queued /\ WorkedOn' = WorkedOn
        /\ Executing = {} /\ Executing' = {}
    BY DEF Queued, WorkedOn, Executing
  <2>4. OneCarrier' /\ QueuedOnce'
    BY <2>3 DEF OneCarrier, QueuedOnce
  <2>5. Playing' /\ Waiting'
    BY <2>3 DEF Playing, Waiting
  <2>6. Numbered'
    BY <2>3 DEF Numbered, NumberedPending, NumberedQueue,
                  NumberedWork, AllDone, Dispatched
  <2> QED BY <2>1, <2>2, <2>4, <2>5, <2>6
<1>2. ASSUME SubmitTest PROVE IInv'
  <2> DEFINE a == selector.act
  <2> USE <1>2 DEF SubmitTest, workers
  <2>0. a \in Act /\ monitor[a] = Selector
    BY DEF InMonitor
  <2>1. TypeOK'
    BY <2>0 DEF TypeOK
  <2>2. InMonitor'
    BY <2>0 DEF InMonitor, TypeOK
  <2>3. /\ Queued' = Queued /\ WorkedOn' = WorkedOn
        /\ Executing = {}
        /\ Executing' = IF a \in playingNow THEN {} ELSE {a}
    BY DEF Queued, WorkedOn, Executing, TypeOK
  <2>4. OneCarrier' /\ QueuedOnce'
    BY <2>0, <2>3 DEF OneCarrier, QueuedOnce, Playing
  <2>5. Playing'
    BY <2>0, <2>3 DEF Playing, TypeOK
  <2>6. Waiting'
    BY <2>0, <2>3 DEF Waiting
  <2>7. Numbered'
    BY <2>0, <2>3 DEF Numbered, NumberedPending, NumberedQueue,
                  NumberedWork, AllDone, Dispatched
  <2> QED BY <2>1, <2>2, <2>4, <2>5, <2>6, <2>7
<1>3. ASSUME Shutdown PROVE IInv'
  <2> USE <1>3 DEF Shutdown, workers
  <2>1. TypeOK'
    BY DEF TypeOK
  <2>2. InMonitor'
    BY DEF InMonitor
  <2>3. /\ Queued' = {} /\ WorkedOn' = WorkedOn
        /\ Executing = {} /\ Executing' = {}
    BY DEF Queued, WorkedOn, Executing
  <2>4. OneCarrier' /\ QueuedOnce'
    BY <2>3 DEF OneCarrier, QueuedOnce
  <2>5. Playing' /\ Waiting'
    BY <2>3 DEF Playing, Waiting
  <2>6. Numbered'
    BY <2>3 DEF Numbered, NumberedPending, NumberedQueue,
                  NumberedWork, AllDone, Dispatched
  <2> QED BY <2>1, <2>2, <2>4, <2>5, <2>6
<1> QED BY <1>1, <1>2, <1>3

LEMMA SubmitEndInv == ASSUME IInv, SubmitEnd PROVE IInv'
<1> USE PoolAssumption DEF IInv, SubmitEnd, workers
<1> DEFINE a == selector.act
           k == submitted[a] + 1
<1>0. /\ a \in Act /\ monitor[a] = Selector /\ ~down
      /\ selector.pc \in {"execute", "pend"}
  BY DEF InMonitor, Waiting
<1>1. WorkedOn' = WorkedOn /\ Executing' = {}
  BY DEF WorkedOn, Executing
<1>2. InMonitor'
  BY <1>0 DEF InMonitor, Leave, TypeOK
<1>3. CASE selector.pc = "execute"
  <2>1. /\ queue' = Append(queue, [act |-> a, task |-> k]) /\ pending' = pending
        /\ Executing = {a} /\ pending[a] = << >> /\ done[a] = submitted[a]
        /\ k \in Nat
    BY <1>0, <1>3 DEF Execute, Executing, Waiting, Numbered, AllDone, TypeOK
  <2>2. [act |-> a, task |-> k] \in Entry /\ queue \in Seq(Entry)
    BY <1>0, <2>1 DEF Entry, TypeOK
  <2>3. /\ queue' \in Seq(Entry)
        /\ DOMAIN queue = 1..Len(queue) /\ DOMAIN queue' = 1..(Len(queue) + 1)
        /\ Len(queue) \in Nat
        /\ \A i \in 1..Len(queue) : queue'[i] = queue[i]
        /\ queue'[Len(queue) + 1] = [act |-> a, task |-> k]
        /\ Queued' = Queued \cup {a}
    BY <2>1, <2>2, AppendQueue
  <2>4. TypeOK'
    BY <1>0, <2>1, <2>3 DEF TypeOK, Leave, Entry
  <2>5. OneCarrier'
    BY <1>1, <2>1, <2>3 DEF OneCarrier
  <2>6. \A i \in DOMAIN queue : /\ queue[i].act \in Act /\ queue[i].act # a
                                /\ queue[i].task \in Nat
    BY <2>1, <2>2, Entries DEF OneCarrier
  <2>7. QueuedOnce'
    BY <2>3, <2>6 DEF QueuedOnce
  <2>8. Playing'
    BY <1>0, <1>1, <2>1, <2>3 DEF Playing
  <2>9. Waiting'
    BY <1>0, <1>1, <2>1 DEF Waiting
  <2>10. /\ Dispatched'[a] = k /\ submitted'[a] = k
         /\ \A b \in Act \ {a} : /\ Dispatched'[b] = Dispatched[b]
                                /\ submitted'[b] = submitted[b]
    BY <1>0, <2>1 DEF Dispatched, TypeOK
  <2>11. NumberedPending'
    <3>1. \A b \in Act : \A i \in DOMAIN pending[b] : b # a
      BY <2>1
    <3> QED BY <2>1, <2>10, <3>1 DEF Numbered, NumberedPending
  <2>12. NumberedQueue'
    <3>1. \A i \in DOMAIN queue : /\ queue'[i].task = Dispatched'[queue'[i].act]
                                  /\ queue'[i].task = done'[queue'[i].act] + 1
      BY <2>3, <2>6, <2>10 DEF Numbered, NumberedQueue
    <3>2. /\ queue'[Len(queue) + 1].act = a /\ queue'[Len(queue) + 1].task = k
          /\ Dispatched'[a] = k /\ done'[a] + 1 = k
      <4>1. queue'[Len(queue) + 1] = [act |-> a, task |-> k] /\ Dispatched'[a] = k
        BY <2>3, <2>10
      <4>2. done'[a] + 1 = k
        BY <2>1
      <4> QED BY <4>1, <4>2
    <3>3. \A i \in DOMAIN queue' : i \in DOMAIN queue \/ i = Len(queue) + 1
      BY <2>3
    <3> QED BY <3>1, <3>2, <3>3 DEF NumberedQueue
  <2>13. NumberedWork'
    <3>1. \A w \in Worker : act[w] # a
      BY <2>1 DEF OneCarrier, WorkedOn
    <3> QED BY <2>1, <2>10, <3>1 DEF Numbered, NumberedWork, InMonitor
  <2>14. AllDone'
    <3>1. a \in playingNow
      BY <1>0, <2>1 DEF Playing
    <3> QED BY <1>1, <2>10, <3>1 DEF Numbered, AllDone
  <2> QED
    BY <1>2, <2>4, <2>5, <2>7, <2>8, <2>9, <2>11, <2>12, <2>13, <2>14 DEF Numbered
<1>4. CASE selector.pc = "pend"
  <2>1. /\ queue' = queue /\ pending' = [pending EXCEPT ![a] = Append(@, k)]
        /\ Executing = {} /\ Queued' = Queued /\ k \in Nat /\ a \in playingNow
    BY <1>0, <1>4 DEF Executing, Add, Queued, Playing, TypeOK
  <2>2. TypeOK'
    BY <1>0, <2>1 DEF TypeOK, Leave
  <2>3. OneCarrier' /\ QueuedOnce'
    BY <1>1, <2>1 DEF OneCarrier, QueuedOnce
  <2>4. Playing'
    BY <1>0, <1>1, <2>1 DEF Playing
  <2>5. Waiting'
    <3>1. \A w \in Worker : pc[w] \in {"remove", "poll"} => act[w] # a /\ act[w] \in Act
      BY <1>0 DEF InMonitor
    <3> QED BY <1>0, <1>1, <2>1, <3>1 DEF Waiting, TypeOK
  <2>6. Numbered'
    <3>1. /\ pending[a] \in Seq(Nat)
          /\ Len(pending'[a]) = Len(pending[a]) + 1
          /\ Len(pending[a]) \in Nat
          /\ DOMAIN pending[a] = 1..Len(pending[a])
          /\ DOMAIN pending'[a] = 1..(Len(pending[a]) + 1)
          /\ \A i \in DOMAIN pending[a] : pending'[a][i] = pending[a][i]
          /\ pending'[a][Len(pending[a]) + 1] = k
          /\ \A b \in Act \ {a} : pending'[b] = pending[b]
      BY <1>0, <2>1 DEF TypeOK
    <3>2. Dispatched' = Dispatched /\ Dispatched[a] = submitted[a] - Len(pending[a])
      <4>1. \A b \in Act : submitted'[b] - Len(pending'[b]) = submitted[b] - Len(pending[b])
        BY <1>0, <3>1 DEF TypeOK
      <4> QED BY <1>0, <4>1 DEF Dispatched
    <3>3. NumberedPending'
      <4>1. ASSUME NEW b \in Act, NEW i \in DOMAIN pending'[b]
            PROVE  pending'[b][i] = Dispatched[b] + i
        <5>1. CASE b # a
          BY <3>1, <4>1, <5>1 DEF Numbered, NumberedPending
        <5>2. CASE b = a /\ i \in DOMAIN pending[a]
          BY <3>1, <4>1, <5>2 DEF Numbered, NumberedPending
        <5>3. CASE b = a /\ i = Len(pending[a]) + 1
          BY <1>0, <3>1, <3>2, <5>3 DEF TypeOK
        <5> QED BY <3>1, <4>1, <5>1, <5>2, <5>3, SMTT(30)
      <4> QED BY <3>2, <4>1 DEF NumberedPending
    <3>4. NumberedQueue'
      BY <2>1, <3>2 DEF Numbered, NumberedQueue
    <3>5. NumberedWork'
      BY <3>2 DEF Numbered, NumberedWork
    <3>6. AllDone'
      BY <1>0, <1>1, <2>1 DEF Numbered, AllDone, TypeOK
    <3> QED BY <3>3, <3>4, <3>5, <3>6 DEF Numbered
  <2> QED BY <1>2, <2>2, <2>3, <2>4, <2>5, <2>6
<1> QED BY <1>0, <1>3, <1>4

(* A worker thread.                                                        *)
LEMMA TakeInv == ASSUME IInv, NEW w \in Worker, Take(w) PROVE IInv'
<1> USE PoolAssumption DEF IInv, Take
<1> DEFINE a == Head(queue).act
<1>1. queue \in Seq(Entry) /\ queue # << >>
  BY DEF Entry, TypeOK
<1>2. /\ queue' \in Seq(Entry) /\ Head(queue) \in Entry
      /\ DOMAIN queue = 1..Len(queue) /\ DOMAIN queue' = 1..(Len(queue) - 1)
      /\ Len(queue) \in Nat
      /\ \A i \in 1..(Len(queue) - 1) : queue'[i] = queue[i + 1]
      /\ Head(queue) = queue[1] /\ 1 \in DOMAIN queue
      /\ Queued' = Queued \ {a} /\ a \in Queued
  BY <1>1, TailQueue
<1>3. a \in Act /\ Head(queue).task \in Nat
  BY <1>2 DEF Entry
<1>4. TypeOK'
  BY <1>2, <1>3 DEF TypeOK, Entry
<1>5. InMonitor'
  BY <1>3 DEF InMonitor, TypeOK
<1>6. /\ act[w] = None /\ a \notin WorkedOn /\ Executing' = Executing
      /\ WorkedOn' \ {None} = (WorkedOn \cup {a}) \ {None}
  <2>1. act[w] = None /\ a \notin WorkedOn /\ Executing' = Executing
    BY <1>2 DEF InMonitor, OneCarrier, Executing
  <2> QED BY <2>1, <1>3, SMTT(30) DEF WorkedOn, TypeOK
<1>7. Queued \subseteq Act /\ Executing \subseteq Act
  BY <1>1, Entries DEF Queued, Executing, InMonitor
<1>8. OneCarrier'
  <2>1. \A u, v \in Worker : act'[u] = act'[v] /\ act'[u] \in Act => u = v
    BY <1>3, <1>6 DEF OneCarrier, WorkedOn, TypeOK
  <2> QED BY <2>1, <1>2, <1>6, <1>7 DEF OneCarrier
<1>9. QueuedOnce'
  BY <1>2 DEF QueuedOnce
<1>10. Playing'
  <2>1. \A b \in Act : b \in Queued' \cup WorkedOn' \cup Executing' <=>
                      b \in Queued \cup WorkedOn \cup Executing
    BY <1>2, <1>3, <1>6, PoolAssumption
  <2> QED BY <2>1 DEF Playing, TypeOK
<1>11. Waiting'
  BY <1>1, <1>6 DEF Waiting, TypeOK
<1>12. Numbered'
  <2>1. Dispatched' = Dispatched
    BY DEF Dispatched
  <2>2. Head(queue).task = Dispatched[a] /\ Head(queue).task = done[a] + 1
    BY <1>2 DEF Numbered, NumberedQueue
  <2>3. NumberedQueue'
    BY <1>2, <2>1 DEF Numbered, NumberedQueue
  <2>4. NumberedWork'
    BY <1>3, <2>1, <2>2 DEF Numbered, NumberedWork, TypeOK
  <2>5. NumberedPending' /\ AllDone'
    BY <1>6, <2>1 DEF Numbered, NumberedPending, AllDone
  <2> QED BY <2>3, <2>4, <2>5 DEF Numbered
<1> QED BY <1>4, <1>5, <1>8, <1>9, <1>10, <1>11, <1>12

(* The steps of a worker that only move it along.                          *)
LEMMA MoveInv ==
  ASSUME IInv, NEW w \in Worker,
         RunEnd(w) \/ CompleteEnter(w) \/ CompleteTest(w)
  PROVE  IInv'
<1> USE PoolAssumption DEF IInv
<1>1. /\ UNCHANGED <<playingNow, pending, queue, selector, act, task, submitted,
                     down>>
      /\ pc[w] # "idle" /\ act[w] \in Act
  BY DEF RunEnd, CompleteEnter, CompleteTest, InMonitor
<1>2. Queued' = Queued /\ WorkedOn' = WorkedOn /\ Executing' = Executing
  BY <1>1 DEF Queued, WorkedOn, Executing
<1>3. OneCarrier' /\ QueuedOnce'
  BY <1>1, <1>2 DEF OneCarrier, QueuedOnce
<1>4. Playing'
  BY <1>1, <1>2 DEF Playing
<1>5. \A v \in Worker : v # w /\ act[v] \in Act => act[v] # act[w]
  BY <1>1 DEF OneCarrier
<1>6. Dispatched' = Dispatched
  BY <1>1 DEF Dispatched
<1>7. CASE RunEnd(w)
  <2>1. TypeOK'
    BY <1>7, <1>1 DEF RunEnd, TypeOK
  <2>2. InMonitor' /\ Waiting'
    BY <1>7, <1>1, <1>2, SMTT(30) DEF RunEnd, InMonitor, Waiting, TypeOK
  <2>3. act[w] \notin Queued /\ act[w] \in playingNow /\ act[w] \notin Executing
    BY <1>1 DEF OneCarrier, WorkedOn, Playing
  <2>4. \A i \in DOMAIN queue : queue[i].act \in Act /\ queue[i].act # act[w]
    BY <2>3, Entries DEF Entry, TypeOK
  <2>5. /\ done'[act[w]] = task[w] /\ task[w] = Dispatched[act[w]]
        /\ \A b \in Act \ {act[w]} : done'[b] = done[b]
    BY <1>7, <1>1 DEF RunEnd, Numbered, NumberedWork, TypeOK
  <2>6. NumberedQueue'
    BY <1>1, <1>6, <2>4, <2>5 DEF Numbered, NumberedQueue
  <2>7. NumberedWork'
    BY <1>7, <1>5, <1>1, <1>6, <2>5
    DEF RunEnd, Numbered, NumberedWork, InMonitor, TypeOK
  <2>8. NumberedPending' /\ AllDone'
    BY <1>1, <1>2, <1>6, <2>3, <2>5 DEF Numbered, NumberedPending, AllDone
  <2> QED BY <1>3, <1>4, <2>1, <2>2, <2>6, <2>7, <2>8 DEF Numbered
<1>8. CASE CompleteEnter(w)
  <2>1. TypeOK'
    BY <1>8, <1>1 DEF CompleteEnter, Enter, TypeOK, Thread
  <2>2. InMonitor'
    BY <1>8, <1>1 DEF CompleteEnter, Enter, Free, InMonitor, TypeOK, Thread
  <2>3. Waiting'
    BY <1>8, <1>1, <1>2, SMTT(30) DEF CompleteEnter, Waiting, TypeOK
  <2>4. Numbered'
    BY <1>8, <1>1, <1>2, <1>6
    DEF CompleteEnter, Numbered, NumberedPending, NumberedQueue, NumberedWork,
        AllDone, TypeOK
  <2> QED BY <1>3, <1>4, <2>1, <2>2, <2>3, <2>4
<1>9. CASE CompleteTest(w)
  <2>1. TypeOK'
    BY <1>9, <1>1 DEF CompleteTest, TypeOK
  <2>2. InMonitor'
    BY <1>9, <1>1 DEF CompleteTest, InMonitor, TypeOK
  <2>3. Waiting'
    <3>1. /\ pc'[w] = "remove" => pending[act[w]] = << >>
          /\ pc'[w] = "poll" => pending[act[w]] # << >>
          /\ \A v \in Worker \ {w} : pc'[v] = pc[v]
      BY <1>9 DEF CompleteTest, TypeOK
    <3> QED BY <1>9, <1>1, <1>2, <3>1 DEF CompleteTest, Waiting
  <2>4. Numbered'
    BY <1>9, <1>1, <1>2, <1>6
    DEF CompleteTest, Numbered, NumberedPending, NumberedQueue, NumberedWork,
        AllDone, TypeOK
  <2> QED BY <1>3, <1>4, <2>1, <2>2, <2>3, <2>4
<1> QED BY <1>7, <1>8, <1>9

(* What polling the next task of an actor does to the numbers.             *)
LEMMA TailOfPending ==
  ASSUME NEW s \in Seq(Nat), s # << >>
  PROVE  /\ Tail(s) \in Seq(Nat) /\ Len(s) \in Nat /\ Len(Tail(s)) = Len(s) - 1
         /\ Head(s) = s[1] /\ s[1] \in Nat /\ 1 \in DOMAIN s
         /\ \A i \in DOMAIN Tail(s) : /\ i \in Nat /\ i + 1 \in DOMAIN s
                                      /\ Tail(s)[i] = s[i + 1]
OBVIOUS

LEMMA Poll ==
  ASSUME TypeOK, NumberedPending, NEW a \in Act, pending[a] # << >>,
         pending' = [pending EXCEPT ![a] = Tail(@)], submitted' = submitted
  PROVE  /\ pending' \in [Act -> Seq(Nat)] /\ NumberedPending'
         /\ \A b \in Act \ {a} : pending'[b] = pending[b]
         /\ Head(pending[a]) \in Nat /\ Head(pending[a]) = Dispatched[a] + 1
         /\ Dispatched'[a] = Dispatched[a] + 1 /\ Dispatched[a] \in Int
         /\ \A b \in Act \ {a} : Dispatched'[b] = Dispatched[b]
<1>1. pending[a] \in Seq(Nat) /\ pending'[a] = Tail(pending[a])
  BY DEF TypeOK
<1>2. /\ Tail(pending[a]) \in Seq(Nat) /\ Len(pending[a]) \in Nat
      /\ Len(Tail(pending[a])) = Len(pending[a]) - 1
      /\ Head(pending[a]) = pending[a][1] /\ pending[a][1] \in Nat
      /\ 1 \in DOMAIN pending[a]
      /\ \A i \in DOMAIN Tail(pending[a]) :
           /\ i \in Nat /\ i + 1 \in DOMAIN pending[a]
           /\ Tail(pending[a])[i] = pending[a][i + 1]
  BY <1>1, TailOfPending
<1>3. /\ pending' \in [Act -> Seq(Nat)]
      /\ \A b \in Act \ {a} : pending'[b] = pending[b]
  BY <1>2 DEF TypeOK
<1>4. /\ Dispatched'[a] = Dispatched[a] + 1 /\ Dispatched[a] \in Int
      /\ \A b \in Act \ {a} : Dispatched'[b] = Dispatched[b]
  BY <1>1, <1>2, <1>3 DEF Dispatched, TypeOK
<1>5. Head(pending[a]) = Dispatched[a] + 1
  BY <1>2 DEF NumberedPending
<1>6. ASSUME NEW i \in DOMAIN pending'[a]
      PROVE  pending'[a][i] = Dispatched'[a] + i
  <2>1. i \in Nat /\ i + 1 \in DOMAIN pending[a] /\ pending'[a][i] = pending[a][i + 1]
    BY <1>1, <1>2, <1>6
  <2>2. pending[a][i + 1] = Dispatched[a] + (i + 1)
    BY <2>1 DEF NumberedPending
  <2>3. \A d \in Int : \A n \in Nat : d + (n + 1) = (d + 1) + n
    OBVIOUS
  <2> QED BY <1>4, <2>1, <2>2, <2>3
<1>7. ASSUME NEW b \in Act \ {a}, NEW i \in DOMAIN pending'[b]
      PROVE  pending'[b][i] = Dispatched'[b] + i
  <2>1. b \in Act /\ pending'[b] = pending[b] /\ Dispatched'[b] = Dispatched[b]
    BY <1>3, <1>4
  <2>2. i \in DOMAIN pending[b]
    BY <2>1, Zenon
  <2>3. pending[b][i] = Dispatched[b] + i
    BY <2>1, <2>2 DEF NumberedPending
  <2> QED BY <2>1, <2>3, Zenon
<1>8. NumberedPending'
  BY <1>6, <1>7 DEF NumberedPending
<1> QED BY <1>2, <1>3, <1>4, <1>5, <1>8

(* The end of complete: the actor is idle, or its next task is queued.     *)
LEMMA CompleteEndInv == ASSUME IInv, NEW w \in Worker, CompleteEnd(w) PROVE IInv'
<1> USE PoolAssumption DEF IInv, CompleteEnd
<1> DEFINE a == act[w]
<1>0. /\ a \in Act /\ monitor[a] = w /\ pc[w] \in {"remove", "poll"}
      /\ a \notin Queued /\ a \notin Executing /\ a \in WorkedOn /\ a \in playingNow
      /\ done[a] = Dispatched[a] /\ done[a] \in Nat
  BY DEF InMonitor, OneCarrier, WorkedOn, Playing, Numbered, NumberedWork, TypeOK
<1>1. /\ Executing' = Executing
      /\ WorkedOn' \ {None} = (WorkedOn \ {a}) \ {None}
      /\ \A v \in Worker \ {w} : act'[v] = act[v] /\ act[v] # a /\ pc'[v] = pc[v]
      /\ act'[w] = None /\ pc'[w] = "idle"
      /\ Executing \subseteq Act
  <2>1. /\ Executing' = Executing /\ Executing \subseteq Act
        /\ \A v \in Worker \ {w} : act'[v] = act[v] /\ act[v] # a /\ pc'[v] = pc[v]
        /\ act'[w] = None /\ pc'[w] = "idle"
    BY <1>0 DEF Executing, OneCarrier, InMonitor, TypeOK
  <2> QED BY <2>1, <1>0 DEF WorkedOn
<1>6. \A b \in Act : b \in WorkedOn' <=> b \in WorkedOn /\ b # a
  BY <1>1
<1>2. InMonitor'
  <2>1. \A v \in Worker : pc[v] \in {"test", "remove", "poll"} /\ v # w =>
          monitor'[act[v]] = v
    BY <1>0, <1>1 DEF Leave, InMonitor, TypeOK
  <2>2. selector.pc \in {"test", "execute", "pend"} =>
          selector.act # a /\ monitor'[selector.act] = Selector
    BY <1>0 DEF Leave, InMonitor, TypeOK
  <2> QED BY <1>1, <2>1, <2>2 DEF InMonitor
<1>3. /\ pc' \in [Worker -> {"idle", "run", "complete", "test", "remove", "poll"}]
      /\ act' \in [Worker -> Act \cup {None}]
      /\ task' \in [Worker -> Nat]
      /\ monitor' \in [Act -> Thread \cup {None}]
  BY <1>0 DEF Leave, TypeOK, Thread
<1>4. CASE pc[w] = "remove"
  <2>1. /\ playingNow' = playingNow \ {a} /\ UNCHANGED <<pending, queue>>
        /\ pending[a] = << >> /\ Queued' = Queued
    BY <1>4 DEF Waiting, Queued
  <2>2. TypeOK'
    BY <1>3, <2>1 DEF TypeOK
  <2>3. OneCarrier' /\ QueuedOnce'
    <3>1. Queued \subseteq Act
      BY Entries DEF Queued, Entry, TypeOK
    <3> QED BY <1>1, <2>1, <3>1 DEF OneCarrier, QueuedOnce
  <2>4. Playing'
    <3>1. \A b \in Act : b \in Queued' \cup WorkedOn' \cup Executing' <=>
                        b \in Queued \cup WorkedOn \cup Executing /\ b # a
      BY <1>0, <1>1, <1>6, <2>1
    <3>2. selector'.pc = "pend" => selector'.act # a
      BY <1>0 DEF InMonitor
    <3> QED BY <1>0, <2>1, <3>1, <3>2 DEF Playing, TypeOK
  <2>5. Waiting'
    BY <1>1, <2>1 DEF Waiting
  <2>6. Numbered'
    <3>1. Dispatched' = Dispatched /\ done[a] = submitted[a]
      BY <1>0, <2>1 DEF Dispatched, TypeOK
    <3> QED
      BY <1>1, <2>1, <3>1
      DEF Numbered, NumberedPending, NumberedQueue, NumberedWork, AllDone
  <2> QED BY <1>2, <2>2, <2>3, <2>4, <2>5, <2>6
<1>5. CASE pc[w] = "poll"
  <2> DEFINE k == Head(pending[a])
             e == [act |-> a, task |-> k]
  <2>1. /\ Execute(a, k) /\ pending' = [pending EXCEPT ![a] = Tail(@)]
        /\ playingNow' = playingNow /\ pending[a] # << >>
    BY <1>5 DEF Waiting
  <2>2. /\ pending' \in [Act -> Seq(Nat)] /\ NumberedPending'
        /\ \A b \in Act \ {a} : pending'[b] = pending[b]
        /\ k \in Nat /\ k = Dispatched[a] + 1
        /\ Dispatched'[a] = Dispatched[a] + 1 /\ Dispatched[a] \in Int
        /\ \A b \in Act \ {a} : Dispatched'[b] = Dispatched[b]
    BY <1>0, <2>1, Poll DEF Numbered
  <2>3. \A b \in Act \ {a} : Dispatched'[b] = Dispatched[b]
    BY <2>2
  <2>5. queue \in Seq(Entry) /\ e \in Entry
    BY <1>0, <2>2 DEF TypeOK, Entry
  <2>6. \A i \in DOMAIN queue : /\ queue[i].act \in Act /\ queue[i].act # a
                                /\ queue[i].task \in Nat
    BY <1>0, <2>5, Entries
  <2>8. NumberedWork'
    BY <1>1, <2>2 DEF Numbered, NumberedWork, InMonitor
  <2>9. AllDone'
    BY <1>0, <1>1, <2>1 DEF Numbered, AllDone
  <2>10. CASE ~down
    <3>1. queue' = Append(queue, e)
      BY <2>1, <2>10 DEF Execute
    <3>2. /\ queue' \in Seq(Entry)
          /\ DOMAIN queue = 1..Len(queue) /\ DOMAIN queue' = 1..(Len(queue) + 1)
          /\ Len(queue) \in Nat
          /\ \A i \in 1..Len(queue) : queue'[i] = queue[i]
          /\ queue'[Len(queue) + 1] = e
          /\ Queued' = Queued \cup {a}
      BY <2>5, <3>1, AppendQueue
    <3>3. TypeOK'
      BY <1>3, <2>1, <2>2, <3>2 DEF TypeOK, Entry
    <3>4. OneCarrier'
      <4>1. Queued \subseteq Act
        BY <2>6 DEF Queued
      <4> QED BY <1>0, <1>1, <3>2, <4>1 DEF OneCarrier
    <3>5. QueuedOnce'
      BY <2>6, <3>2 DEF QueuedOnce
    <3>6. Playing'
      <4>1. \A b \in Act : b \in Queued' \cup WorkedOn' \cup Executing' <=>
                          b \in Queued \cup WorkedOn \cup Executing
        BY <1>0, <1>1, <1>6, <3>2
      <4> QED BY <2>1, <4>1 DEF Playing, TypeOK
    <3>7. Waiting'
      BY <1>0, <1>1, <2>1, <2>2, <2>10 DEF Waiting, InMonitor
    <3>8. NumberedQueue'
      <4>1. \A i \in DOMAIN queue : /\ queue'[i].task = Dispatched'[queue'[i].act]
                                    /\ queue'[i].task = done'[queue'[i].act] + 1
        BY <2>3, <2>6, <3>2 DEF Numbered, NumberedQueue
      <4>2. /\ queue'[Len(queue) + 1].act = a /\ queue'[Len(queue) + 1].task = k
            /\ Dispatched'[a] = k /\ done'[a] + 1 = k
        BY <1>0, <2>2, <3>2
      <4>3. \A i \in DOMAIN queue' : i \in DOMAIN queue \/ i = Len(queue) + 1
        BY <3>2
      <4> QED BY <4>1, <4>2, <4>3 DEF NumberedQueue
    <3> QED
      BY <1>2, <2>2, <2>8, <2>9, <3>3, <3>4, <3>5, <3>6, <3>7, <3>8 DEF Numbered
  <2>11. CASE down
    <3>1. queue = << >> /\ queue' = << >> /\ Queued' = {} /\ Queued = {}
      BY <2>1, <2>11 DEF Execute, Waiting, Queued
    <3>2. TypeOK'
      BY <1>3, <2>1, <2>2, <3>1 DEF TypeOK
    <3>3. OneCarrier' /\ QueuedOnce' /\ NumberedQueue'
      BY <1>0, <1>1, <3>1 DEF OneCarrier, QueuedOnce, NumberedQueue
    <3>4. Playing'
      BY <1>0, <1>1, <2>1, <2>11, <3>1 DEF Playing
    <3>5. Waiting'
      BY <1>0, <1>1, <2>1, <2>2, <3>1 DEF Waiting, InMonitor
    <3> QED BY <1>2, <2>2, <2>8, <2>9, <3>2, <3>3, <3>4, <3>5 DEF Numbered
  <2> QED BY <2>10, <2>11 DEF TypeOK
<1> QED BY <1>0, <1>4, <1>5

LEMMA NextInv == IInv /\ [Next]_vars => IInv'
<1>1. ASSUME IInv, Next PROVE IInv'
  BY <1>1, SubmitInv, SubmitEndInv, TakeInv, MoveInv, CompleteEndInv
  DEF Next, Submit, Work
<1>2. ASSUME IInv, UNCHANGED vars PROVE IInv'
  <2> USE <1>2 DEF vars, workers, IInv
  <2>1. TypeOK' /\ InMonitor'
    BY DEF TypeOK, InMonitor
  <2>2. Queued' = Queued /\ WorkedOn' = WorkedOn /\ Executing' = Executing
        /\ Dispatched' = Dispatched
    BY DEF Queued, WorkedOn, Executing, Dispatched
  <2>3. OneCarrier' /\ QueuedOnce' /\ Playing' /\ Waiting'
    BY <2>2 DEF OneCarrier, QueuedOnce, Playing, Waiting
  <2>4. Numbered'
    BY <2>2 DEF Numbered, NumberedPending, NumberedQueue, NumberedWork, AllDone
  <2> QED BY <2>1, <2>3, <2>4
<1> QED BY <1>1, <1>2

-----------------------------------------------------------------------------
(* The strengthened invariant holds in every reachable state.              *)
THEOREM Invariant == Spec => []IInv
BY InitInv, NextInv, PTL DEF Spec

(* The variables of the pool keep their types, whatever the threads do.    *)
THEOREM TypeCorrect == Spec => []TypeOK
<1>1. IInv => TypeOK
  BY DEF IInv
<1> QED BY <1>1, Invariant, PTL

(* submit and complete between them never let two threads run tasks of one *)
(* connection handler.                                                     *)
THEOREM MutualExclusion == Spec => []OneAtATime
<1>1. IInv => OneAtATime
  BY DEF IInv, OneAtATime, OneCarrier, InMonitor
<1> QED BY <1>1, Invariant, PTL

(* A task that submit put aside always has a carrier ahead of it that will *)
(* fetch it in complete, until the pool is shut down.                      *)
THEOREM NothingStranded == Spec => []NoStrandedTask
<1>1. IInv => NoStrandedTask
  BY DEF IInv, NoStrandedTask, Playing, Waiting
<1> QED BY <1>1, Invariant, PTL

-----------------------------------------------------------------------------
(* What runningNow says, in any state where an actor has one carrier.      *)
RunningNow ==
  /\ \A w \in Worker : pc[w] = "run" => runningNow[act[w]] = task[w]
  /\ \A a \in Act : (\A w \in Worker : pc[w] = "run" => act[w] # a) => runningNow[a] = 0

LEMMA RunningTask == IInv => RunningNow
<1> SUFFICES ASSUME IInv PROVE RunningNow
  OBVIOUS
<1>1. ASSUME NEW w \in Worker, pc[w] = "run" PROVE runningNow[act[w]] = task[w]
  <2>1. act[w] \in Act /\ \A v \in Worker : act[v] = act[w] => v = w
    BY <1>1 DEF IInv, InMonitor, OneCarrier
  <2>2. (CHOOSE v \in Worker : pc[v] = "run" /\ act[v] = act[w]) = w
    BY <1>1, <2>1
  <2> QED BY <1>1, <2>1, <2>2 DEF runningNow
<1>2. ASSUME NEW a \in Act, \A w \in Worker : pc[w] = "run" => act[w] # a
      PROVE  runningNow[a] = 0
  BY <1>2 DEF runningNow
<1> QED BY <1>1, <1>2 DEF RunningNow

LEMMA RunningFunction == runningNow = [a \in Act |-> runningNow[a]]
BY DEF runningNow

LEMMA RefineStep ==
  ASSUME IInv, IInv', Next, RunningNow, RunningNow',
         runningNow' = [a \in Act |-> runningNow'[a]]
  PROVE  [Serial!Next]_<<submitted, runningNow, done, down>>
<1> USE PoolAssumption
<1>1. ASSUME NEW a \in Act, SubmitEnter(a)
      PROVE  UNCHANGED <<submitted, runningNow, done, down>>
  BY <1>1 DEF SubmitEnter, workers, runningNow
<1>2. ASSUME SubmitTest PROVE UNCHANGED <<submitted, runningNow, done, down>>
  BY <1>2 DEF SubmitTest, workers, runningNow
<1>3. ASSUME SubmitEnd PROVE Serial!Submit(selector.act) /\ selector.act \in Act
  <2>1. ~down /\ selector.act \in Act
    BY <1>3 DEF SubmitEnd, IInv, Waiting, InMonitor
  <2>2. runningNow' = runningNow
    BY <1>3 DEF SubmitEnd, workers, runningNow
  <2> QED BY <1>3, <2>1, <2>2 DEF SubmitEnd, Serial!Submit
<1>4. ASSUME Shutdown PROVE Serial!Shutdown
  <2>1. ~down
    BY <1>4 DEF Shutdown, IInv, Waiting, TypeOK
  <2>2. runningNow' = runningNow
    BY <1>4 DEF Shutdown, workers, runningNow
  <2> QED BY <1>4, <2>1, <2>2 DEF Shutdown, Serial!Shutdown
<1>5. ASSUME NEW w \in Worker, Take(w)
      PROVE  LET a == Head(queue).act IN a \in Act /\ Serial!Start(a)
  <2> DEFINE a == Head(queue).act
  <2>1. /\ a \in Act /\ a \notin WorkedOn /\ ~down
        /\ Head(queue).task = done[a] + 1 /\ Head(queue).task = Dispatched[a]
        /\ act[w] = None
    <3>1. Head(queue) \in Entry /\ 1 \in DOMAIN queue /\ Head(queue) = queue[1]
      <4>1. queue \in Seq(Entry) /\ queue # << >>
        BY <1>5 DEF Take, IInv, TypeOK, Entry
      <4> QED BY <4>1
    <3>2. a \in Act /\ a \in Queued
      BY <3>1 DEF Entry, Queued
    <3> QED
      BY <1>5, <3>1, <3>2
      DEF Take, IInv, OneCarrier, Waiting, Numbered, NumberedQueue, InMonitor
  <2>2. done[a] < submitted[a]
    <3>1. /\ done[a] \in Nat /\ submitted[a] \in Nat /\ Len(pending[a]) \in Nat
          /\ Dispatched[a] = submitted[a] - Len(pending[a])
      BY <2>1 DEF IInv, TypeOK, Dispatched
    <3> QED BY <2>1, <3>1
  <2>3. runningNow[a] = 0
    BY <2>1 DEF RunningNow, WorkedOn
  <2>4. runningNow'[a] = done[a] + 1
    BY <1>5, <2>1 DEF Take, RunningNow, IInv, TypeOK
  <2>5. \A b \in Act \ {a} : runningNow'[b] = runningNow[b]
    <3>1. TAKE b \in Act \ {a}
    <3>2. /\ pc'[w] = "run" /\ act'[w] = a
          /\ \A v \in Worker \ {w} : /\ pc'[v] = pc[v] /\ act'[v] = act[v]
                                     /\ task'[v] = task[v]
      BY <1>5 DEF Take, IInv, TypeOK
    <3>3. CASE \E v \in Worker : pc[v] = "run" /\ act[v] = b
      BY <2>1, <3>2, <3>3 DEF RunningNow
    <3>4. CASE \A v \in Worker : pc[v] = "run" => act[v] # b
      BY <3>2, <3>4 DEF RunningNow
    <3> QED BY <3>3, <3>4
  <2>6. runningNow' = [runningNow EXCEPT ![a] = done[a] + 1]
    BY <2>1, <2>4, <2>5, RunningFunction
  <2> QED BY <1>5, <2>1, <2>2, <2>3, <2>6 DEF Take, Serial!Start
<1>6. ASSUME NEW w \in Worker, RunEnd(w)
      PROVE  act[w] \in Act /\ Serial!Finish(act[w])
  <2> DEFINE a == act[w]
  <2>1. /\ a \in Act /\ runningNow[a] = task[w] /\ task[w] = done[a] + 1
        /\ done[a] \in Nat /\ \A v \in Worker : act[v] = a => v = w
    BY <1>6
    DEF RunEnd, IInv, TypeOK, InMonitor, OneCarrier, Numbered, NumberedWork, RunningNow
  <2>2. /\ pc'[w] = "complete" /\ UNCHANGED <<act, task, submitted, down>>
        /\ \A v \in Worker \ {w} : pc'[v] = pc[v]
    BY <1>6 DEF RunEnd, IInv, TypeOK
  <2>3. runningNow'[a] = 0
    BY <2>1, <2>2 DEF RunningNow
  <2>4. \A b \in Act \ {a} : runningNow'[b] = runningNow[b]
    <3>1. TAKE b \in Act \ {a}
    <3>2. CASE \E v \in Worker : pc[v] = "run" /\ act[v] = b
      BY <2>2, <3>2 DEF RunningNow
    <3>3. CASE \A v \in Worker : pc[v] = "run" => act[v] # b
      BY <2>2, <3>3 DEF RunningNow
    <3> QED BY <3>2, <3>3
  <2>5. runningNow' = [runningNow EXCEPT ![a] = 0]
    BY <2>1, <2>3, <2>4, RunningFunction
  <2>6. runningNow[a] # 0 /\ done' = [done EXCEPT ![a] = runningNow[a]]
    BY <1>6, <2>1 DEF RunEnd
  <2> QED BY <2>1, <2>2, <2>5, <2>6 DEF Serial!Finish
<1>7. ASSUME NEW w \in Worker, CompleteEnter(w) \/ CompleteTest(w) \/ CompleteEnd(w)
      PROVE  UNCHANGED <<submitted, runningNow, done, down>>
  <2>1. /\ UNCHANGED <<submitted, done, down>>
        /\ pc[w] # "run" /\ pc'[w] # "run"
        /\ \A v \in Worker \ {w} : /\ pc'[v] = pc[v] /\ act'[v] = act[v]
                                   /\ task'[v] = task[v]
    <3>1. CASE CompleteEnter(w)
      BY <3>1 DEF CompleteEnter, IInv, TypeOK
    <3>2. CASE CompleteTest(w)
      BY <3>2 DEF CompleteTest, IInv, TypeOK
    <3>3. CASE CompleteEnd(w)
      BY <3>3 DEF CompleteEnd, IInv, TypeOK
    <3> QED BY <1>7, <3>1, <3>2, <3>3
  <2>2. \A b \in Act : runningNow'[b] = runningNow[b]
    <3>1. TAKE b \in Act
    <3>2. CASE \E v \in Worker : pc[v] = "run" /\ act[v] = b
      BY <2>1, <3>2 DEF RunningNow
    <3>3. CASE \A v \in Worker : pc[v] = "run" => act[v] # b
      BY <2>1, <3>3 DEF RunningNow
    <3> QED BY <3>2, <3>3
  <2> QED BY <2>1, <2>2, RunningFunction
<1> QED
  BY <1>1, <1>2, <1>3, <1>4, <1>5, <1>6, <1>7
  DEF Next, Submit, Work, Serial!Next

(* The pool implements the serial executor: per actor the tasks run one at *)
(* a time, in the order of submit, each once, and none starts after        *)
(* shutdown.                                                               *)
THEOREM Refinement == Spec => RunsSerially
<1>1. Init => Serial!Init
  BY DEF Init, Serial!Init, runningNow
<1>2. (IInv => RunningNow)'
  BY RunningTask, PTL
<1>3. ASSUME IInv, IInv', [Next]_vars
      PROVE  [Serial!Next]_<<submitted, runningNow, done, down>>
  <2>1. RunningNow
    BY <1>3, RunningTask
  <2>2. RunningNow' /\ runningNow' = [a \in Act |-> runningNow'[a]]
    BY <1>3, <1>2 DEF runningNow
  <2>3. CASE UNCHANGED vars
    BY <2>3 DEF vars, workers, runningNow
  <2> QED BY <1>3, <2>1, <2>2, <2>3, RefineStep
<1> QED
  BY <1>1, <1>3, Invariant, PTL DEF Spec, RunsSerially, Serial!Spec

=============================================================================
