--------------------------- MODULE TpcServerProofs ---------------------------
(***************************************************************************)
(* Proofs about TpcServer, for any connections and frames: its type        *)
(* invariant, that a broadcast meets no handler without an output stream   *)
(* and serves everybody it started with, and that the server implements    *)
(* PubSub.                                                                 *)
(***************************************************************************)
EXTENDS TpcServer, TLAPS

Inside == {"next", "deliver"}

(* A connection has no thread until it is accepted, and out from the first *)
(* step of the thread on; only then can it log in.                         *)
OutFirst ==
  /\ \A c \in Conn : peer[c] = "calling" => thread[c] = "none"
  /\ \A c \in Conn : thread[c] \notin {"none", "start"} => c \in out
  /\ routed \subseteq out
  /\ \A c \in Conn : todo[c] \subseteq out

(* The monitor of the queue is held by the thread inside the broadcast.    *)
QueueHeld ==
  /\ \A c \in Conn : thread[c] \in Inside <=> queueMonitor = c
  /\ \A c \in Conn : thread[c] \notin Inside => todo[c] = {}

(* A handler is still to be visited, is the target, or was written to: one *)
(* of the three.                                                           *)
OneCopy ==
  \A c \in Conn :
    /\ todo[c] \cap got[c] = {}
    /\ thread[c] = "deliver" =>
         target[c] \in out /\ target[c] \notin todo[c] \cup got[c]

Served == \A c \in Conn : audience[c] \cap connected \subseteq got[c] \cup Owed(c)

IInv == TypeOK /\ OutFirst /\ QueueHeld /\ OneCopy /\ Served

-----------------------------------------------------------------------------
(* A message is put into a socket that has room for it, or that nobody     *)
(* reads any more.                                                         *)
LEMMA PutType ==
  ASSUME NEW k \in Conn, unread \in [Conn -> 0..Room], Taken(k), Put(k)
  PROVE  unread' \in [Conn -> 0..Room]
<1>1. CASE peer[k] = "left"
  BY <1>1 DEF Put
<1>2. CASE peer[k] # "left"
  <2>1. unread[k] \in 0..Room /\ unread[k] < Room /\ Room \in Nat
    BY <1>2, TpcAssumption DEF Taken
  <2>2. unread[k] + 1 \in 0..Room
    BY <2>1
  <2> QED BY <1>2, <2>2 DEF Put
<1> QED BY <1>1, <1>2

(* The steps of a peer and of the accept loop.                             *)
LEMMA OutsideInv ==
  ASSUME IInv, NEW c \in Conn, Peer(c) \/ Accept(c) \/ Read(c)
  PROVE  IInv'
<1> USE DEF IInv
<1>1. CASE PeerReads(c)
  <2>1. unread' \in [Conn -> 0..Room]
    <3>1. unread[c] \in 0..Room /\ unread[c] > 0 /\ Room \in Nat
      BY <1>1, TpcAssumption DEF PeerReads, TypeOK
    <3>2. unread[c] - 1 \in 0..Room
      BY <3>1
    <3> QED BY <1>1, <3>2 DEF PeerReads, TypeOK
  <2>2. TypeOK'
    BY <1>1, <2>1 DEF PeerReads, TypeOK, handlers, monitors, broadcast
  <2> QED
    BY <1>1, <2>2 DEF PeerReads, OutFirst, QueueHeld, OneCopy, Served, Owed,
                      handlers, monitors, broadcast
<1>2. CASE PeerLeaves(c)
  <2>1. TypeOK'
    BY <1>2 DEF PeerLeaves, TypeOK, handlers, monitors, broadcast
  <2>2. OutFirst'
    BY <1>2 DEF PeerLeaves, TypeOK, OutFirst, handlers, monitors, broadcast
  <2> QED
    BY <1>2, <2>1, <2>2 DEF PeerLeaves, QueueHeld, OneCopy, Served, Owed,
                            handlers, monitors, broadcast
<1>3. CASE Accept(c)
  <2>1. thread[c] = "none"
    BY <1>3 DEF Accept, OutFirst
  <2>2. TypeOK'
    BY <1>3 DEF Accept, Goto, TypeOK, monitors, broadcast
  <2>3. OutFirst'
    BY <1>3, <2>1 DEF Accept, Goto, TypeOK, OutFirst, monitors, broadcast
  <2>4. QueueHeld'
    BY <1>3, <2>1 DEF Accept, Goto, TypeOK, QueueHeld, Inside, monitors, broadcast
  <2>5. OneCopy' /\ Served'
    BY <1>3, <2>1 DEF Accept, Goto, TypeOK, OneCopy, Served, Owed, monitors, broadcast
  <2> QED BY <2>2, <2>3, <2>4, <2>5
<1>4. CASE Read(c)
  <2>1. TypeOK'
    BY <1>4 DEF Read, Goto, TypeOK, ends, handlers, monitors, broadcast
  <2>2. OutFirst'
    BY <1>4 DEF Read, Goto, TypeOK, OutFirst, ends, handlers, monitors, broadcast
  <2>3. QueueHeld'
    BY <1>4 DEF Read, Goto, TypeOK, QueueHeld, Inside, handlers, monitors, broadcast
  <2>4. OneCopy' /\ Served'
    BY <1>4 DEF Read, Goto, TypeOK, OneCopy, Served, Owed, handlers, monitors, broadcast
  <2> QED BY <2>1, <2>2, <2>3, <2>4
<1> QED BY <1>1, <1>2, <1>3, <1>4 DEF Peer

(* A step of a thread outside a broadcast leaves the broadcasts alone.     *)
LEMMA ThreadStep ==
  ASSUME TypeOK, NEW c \in Conn,
         \/ Start(c) \/ Check(c) \/ EndOfStream(c) \/ Process(c)
         \/ Respond(c) \/ Write(c) \/ WriteFails(c)
  PROVE  /\ thread[c] \notin Inside \cup {"none"}
         /\ thread' = [thread EXCEPT ![c] = thread'[c]]
         /\ thread'[c] \in {"check", "read", "acquire", "respond", "write", "ended"}
         /\ UNCHANGED <<peer, connected, queueMonitor, todo, target, audience, got>>
<1>1. CASE Start(c)
  BY <1>1 DEF Start, Goto, TypeOK, Inside, ends, monitors, broadcast
<1>2. CASE Check(c)
  BY <1>2 DEF Check, End, Goto, TypeOK, Inside, ends, monitors, broadcast
<1>3. CASE EndOfStream(c)
  BY <1>3 DEF EndOfStream, End, Goto, TypeOK, Inside, ends, monitors, broadcast
<1>4. CASE Process(c)
  BY <1>4 DEF Process, Goto, TypeOK, Inside, ends, handlers, monitors, broadcast
<1>5. CASE Respond(c)
  BY <1>5 DEF Respond, Goto, TypeOK, Inside, ends, handlers, broadcast
<1>6. CASE Write(c)
  BY <1>6 DEF Write, Goto, TypeOK, Inside, handlers, broadcast
<1>7. CASE WriteFails(c)
  BY <1>7 DEF WriteFails, End, Goto, TypeOK, Inside, ends, broadcast
<1> QED BY <1>1, <1>2, <1>3, <1>4, <1>5, <1>6, <1>7

(* The steps of a thread outside a broadcast keep the invariant.           *)
LEMMA ThreadInv ==
  ASSUME IInv, NEW c \in Conn,
         \/ Start(c) \/ Check(c) \/ EndOfStream(c) \/ Process(c)
         \/ Respond(c) \/ Write(c) \/ WriteFails(c)
  PROVE  IInv'
<1> USE DEF IInv
<1>1. /\ thread[c] \notin Inside \cup {"none"}
      /\ thread' = [thread EXCEPT ![c] = thread'[c]]
      /\ thread'[c] \in {"check", "read", "acquire", "respond", "write", "ended"}
      /\ UNCHANGED <<peer, connected, queueMonitor, todo, target, audience, got>>
  BY ThreadStep
<1>2. /\ out \subseteq out' /\ out' \subseteq Conn /\ c \in out'
      /\ routed' = routed \/ routed' = routed \cup {c}
      /\ open' \subseteq Conn /\ read' = read
      /\ handlerMonitor' \in [Conn -> Conn \cup {None}]
      /\ unread' \in [Conn -> 0..Room]
  <2>1. CASE Start(c)
    BY <2>1 DEF Start, TypeOK, ends, monitors
  <2> SUFFICES ASSUME ~Start(c) PROVE
        /\ out' = out /\ c \in out
        /\ routed' = routed \/ routed' = routed \cup {c}
        /\ open' \subseteq open /\ read' = read
        /\ handlerMonitor' \in [Conn -> Conn \cup {None}]
        /\ unread' \in [Conn -> 0..Room]
    BY <2>1 DEF TypeOK
  <2>2. CASE Check(c)
    BY <2>2 DEF Check, End, TypeOK, OutFirst, ends, monitors
  <2>3. CASE EndOfStream(c)
    BY <2>3 DEF EndOfStream, End, TypeOK, OutFirst, ends, monitors
  <2>4. CASE Process(c)
    BY <2>4 DEF Process, TypeOK, OutFirst, ends, handlers, monitors
  <2>5. CASE Respond(c)
    BY <2>5 DEF Respond, TypeOK, OutFirst, ends, handlers
  <2>6. CASE Write(c)
    BY <2>6, PutType DEF Write, Leave, TypeOK, OutFirst, handlers
  <2>7. CASE WriteFails(c)
    BY <2>7 DEF WriteFails, Leave, End, TypeOK, OutFirst, ends
  <2> QED BY <2>2, <2>3, <2>4, <2>5, <2>6, <2>7
<1>3. TypeOK' /\ OutFirst'
  <2>1. \A k \in Conn : thread'[k] = IF k = c THEN thread'[c] ELSE thread[k]
    BY <1>1 DEF TypeOK
  <2>2. TypeOK'
    <3>1. thread' \in [Conn -> {"none", "start", "check", "read", "process",
                                "acquire", "next", "deliver", "respond", "write",
                                "ended"}]
      BY <1>1 DEF TypeOK
    <3>2. routed' \subseteq Conn
      BY <1>2 DEF TypeOK
    <3> QED BY <1>1, <1>2, <3>1, <3>2 DEF TypeOK
  <2>3. peer[c] # "calling"
    BY <1>1 DEF OutFirst
  <2>4. OutFirst'
    BY <1>1, <1>2, <2>1, <2>3 DEF OutFirst, TypeOK
  <2> QED BY <2>2, <2>4
<1>4. QueueHeld'
  BY <1>1 DEF QueueHeld, Inside, TypeOK
<1>5. OneCopy'
  <2>1. \A k \in Conn : thread'[k] = "deliver" => thread[k] = "deliver"
    BY <1>1 DEF TypeOK
  <2> QED BY <1>1, <1>2, <2>1 DEF OneCopy
<1>6. Served'
  <2>1. \A k \in Conn : Owed(k)' = Owed(k)
    BY <1>1 DEF TypeOK, Owed, Inside
  <2> QED BY <1>1, <2>1 DEF Served
<1> QED BY <1>3, <1>4, <1>5, <1>6

(* The steps of a broadcast.                                               *)
LEMMA BroadcastInv ==
  ASSUME IInv, NEW c \in Conn,
         \/ Acquire(c) \/ Visit(c) \/ Deliver(c) \/ DeliverNot(c)
         \/ DeliverFails(c) \/ EndBroadcast(c)
  PROVE  IInv'
<1> USE TpcAssumption DEF IInv
<1>1. CASE Acquire(c)
  <2>1. TypeOK'
    BY <1>1 DEF Acquire, Goto, TypeOK, ends, handlers
  <2>2. OutFirst'
    BY <1>1 DEF Acquire, Goto, TypeOK, OutFirst, ends, handlers
  <2>3. QueueHeld'
    BY <1>1 DEF Acquire, Goto, TypeOK, QueueHeld, Inside, ends, handlers
  <2>4. OneCopy'
    BY <1>1 DEF Acquire, Goto, TypeOK, OneCopy, ends, handlers
  <2>5. Served'
    BY <1>1 DEF Acquire, Goto, TypeOK, Served, Owed, ends, handlers
  <2> QED BY <2>1, <2>2, <2>3, <2>4, <2>5
<1>2. CASE Visit(c)
  <2>1. PICK k \in todo[c] :
          /\ handlerMonitor' = [handlerMonitor EXCEPT ![k] = c]
          /\ todo' = [todo EXCEPT ![c] = @ \ {k}]
          /\ target' = [target EXCEPT ![c] = k]
    BY <1>2 DEF Visit
  <2>2. k \in Conn /\ k \in out /\ k \notin got[c] /\ thread[c] = "next"
    BY <1>2, <2>1 DEF Visit, TypeOK, OutFirst, OneCopy
  <2>3. /\ thread' = [thread EXCEPT ![c] = "deliver"]
        /\ UNCHANGED <<peer, unread, read, out, connected, open, routed,
                       queueMonitor, audience, got>>
    BY <1>2 DEF Visit, Goto, ends, handlers
  <2>4. TypeOK'
    BY <2>1, <2>2, <2>3 DEF TypeOK
  <2>5. OutFirst'
    BY <2>1, <2>2, <2>3 DEF TypeOK, OutFirst
  <2>6. QueueHeld'
    BY <2>1, <2>2, <2>3 DEF TypeOK, QueueHeld, Inside
  <2>7. OneCopy'
    BY <2>1, <2>2, <2>3 DEF TypeOK, OneCopy
  <2>8. Served'
    BY <2>1, <2>2, <2>3 DEF TypeOK, Served, Owed
  <2> QED BY <2>4, <2>5, <2>6, <2>7, <2>8
<1>3. CASE Deliver(c)
  <2> DEFINE k == target[c]
  <2>1. thread[c] = "deliver" /\ k \in Conn /\ k \in out /\ k \notin todo[c]
    BY <1>3 DEF Deliver, OneCopy, TypeOK
  <2>2. /\ Taken(k) /\ Put(k)
        /\ thread' = [thread EXCEPT ![c] = "next"]
        /\ got' = [got EXCEPT ![c] = @ \cup {k}]
        /\ handlerMonitor' = [handlerMonitor EXCEPT ![k] = None]
        /\ UNCHANGED <<peer, read, out, connected, open, routed, queueMonitor,
                       todo, target, audience>>
    BY <1>3, <2>1 DEF Deliver, Leave, Goto
  <2>3. unread' \in [Conn -> 0..Room]
    BY <2>1, <2>2, PutType DEF TypeOK
  <2>4. TypeOK'
    BY <2>1, <2>2, <2>3 DEF TypeOK
  <2>5. OutFirst'
    BY <2>1, <2>2 DEF TypeOK, OutFirst
  <2>6. QueueHeld'
    BY <2>1, <2>2 DEF TypeOK, QueueHeld, Inside
  <2>7. OneCopy'
    BY <2>1, <2>2 DEF TypeOK, OneCopy
  <2>8. Served'
    BY <2>1, <2>2 DEF TypeOK, Served, Owed
  <2> QED BY <2>4, <2>5, <2>6, <2>7, <2>8
<1>4. CASE DeliverNot(c) \/ DeliverFails(c)
  <2> DEFINE k == target[c]
  <2>1. /\ thread[c] = "deliver" /\ k \in Conn
        /\ connected' = connected \ {k}
        /\ thread' = [thread EXCEPT ![c] = "next"]
        /\ handlerMonitor' = [handlerMonitor EXCEPT ![k] = None]
        /\ UNCHANGED <<peer, unread, read, out, open, routed, queueMonitor,
                       todo, target, audience, got>>
    <3>1. CASE DeliverNot(c)
      BY <3>1 DEF DeliverNot, Leave, Goto, OneCopy, TypeOK, ends, handlers, broadcast
    <3>2. CASE DeliverFails(c)
      BY <3>2 DEF DeliverFails, Leave, Goto, OneCopy, TypeOK, ends, broadcast
    <3> QED BY <1>4, <3>1, <3>2
  <2>2. TypeOK'
    BY <2>1 DEF TypeOK
  <2>3. OutFirst'
    BY <2>1 DEF TypeOK, OutFirst
  <2>4. QueueHeld'
    BY <2>1 DEF TypeOK, QueueHeld, Inside
  <2>5. OneCopy'
    BY <2>1 DEF TypeOK, OneCopy
  <2>6. Served'
    BY <2>1 DEF TypeOK, Served, Owed
  <2> QED BY <2>2, <2>3, <2>4, <2>5, <2>6
<1>5. CASE EndBroadcast(c)
  <2>1. TypeOK'
    BY <1>5 DEF EndBroadcast, Goto, TypeOK, ends, handlers
  <2>2. OutFirst'
    BY <1>5 DEF EndBroadcast, Goto, TypeOK, OutFirst, ends, handlers
  <2>3. QueueHeld'
    BY <1>5 DEF EndBroadcast, Goto, TypeOK, QueueHeld, Inside, ends, handlers
  <2>4. OneCopy'
    BY <1>5 DEF EndBroadcast, Goto, TypeOK, OneCopy, ends, handlers
  <2>5. Served'
    BY <1>5 DEF EndBroadcast, Goto, TypeOK, Served, Owed, ends, handlers
  <2> QED BY <2>1, <2>2, <2>3, <2>4, <2>5
<1> QED BY <1>1, <1>2, <1>3, <1>4, <1>5

(* The inductive invariant.                                                *)
THEOREM Invariant == Spec => []IInv
<1>1. Init => IInv
  <2> SUFFICES ASSUME Init PROVE IInv
    OBVIOUS
  <2>1. TypeOK
    BY TpcAssumption DEF Init, TypeOK
  <2> QED BY <2>1, TpcAssumption
          DEF IInv, Init, OutFirst, QueueHeld, Inside, OneCopy, Served, Owed
<1>2. IInv /\ [Next]_vars => IInv'
  <2> SUFFICES ASSUME IInv, [Next]_vars PROVE IInv'
    OBVIOUS
  <2>1. ASSUME NEW c \in Conn, Peer(c) \/ Accept(c) \/ Read(c) PROVE IInv'
    BY <2>1, OutsideInv
  <2>2. ASSUME NEW c \in Conn, Run(c) PROVE IInv'
    BY <2>2, ThreadInv, BroadcastInv DEF Run
  <2>3. CASE UNCHANGED vars
    BY <2>3 DEF vars, IInv, TypeOK, OutFirst, QueueHeld, OneCopy, Served, Owed,
                ends, handlers, monitors, broadcast
  <2> QED BY <2>1, <2>2, <2>3 DEF Next
<1> QED BY <1>1, <1>2, PTL DEF Spec

(* The handlers, threads, monitors and sockets have their types, and no    *)
(* peer has more messages on their way than there is room for.             *)
THEOREM TypeCorrect == Spec => []TypeOK
<1>1. IInv => TypeOK
  BY DEF IInv
<1> QED BY <1>1, Invariant, PTL

(* A broadcast writes to handlers whose thread has set out only: they are  *)
(* reached by their login, which the thread itself has processed.          *)
THEOREM OutputSet == Spec => []OutputReady
<1>1. IInv => OutputReady
  BY DEF IInv, OneCopy, OutputReady
<1> QED BY <1>1, Invariant, PTL

(* When a broadcast is over, whoever it started with has got the message   *)
(* or is not connected any more.                                           *)
THEOREM AllServed == Spec => []PublishedToAll
<1>1. IInv => PublishedToAll
  BY DEF IInv, Served, QueueHeld, Inside, Owed, PublishedToAll
<1> QED BY <1>1, Invariant, PTL

-----------------------------------------------------------------------------
(* The refinement of PubSub: copies come and go one by one.                *)
LEMMA OneMoreCopy ==
  ASSUME NEW A, NEW k \in Conn, k \notin A
  PROVE  OneEach(A \cup {k}) = [OneEach(A) EXCEPT !["channel"][k] = @ + 1]
<1> DEFINE F == [n \in Conn |-> OneIf(n \in A)]
           G == [n \in Conn |-> OneIf(n \in A \cup {k})]
<1>1. F[k] = 0 /\ G = [F EXCEPT ![k] = 1]
  BY DEF OneIf
<1>2. OneEach(A) = [d \in {"channel"} |-> F] /\ OneEach(A \cup {k}) = [d \in {"channel"} |-> G]
  BY DEF OneEach
<1> HIDE DEF F, G
<1>3. OneEach(A)["channel"] = F
  BY <1>2
<1> QED BY <1>1, <1>2, <1>3

LEMMA OneCopyLess ==
  ASSUME NEW A, NEW k \in Conn, k \in A
  PROVE  /\ OneEach(A \ {k}) = [OneEach(A) EXCEPT !["channel"][k] = @ - 1]
         /\ OneEach(A)["channel"][k] > 0
<1> DEFINE F == [n \in Conn |-> OneIf(n \in A)]
           G == [n \in Conn |-> OneIf(n \in A \ {k})]
<1>1. F[k] = 1 /\ G = [F EXCEPT ![k] = 0]
  BY DEF OneIf
<1>2. OneEach(A) = [d \in {"channel"} |-> F] /\ OneEach(A \ {k}) = [d \in {"channel"} |-> G]
  BY DEF OneEach
<1> HIDE DEF F, G
<1>3. OneEach(A)["channel"] = F
  BY <1>2
<1> QED BY <1>1, <1>2, <1>3

LEMMA NoCopies == OneEach({}) = [d \in {"channel"} |-> Service!Zero]
BY DEF OneEach, OneIf, Service!Zero

(* A thread that does not hold the monitor changes nothing that is owed.   *)
LEMMA OthersCopies ==
  ASSUME TypeOK, QueueHeld, NEW c \in Conn, thread[c] \notin Inside,
         thread' = [thread EXCEPT ![c] = thread'[c]],
         UNCHANGED <<queueMonitor, todo, target, got>>
  PROVE  Owing' = Owing /\ Gotten' = Gotten
<1>1. CASE queueMonitor = None
  BY <1>1 DEF Owing, Gotten
<1>2. CASE queueMonitor # None
  <2>1. queueMonitor \in Conn /\ queueMonitor # c
    BY <1>2 DEF TypeOK, QueueHeld
  <2>2. thread'[queueMonitor] = thread[queueMonitor]
    BY <2>1 DEF TypeOK
  <2> QED BY <1>2, <2>2 DEF Owing, Gotten, Owed
<1> QED BY <1>1, <1>2

(* The steps outside a broadcast: a login subscribes, no other step shows. *)
LEMMA OutsideService ==
  ASSUME IInv, NEW c \in Conn,
         \/ Peer(c) \/ Accept(c) \/ Read(c)
         \/ Start(c) \/ Check(c) \/ EndOfStream(c) \/ Process(c)
         \/ Respond(c) \/ Write(c) \/ WriteFails(c)
  PROVE  [Service!Next]_(Service!vars)
<1>1. /\ UNCHANGED <<connected, queueMonitor>>
      /\ Owing' = Owing /\ Gotten' = Gotten
      /\ routed' = routed \/ routed' = routed \cup {c}
  <2>1. CASE Peer(c)
    BY <2>1 DEF Peer, PeerReads, PeerLeaves, Owing, Gotten, Owed, handlers, monitors,
                broadcast
  <2>2. CASE Accept(c)
    <3>1. thread[c] = "none"
      BY <2>2 DEF Accept, IInv, OutFirst
    <3>2. Owing' = Owing /\ Gotten' = Gotten
      BY <2>2, <3>1, OthersCopies
      DEF Accept, Goto, IInv, TypeOK, Inside, monitors, broadcast
    <3> QED BY <2>2, <3>2 DEF Accept, monitors
  <2>3. CASE Read(c)
    <3>1. Owing' = Owing /\ Gotten' = Gotten
      BY <2>3, OthersCopies
      DEF Read, Goto, IInv, TypeOK, Inside, monitors, broadcast
    <3> QED BY <2>3, <3>1 DEF Read, handlers, monitors
  <2>4. CASE \/ Start(c) \/ Check(c) \/ EndOfStream(c) \/ Process(c)
             \/ Respond(c) \/ Write(c) \/ WriteFails(c)
    <3>1. /\ UNCHANGED <<connected, queueMonitor>>
          /\ Owing' = Owing /\ Gotten' = Gotten
      BY <2>4, ThreadStep, OthersCopies DEF IInv
    <3>2. routed' = routed \/ routed' = routed \cup {c}
      BY <2>4 DEF Start, Check, EndOfStream, Process, Respond, Write, WriteFails
    <3> QED BY <3>1, <3>2
  <2> QED BY <2>1, <2>2, <2>3, <2>4
<1>2. CASE routed' = routed
  BY <1>1, <1>2 DEF Service!vars, OneEach
<1>3. CASE routed' = routed \cup {c} /\ c \notin routed
  <2>1. OneEach(routed)' = [OneEach(routed) EXCEPT !["channel"][c] = @ + 1]
    BY <1>3, OneMoreCopy DEF OneEach
  <2>2. UNCHANGED <<connected, [d \in {"channel"} |-> queueMonitor],
                    OneEach(Owing), OneEach(Gotten)>>
    BY <1>1 DEF OneEach
  <2>3. Service!Subscribe(c, "channel")
    BY <2>1, <2>2 DEF Service!Subscribe
  <2> QED BY <2>3 DEF Service!Next
<1> QED BY <1>1, <1>2, <1>3

(* The steps of a broadcast.                                               *)
LEMMA BroadcastService ==
  ASSUME IInv, NEW c \in Conn,
         \/ Acquire(c) \/ Visit(c) \/ Deliver(c) \/ DeliverNot(c)
         \/ DeliverFails(c) \/ EndBroadcast(c)
  PROVE  [Service!Next]_(Service!vars)
<1> USE TpcAssumption
<1> DEFINE publisher == [d \in {"channel"} |-> queueMonitor]
<1>1. CASE Acquire(c)
  <2>1. /\ queueMonitor = None /\ queueMonitor' = c /\ c # None
        /\ UNCHANGED <<routed, connected>>
    BY <1>1 DEF Acquire, handlers
  <2>2. Owing' = routed /\ Gotten' = {} /\ Gotten = {}
    BY <1>1, <2>1 DEF Acquire, Goto, Owing, Gotten, Owed, IInv, TypeOK
  <2>3. publisher["channel"] = None /\ publisher' = [publisher EXCEPT !["channel"] = c]
    BY <2>1
  <2>4. OneEach(Owing)' = [OneEach(Owing) EXCEPT !["channel"] = OneEach(routed)["channel"]]
    BY <2>2 DEF OneEach
  <2>5. UNCHANGED <<OneEach(routed), connected, OneEach(Gotten)>>
    BY <2>1, <2>2 DEF OneEach
  <2>6. Service!Begin(c, "channel")
    BY <2>3, <2>4, <2>5 DEF Service!Begin
  <2> QED BY <2>6 DEF Service!Next
<1>2. CASE Visit(c)
  <2>1. queueMonitor = c /\ c # None /\ thread[c] = "next"
    BY <1>2 DEF Visit, IInv, QueueHeld, Inside
  <2>2. UNCHANGED <<routed, connected, queueMonitor, got>>
    BY <1>2 DEF Visit, handlers
  <2>3. Owing' = Owing /\ Gotten' = Gotten
    <3>1. PICK k \in todo[c] : /\ todo' = [todo EXCEPT ![c] = @ \ {k}]
                               /\ target' = [target EXCEPT ![c] = k]
      BY <1>2 DEF Visit
    <3> QED
      BY <1>2, <2>1, <2>2, <3>1 DEF Visit, Goto, Owing, Gotten, Owed, IInv, TypeOK
  <2> QED BY <2>2, <2>3 DEF Service!vars, OneEach
<1>3. CASE Deliver(c)
  <2> DEFINE k == target[c]
  <2>1. /\ queueMonitor = c /\ c # None /\ thread[c] = "deliver"
        /\ k \in Conn /\ k \in out /\ k \notin todo[c] \cup got[c] /\ k \in connected
    BY <1>3 DEF Deliver, IInv, QueueHeld, Inside, OneCopy, TypeOK
  <2>2. /\ thread' = [thread EXCEPT ![c] = "next"]
        /\ got' = [got EXCEPT ![c] = @ \cup {k}]
        /\ UNCHANGED <<connected, routed, queueMonitor, todo, target>>
    BY <1>3, <2>1 DEF Deliver, Goto
  <2>3. /\ k \in Owing /\ Owing' = Owing \ {k}
        /\ k \notin Gotten /\ Gotten' = Gotten \cup {k}
    BY <2>1, <2>2 DEF Owing, Gotten, Owed, IInv, TypeOK
  <2>4. /\ OneEach(Owing)["channel"][k] > 0
        /\ OneEach(Owing)' = [OneEach(Owing) EXCEPT !["channel"][k] = @ - 1]
    <3>1. OneEach(Owing)' = OneEach(Owing \ {k})
      BY <2>3 DEF OneEach
    <3> QED BY <2>1, <2>3, <3>1, OneCopyLess
  <2>5. OneEach(Gotten)' = [OneEach(Gotten) EXCEPT !["channel"][k] = @ + 1]
    <3>1. OneEach(Gotten)' = OneEach(Gotten \cup {k})
      BY <2>3 DEF OneEach
    <3> QED BY <2>1, <2>3, <3>1, OneMoreCopy
  <2>6. UNCHANGED <<OneEach(routed), connected, publisher>>
    BY <2>2 DEF OneEach
  <2>7. Service!Give(k, "channel")
    BY <2>1, <2>4, <2>5, <2>6 DEF Service!Give
  <2> QED BY <2>1, <2>7 DEF Service!Next
<1>4. CASE DeliverNot(c) \/ DeliverFails(c)
  <2> DEFINE k == target[c]
  <2>1. /\ queueMonitor = c /\ c # None /\ thread[c] = "deliver"
        /\ k \in Conn /\ k \notin todo[c]
    BY <1>4 DEF DeliverNot, DeliverFails, IInv, QueueHeld, Inside, OneCopy, TypeOK
  <2>2. /\ connected' = connected \ {k}
        /\ thread' = [thread EXCEPT ![c] = "next"]
        /\ UNCHANGED <<routed, queueMonitor, todo, target, got>>
    <3>1. CASE DeliverNot(c)
      BY <3>1 DEF DeliverNot, Goto, handlers, broadcast
    <3>2. CASE DeliverFails(c)
      BY <3>2 DEF DeliverFails, Goto, broadcast
    <3> QED BY <1>4, <3>1, <3>2
  <2>3. k \in Owing /\ Owing' = Owing \ {k} /\ Gotten' = Gotten
    BY <2>1, <2>2 DEF Owing, Gotten, Owed, IInv, TypeOK
  <2>4. /\ OneEach(Owing)["channel"][k] > 0
        /\ OneEach(Owing)' = [OneEach(Owing) EXCEPT !["channel"][k] = @ - 1]
    <3>1. OneEach(Owing)' = OneEach(Owing \ {k})
      BY <2>3 DEF OneEach
    <3> QED BY <2>1, <2>3, <3>1, OneCopyLess
  <2>5. UNCHANGED <<OneEach(routed), publisher, OneEach(Gotten)>>
    BY <2>2, <2>3 DEF OneEach
  <2>6. Service!Lose(k, "channel")
    BY <2>2, <2>4, <2>5 DEF Service!Lose
  <2> QED BY <2>1, <2>6 DEF Service!Next
<1>5. CASE EndBroadcast(c)
  <2>1. /\ queueMonitor = c /\ c # None /\ queueMonitor' = None
        /\ UNCHANGED <<routed, connected>>
    BY <1>5 DEF EndBroadcast, IInv, QueueHeld, Inside, handlers
  <2>2. Owing = {} /\ Owing' = {} /\ Gotten' = {}
    BY <1>5, <2>1 DEF EndBroadcast, Owing, Gotten, Owed
  <2>3. publisher["channel"] # None /\ publisher' = [publisher EXCEPT !["channel"] = None]
    BY <2>1
  <2>4. OneEach(Owing)["channel"] = Service!Zero
    BY <2>2, NoCopies
  <2>5. OneEach(Gotten)' = [OneEach(Gotten) EXCEPT !["channel"] = Service!Zero]
    BY <2>2, NoCopies DEF OneEach, Service!Zero
  <2>6. UNCHANGED <<OneEach(routed), connected, OneEach(Owing)>>
    BY <2>1, <2>2 DEF OneEach
  <2>7. Service!End("channel")
    BY <2>3, <2>4, <2>5, <2>6 DEF Service!End
  <2> QED BY <2>7 DEF Service!Next
<1> QED BY <1>1, <1>2, <1>3, <1>4, <1>5

(* The server is a publish/subscribe service: each publication is given to *)
(* every subscriber there is when it begins and that is not found gone,    *)
(* once, and publications do not overlap.                                  *)
THEOREM Refinement == Spec => Publishes
<1>1. Init => Service!Init
  BY NoCopies DEF Init, Service!Init, OneEach, Owing, Gotten
<1>2. IInv /\ [Next]_vars => [Service!Next]_(Service!vars)
  <2> SUFFICES ASSUME IInv, [Next]_vars PROVE [Service!Next]_(Service!vars)
    OBVIOUS
  <2>1. CASE Next
    BY <2>1, OutsideService, BroadcastService DEF Next, Run
  <2>2. CASE UNCHANGED vars
    BY <2>2 DEF vars, handlers, monitors, broadcast, Service!vars, OneEach, Owing,
                Gotten, Owed
  <2> QED BY <2>1, <2>2
<1> QED BY <1>1, <1>2, Invariant, PTL DEF Spec, Publishes, Service!Spec

=============================================================================
