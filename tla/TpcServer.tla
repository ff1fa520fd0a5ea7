------------------------------ MODULE TpcServer ------------------------------
(***************************************************************************)
(* The thread-per-client server: the accept loop of BaseServer and the     *)
(* BlockingConnectionHandler of each connection.  A thread reads a frame,  *)
(* processes it and writes the response; a frame that publishes is first   *)
(* written to every subscriber, by the same thread, inside the monitor of  *)
(* the queue of the channel and that of each handler in turn.  A write     *)
(* blocks while the peer has not made room for it.                         *)
(*                                                                         *)
(* What the frames do to the maps is the matter of StompBroker; here a     *)
(* frame gives its connection a route and a place in the one channel       *)
(* ("login") or publishes to the channel ("publish"); both are answered.   *)
(***************************************************************************)
EXTENDS Naturals, Sequences, FiniteSets

CONSTANTS Conn,
          Script,   \* Script[c]: the frames the peer of c sends, in order
          Leavers,  \* the peers that may close their connection
          Room,     \* bound: messages on their way to a peer
          None

Kind == {"login", "publish"}

ASSUME TpcAssumption == /\ Script \in [Conn -> Seq(Kind)] /\ Leavers \subseteq Conn
                        /\ Room \in Nat \ {0} /\ None \notin Conn

VARIABLES
  peer,            \* the other end: "calling", "there" or "left"
  read,            \* how many of its frames were read
  unread,          \* how many messages are on their way to it
  thread,          \* where the thread of each connection is
  out,             \* the handlers whose out is set
  connected,       \* the handlers whose connected is true
  open,            \* the connections whose socket is not closed here
  routed,          \* the connections a broadcast reaches
  queueMonitor,    \* the thread in synchronized(channels.get(channel))
  handlerMonitor,  \* the thread in synchronized(handler), for each handler
  todo, target,    \* whom a broadcast has still to visit, whom it writes to
  audience, got    \* history: whom it started with, whom it was written to

ends == <<peer, unread>>
handlers == <<out, connected, open>>
monitors == <<queueMonitor, handlerMonitor>>
broadcast == <<todo, target, audience, got>>
vars == <<ends, read, thread, handlers, routed, monitors, broadcast>>

Init ==
  /\ peer = [c \in Conn |-> "calling"]
  /\ read = [c \in Conn |-> 0]
  /\ unread = [c \in Conn |-> 0]
  /\ thread = [c \in Conn |-> "none"]
  /\ out = {} /\ connected = Conn /\ open = {}
  /\ routed = {}
  /\ queueMonitor = None /\ handlerMonitor = [c \in Conn |-> None]
  /\ todo = [c \in Conn |-> {}] /\ target = [c \in Conn |-> None]
  /\ audience = [c \in Conn |-> {}] /\ got = [c \in Conn |-> {}]

-----------------------------------------------------------------------------
(* The peers.  One that stays reads what is sent to it.                    *)

PeerReads(c) ==
  /\ peer[c] = "there" /\ unread[c] > 0
  /\ unread' = [unread EXCEPT ![c] = @ - 1]
  /\ UNCHANGED <<peer, read, thread, handlers, routed, monitors,
                 broadcast>>

PeerLeaves(c) ==
  /\ c \in Leavers /\ peer[c] = "there"
  /\ peer' = [peer EXCEPT ![c] = "left"]
  /\ UNCHANGED <<unread, read, thread, handlers, routed, monitors,
                 broadcast>>

(* A write to c: the bytes are taken, though perhaps by nobody any more,   *)
(* or the socket is found closed.  A peer that is there and has no room    *)
(* leaves the writer blocked.                                              *)
Taken(c) == c \in open /\ (peer[c] = "left" \/ unread[c] < Room)
Broken(c) == c \notin open \/ peer[c] = "left"

-----------------------------------------------------------------------------
Goto(c, l) == thread' = [thread EXCEPT ![c] = l]
PutTwice(c) == unread' = [unread EXCEPT ![c] = @ + 2]  \* mutant: written again
Put(c) == unread' = IF peer[c] = "left" THEN unread ELSE [unread EXCEPT ![c] = @ + 1]
Leave(k) == handlerMonitor' = [handlerMonitor EXCEPT ![k] = None]

(* Mutant: a connection gets its route as soon as it is accepted.          *)
AcceptRouted(c) ==
  /\ peer[c] = "calling"
  /\ peer' = [peer EXCEPT ![c] = "there"]
  /\ open' = open \cup {c}
  /\ routed' = routed \cup {c}
  /\ Goto(c, "start")
  /\ UNCHANGED <<unread, read, out, connected, monitors, broadcast>>

(* The accept loop: addClient, start, and a thread for the handler.        *)
Accept(c) ==
  /\ peer[c] = "calling"
  /\ peer' = [peer EXCEPT ![c] = "there"]
  /\ open' = open \cup {c}
  /\ Goto(c, "start")
  /\ UNCHANGED <<unread, read, out, connected, routed, monitors, broadcast>>

(* run                                                                     *)
Start(c) ==
  /\ thread[c] = "start"
  /\ out' = out \cup {c}
  /\ Goto(c, "check")
  /\ UNCHANGED <<ends, read, connected, open, routed, monitors, broadcast>>

(* The try statement closes the socket on every way out of it; nothing     *)
(* takes the handler out of activeClients.                                 *)
End(c) == Goto(c, "ended") /\ open' = open \ {c}

Check(c) ==
  /\ thread[c] = "check"
  /\ IF c \in connected THEN Goto(c, "read") /\ UNCHANGED open ELSE End(c)
  /\ UNCHANGED <<ends, read, out, connected, routed, monitors, broadcast>>

(* The peer has sent its next frame, before it left if it has.             *)
Read(c) ==
  /\ thread[c] = "read" /\ read[c] < Len(Script[c])
  /\ read' = [read EXCEPT ![c] = @ + 1]
  /\ Goto(c, "process")
  /\ UNCHANGED <<ends, handlers, routed, monitors, broadcast>>

(* Mutant: the end of the stream is not told from a byte.                  *)
IgnoreEnd(c) ==
  /\ thread[c] = "read" /\ peer[c] = "left"
  /\ Goto(c, "check")
  /\ UNCHANGED <<ends, read, handlers, routed, monitors, broadcast>>

(* The stream ends, or is reset before all of it is read.                  *)
EndOfStream(c) ==
  /\ thread[c] = "read" /\ peer[c] = "left"
  /\ End(c)
  /\ UNCHANGED <<ends, read, out, connected, routed, monitors, broadcast>>

(* Mutant: the frame is processed inside the monitor of its handler.       *)
ProcessInMonitor(c) ==
  /\ thread[c] = "process" /\ handlerMonitor[c] = None
  /\ handlerMonitor' = [handlerMonitor EXCEPT ![c] = c]
  /\ LET kind == Script[c][read[c]] IN
       /\ routed' = IF kind = "login" THEN routed \cup {c} ELSE routed
       /\ Goto(c, IF kind = "publish" THEN "acquire" ELSE "respond")
  /\ UNCHANGED <<ends, read, handlers, queueMonitor, broadcast>>

Process(c) ==
  /\ thread[c] = "process"
  /\ LET kind == Script[c][read[c]] IN
       /\ routed' = IF kind = "login" THEN routed \cup {c} ELSE routed
       /\ Goto(c, IF kind = "publish" THEN "acquire" ELSE "respond")
  /\ UNCHANGED <<ends, read, handlers, monitors, broadcast>>

-----------------------------------------------------------------------------
(* connectionsImpl.send(channel, msg)                                      *)

(* Mutant: the broadcast is not synchronized.                              *)
AcquireNot(c) ==
  /\ thread[c] = "acquire"
  /\ queueMonitor' = c
  /\ todo' = [todo EXCEPT ![c] = routed]
  /\ audience' = [audience EXCEPT ![c] = routed]
  /\ got' = [got EXCEPT ![c] = {}]
  /\ Goto(c, "next")
  /\ UNCHANGED <<ends, read, handlers, routed, handlerMonitor, target>>

Acquire(c) ==
  /\ thread[c] = "acquire" /\ queueMonitor = None
  /\ queueMonitor' = c
  /\ todo' = [todo EXCEPT ![c] = routed]
  /\ audience' = [audience EXCEPT ![c] = routed]
  /\ got' = [got EXCEPT ![c] = {}]
  /\ Goto(c, "next")
  /\ UNCHANGED <<ends, read, handlers, routed, handlerMonitor, target>>

Visit(c) ==
  /\ thread[c] = "next"
  /\ \E k \in todo[c] :
       /\ handlerMonitor[k] \in {None, c}
       /\ handlerMonitor' = [handlerMonitor EXCEPT ![k] = c]
       /\ todo' = [todo EXCEPT ![c] = @ \ {k}]
       /\ target' = [target EXCEPT ![c] = k]
  /\ Goto(c, "deliver")
  /\ UNCHANGED <<ends, read, handlers, routed, queueMonitor, audience, got>>

(* BlockingConnectionHandler.send; with out not set it throws, out of the  *)
(* broadcast and out of the thread that publishes.                         *)
Deliver(c) ==
  LET k == target[c] IN
  /\ thread[c] = "deliver" /\ k \in connected /\ (k \in out => Taken(k))
  /\ IF k \in out
     THEN /\ Put(k) /\ Goto(c, "next")
          /\ got' = [got EXCEPT ![c] = @ \cup {k}]
          /\ UNCHANGED <<open, queueMonitor>>
     ELSE End(c) /\ queueMonitor' = None /\ UNCHANGED <<unread, got>>
  /\ Leave(k)
  /\ UNCHANGED <<peer, read, out, connected, routed, todo, target, audience>>

DeliverNot(c) ==
  /\ thread[c] = "deliver" /\ target[c] \notin connected
  /\ Leave(target[c])
  /\ Goto(c, "next")
  /\ UNCHANGED <<ends, read, handlers, routed, queueMonitor, broadcast>>

(* Mutant: the exception ends the broadcast.                               *)
DeliverCutShort(c) ==
  LET k == target[c] IN
  /\ thread[c] = "deliver" /\ k \in connected \cap out /\ Broken(k)
  /\ connected' = connected \ {k}
  /\ todo' = [todo EXCEPT ![c] = {}]
  /\ Leave(k)
  /\ Goto(c, "next")
  /\ UNCHANGED <<ends, read, out, open, routed, queueMonitor, target, audience, got>>

(* The IOException is caught in send: the handler is not written to again. *)
DeliverFails(c) ==
  LET k == target[c] IN
  /\ thread[c] = "deliver" /\ k \in connected \cap out /\ Broken(k)
  /\ connected' = connected \ {k}
  /\ Leave(k)
  /\ Goto(c, "next")
  /\ UNCHANGED <<ends, read, out, open, routed, queueMonitor, broadcast>>

EndBroadcast(c) ==
  /\ thread[c] = "next" /\ todo[c] = {}
  /\ queueMonitor' = None
  /\ target' = [target EXCEPT ![c] = None]
  /\ Goto(c, "respond")
  /\ UNCHANGED <<ends, read, handlers, routed, handlerMonitor, todo, audience, got>>

-----------------------------------------------------------------------------
(* The response, in synchronized(this): connected is not looked at, and a  *)
(* failure ends the thread but not connected.                              *)

Respond(c) ==
  /\ thread[c] = "respond" /\ handlerMonitor[c] \in {None, c}
  /\ handlerMonitor' = [handlerMonitor EXCEPT ![c] = c]
  /\ Goto(c, "write")
  /\ UNCHANGED <<ends, read, handlers, routed, queueMonitor, broadcast>>

Write(c) ==
  /\ thread[c] = "write" /\ Taken(c)
  /\ Put(c)
  /\ Leave(c)
  /\ Goto(c, "check")
  /\ UNCHANGED <<peer, read, handlers, routed, queueMonitor, broadcast>>

WriteFails(c) ==
  /\ thread[c] = "write" /\ Broken(c)
  /\ Leave(c)
  /\ End(c)
  /\ UNCHANGED <<ends, read, out, connected, routed, queueMonitor, broadcast>>

-----------------------------------------------------------------------------
Peer(c) == PeerReads(c) \/ PeerLeaves(c)
Run(c) == \/ Start(c) \/ Check(c) \/ EndOfStream(c) \/ Process(c)
          \/ Acquire(c) \/ Visit(c) \/ Deliver(c) \/ DeliverNot(c)
          \/ DeliverFails(c) \/ EndBroadcast(c)
          \/ Respond(c) \/ Write(c) \/ WriteFails(c)

Next == \E c \in Conn : Peer(c) \/ Accept(c) \/ Read(c) \/ Run(c)

(* The threads run, and a peer that stays reads; it need not send.         *)
Fairness == \A c \in Conn : WF_vars(Run(c)) /\ WF_vars(PeerReads(c))

Spec == Init /\ [][Next]_vars /\ Fairness

-----------------------------------------------------------------------------
TypeOK ==
  /\ peer \in [Conn -> {"calling", "there", "left"}]
  /\ read \in [Conn -> Nat] /\ unread \in [Conn -> 0..Room]
  /\ thread \in [Conn -> {"none", "start", "check", "read", "process", "acquire",
                          "next", "deliver", "respond", "write", "ended"}]
  /\ out \subseteq Conn /\ connected \subseteq Conn /\ open \subseteq Conn
  /\ routed \subseteq Conn
  /\ queueMonitor \in Conn \cup {None}
  /\ handlerMonitor \in [Conn -> Conn \cup {None}]
  /\ todo \in [Conn -> SUBSET Conn] /\ target \in [Conn -> Conn \cup {None}]
  /\ audience \in [Conn -> SUBSET Conn] /\ got \in [Conn -> SUBSET Conn]

(* A broadcast never meets a handler whose thread has not set out yet,     *)
(* although addClient registers the handler before there is a thread.      *)
OutputReady == \A c \in Conn : thread[c] = "deliver" => target[c] \in out

(* When a broadcast is over, each handler it started with has got the      *)
(* message or is known not to be connected any more: a subscriber that is  *)
(* gone does not cost the others their copy.                               *)
PublishedToAll ==
  \A c \in Conn :
    thread[c] \in {"respond", "write"} => audience[c] \cap connected \subseteq got[c]

(* A frame that was read is answered, or its connection ends: the monitors *)
(* of the queue and of the handlers are never waited for in a circle.      *)
EveryFrameAnswered ==
  \A c \in Conn : thread[c] = "process" ~> thread[c] \in {"check", "ended"}

(* The thread and the socket of a peer that has left are given up.         *)
LeaverEnds == \A c \in Conn : peer[c] = "left" ~> thread[c] = "ended"

-----------------------------------------------------------------------------
(* The server as a publish/subscribe service with one channel.             *)

OneIf(b) == IF b THEN 1 ELSE 0

(* One copy for each connection of A, on the one channel.                  *)
OneEach(A) == [d \in {"channel"} |-> [k \in Conn |-> OneIf(k \in A)]]

(* The connections that the thread in the monitor has still to write to,   *)
(* and those it has written to.                                            *)
Owed(c) == todo[c] \cup (IF thread[c] = "deliver" THEN {target[c]} ELSE {})
Owing == IF queueMonitor = None THEN {} ELSE Owed(queueMonitor)
Gotten == IF queueMonitor = None THEN {} ELSE got[queueMonitor]

Service == INSTANCE PubSub WITH
  Member <- Conn, Publisher <- Conn, Channel <- {"channel"},
  subs <- OneEach(routed),
  attached <- connected,
  publisher <- [d \in {"channel"} |-> queueMonitor],
  left <- OneEach(Owing),
  given <- OneEach(Gotten)

(* Writing into sockets that block, break or are closed while the handlers *)
(* come and go, the server gives each publication to every subscriber that *)
(* it has not found gone, before the next publication begins.              *)
Publishes == Service!Spec

=============================================================================
