-------------------------- MODULE StompBrokerProps --------------------------
(***************************************************************************)
(* What the maps of the STOMP server must satisfy while the frames of      *)
(* several connections are processed concurrently, and the clients under   *)
(* which its subscription bookkeeping is exact.                            *)
(***************************************************************************)
EXTENDS StompBroker

Resting == {"new", "idle", "closed"}
InConnect == {"connect", "putUser", "putUserID", "putLoginID"}
InSubscribe == {"subscribe", "putChannel", "putSubID", "joinSubID", "addUser",
                "putIDchannel"}
InUnsubscribe == {"unsubscribe", "readSubID", "removeUser", "removeSubID",
                  "removeIDchannel"}
Broadcasting == {"next", "route", "lookup", "deliver"}
Label == Resting \cup InConnect \cup InSubscribe \cup InUnsubscribe
           \cup Broadcasting \cup {"send", "acquire", "respond", "disconnect", "other"}

(* The maps hold what their declarations say, user names in SubID and      *)
(* channels in IDchannel, and no count is negative.                        *)
TypeOK ==
  /\ activeClients \in SUBSET Conn
  /\ users \in [Login -> Pass \cup {Nil}]
  /\ userID \in [Login -> Conn \cup {Nil}]
  /\ loginID \in [Conn -> Login \cup {Nil}]
  /\ SubID \in [SubId -> Login \cup {Nil}]
  /\ IDchannel \in [SubId -> Channel \cup {Nil}]
  /\ channels \in [Channel -> QueueRef \cup {Nil}]
  /\ queues \in [QueueRef -> [Login -> Nat]]
  /\ monitor \in [QueueRef -> Conn \cup {Nil}]
  /\ terminate \in [Conn -> BOOLEAN]
  /\ sent \in [Conn -> Nat]
  /\ pc \in [Conn -> Label]
  /\ call \in [Conn -> Call]
  /\ todo \in [Conn -> [Login -> Nat]]

(* A connection is known under a login only if that login has a passcode   *)
(* and a route.  handleConnect writes the three maps in three steps and    *)
(* disconnect takes entries out of two of them.                            *)
LoginBacked ==
  \A c \in Conn : loginID[c] # Nil =>
    users[loginID[c]] # Nil /\ userID[loginID[c]] # Nil

(* The logins a broadcast can meet: in a queue, or still to be visited.    *)
Listed == {u \in Login : \/ \E q \in QueueRef : queues[q][u] > 0
                         \/ \E c \in Conn : todo[c][u] > 0}

(* Every login in a queue has a route, so the second userID.get(login) of  *)
(* send(channel, msg) never unboxes null in the middle of a broadcast.     *)
RoutesNeverMissing ==
  /\ \A u \in Listed : userID[u] # Nil
  /\ \A c \in Conn : pc[c] = "route" => userID[call[c].target] # Nil

(* A recorded subscription names a channel that has a queue, so UNSUBSCRIBE *)
(* never calls remove on a missing queue.                                  *)
IDchannelHasQueue ==
  \A i \in SubId : IDchannel[i] # Nil => channels[IDchannel[i]] # Nil

(* The monitor of a queue is held by a thread inside the broadcast that    *)
(* locked it, and by no thread that has returned or thrown.                *)
MonitorHeldByBroadcast ==
  \A c \in Conn, q \in QueueRef :
    monitor[q] = c <=> (pc[c] \in Broadcasting /\ call[c].lock = q)

(* Every frame is answered or dropped by an exception: no handler waits    *)
(* for ever for a monitor.                                                 *)
EveryFrameEnds == \A c \in Conn : pc[c] \notin Resting ~> pc[c] \in Resting

-----------------------------------------------------------------------------
(* Clients that subscribe with an id they do not hold and unsubscribe with *)
(* an id they do.  They know what the server acknowledged.                 *)

Holds(c, i) == \E s \in live : s.conn = c /\ s.id = i

Careful(c, f) ==
  /\ f.cmd = "SUBSCRIBE" => ~Holds(c, f.id)
  /\ f.cmd = "UNSUBSCRIBE" => Holds(c, f.id)

CarefulNext == \E c \in Conn : \/ Accept(c)
                               \/ \E f \in Script[c] : Careful(c, f) /\ Receive(c, f)
                               \/ Hangup(c)
                               \/ Process(c)

CarefulSpec == Init /\ [][CarefulNext]_vars

(* The state after every connection c has logged in as own[c] and creator  *)
(* has subscribed to every channel and unsubscribed again.                 *)
WarmInit(own, creator, passcode) ==
  /\ activeClients = Conn
  /\ users = [u \in Login |-> passcode]
  /\ userID = [u \in Login |-> CHOOSE c \in Conn : own[c] = u]
  /\ loginID = own
  /\ SubID = [i \in SubId |-> Nil]
  /\ IDchannel = [i \in SubId |-> Nil]
  /\ channels = [d \in Channel |-> <<creator, d>>]
  /\ queues = [q \in QueueRef |-> Empty]
  /\ monitor = [q \in QueueRef |-> Nil]
  /\ terminate = [c \in Conn |-> FALSE]
  /\ sent = [c \in Conn |-> 0]
  /\ pc = [c \in Conn |-> "idle"]
  /\ call = [c \in Conn |-> NoCall]
  /\ todo = [c \in Conn |-> Empty]
  /\ outbox = [c \in Conn |-> << >>]
  /\ live = {}

(* Ids used by one client only: the entries of SubID and IDchannel of an   *)
(* acknowledged subscription are what the client subscribed to, until its  *)
(* own UNSUBSCRIBE takes them out.                                         *)
SubscriptionRecorded ==
  \A s \in live :
    ~ (pc[s.conn] \in InUnsubscribe /\ call[s.conn].frame.id = s.id)
    => SubID[s.id] = s.user /\ IDchannel[s.id] = s.channel

(* A login whose SUBSCRIBE was answered by a RECEIPT and that has not asked *)
(* to leave is in the queue that channels has for the destination.         *)
SubscribersListed ==
  \A s \in live :
    pc[s.conn] \notin InUnsubscribe => queues[channels[s.channel]][s.user] > 0

(* The threads at one of these steps with login u and destination d.       *)
Doing(where, d, u) ==
  {c \in Conn : pc[c] \in where /\ call[c].name = u /\ call[c].dest = d}

(* The queue of a channel lists a login once for every acknowledged        *)
(* subscription of that login, give or take the SUBSCRIBE and UNSUBSCRIBE  *)
(* frames that have written the queue and not been answered yet.           *)
QueueMatchesSubscriptions ==
  \A d \in Channel, u \in Login :
    channels[d] # Nil =>
      queues[channels[d]][u]
        + Cardinality(Doing({"removeSubID", "removeIDchannel"}, d, u))
      = Cardinality({s \in live : s.user = u /\ s.channel = d})
        + Cardinality(Doing({"putSubID", "putIDchannel"}, d, u))

(* The broadcasts of a channel hand its messages to all handlers in one    *)
(* order, and none of them starts inside another.  Nothing is said of the  *)
(* response a publisher gets: it is written when the monitor is free, so   *)
(* a publisher that has subscribed may see another message between the     *)
(* two copies of its own.                                                  *)
OrderAgreement ==
  \A j, k \in Conn :
    \A a, b \in DOMAIN outbox[j] : \A x, y \in DOMAIN outbox[k] :
      ~ /\ a < b /\ x < y
        /\ outbox[j][a].copy = "broadcast" /\ outbox[j][b].copy = "broadcast"
        /\ outbox[j][a].channel = outbox[j][b].channel
        /\ outbox[j][a] # outbox[j][b]
        /\ outbox[k][y] = outbox[j][a] /\ outbox[k][x] = outbox[j][b]

-----------------------------------------------------------------------------
(* The broker as a publish/subscribe service whose members are the logins. *)

SubsOf(d) == IF channels[d] = Nil THEN Empty ELSE queues[channels[d]]
Attached == {u \in Login : userID[u] \in activeClients}
PublisherOf(d) == IF channels[d] = Nil THEN Nil ELSE monitor[channels[d]]

(* A copy on its way: the login visited, its connection found or not yet.  *)
Underway(c, u) == \/ pc[c] = "route" /\ call[c].target = u
                  \/ pc[c] = "lookup" /\ call[c].target = userID[u]

LeftBy(c) == [u \in Login |-> todo[c][u] + IF Underway(c, u) THEN 1 ELSE 0]

(* A copy is given when the handler is found that it is then handed to.    *)
GivenBy(c) ==
  [u \in Login |->
     Cardinality({i \in DOMAIN outbox[userID[u]] :
                    outbox[userID[u]][i] = Message(c)})
       + IF pc[c] = "deliver" /\ call[c].target = userID[u] THEN 1 ELSE 0]

Subs == [d \in Channel |-> SubsOf(d)]
Publishing == [d \in Channel |-> PublisherOf(d)]
Left == [d \in Channel |->
           IF PublisherOf(d) = Nil THEN Empty ELSE LeftBy(PublisherOf(d))]
Given == [d \in Channel |->
            IF PublisherOf(d) = Nil THEN Empty ELSE GivenBy(PublisherOf(d))]

Service == INSTANCE PubSub WITH
  Member <- Login, Publisher <- Conn, None <- Nil,
  subs <- Subs, attached <- Attached, publisher <- Publishing, left <- Left,
  given <- Given

(* Among careful clients that are logged in, each broadcast gives every    *)
(* subscription one copy, save those whose client has disconnected, and    *)
(* two broadcasts on a channel never overlap, although queue, routes and   *)
(* handlers change while the copies are given.  The second copy that a     *)
(* publisher gets in its response is none of the service.                  *)
Publishes == Service!Spec

=============================================================================
