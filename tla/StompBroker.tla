----------------------------- MODULE StompBroker -----------------------------
(***************************************************************************)
(* The core of the STOMP server: the shared maps of connectionsImpl and    *)
(* the frame handlers of StompMessagingProtocolImpl that read and write    *)
(* them.  At most one frame of a connection is processed at a time (a      *)
(* thread per connection, or the serial executor of the reactor), but the  *)
(* frames of different connections interleave at every operation on the    *)
(* shared ConcurrentHashMaps: only the broadcast of a message takes a      *)
(* monitor, that of the queue of the channel.                              *)
(*                                                                         *)
(* Nil stands for Java's null: a missing header, an absent map entry.      *)
(***************************************************************************)
EXTENDS Naturals, Sequences, FiniteSets

CONSTANTS Conn,            \* connection ids (Integer)
          Login, Pass,     \* user names and passcodes (String)
          Channel,         \* the destinations of SUBSCRIBE and SEND
          SubId,           \* subscription ids, chosen by the clients
          Receipt,         \* values of the receipt header (String)
          Script,          \* Script[c]: the frames connection c may send
          MaxFrames,       \* bound: the number of frames it sends at most
          ThreadPerClient, \* an exception ends the connection (TPC server),
                           \* or only the handling of the frame (reactor)
          Nil

ConnectFrame == [cmd : {"CONNECT"}, valid : BOOLEAN,
                 login : Login \cup {Nil}, passcode : Pass \cup {Nil}]
SubscribeFrame == [cmd : {"SUBSCRIBE"},
                   dest : Channel \cup {Nil}, id : SubId \cup {Nil}]
UnsubscribeFrame == [cmd : {"UNSUBSCRIBE"}, id : SubId \cup {Nil}]
SendFrame == [cmd : {"SEND"}, dest : Channel \cup {Nil}]
DisconnectFrame == [cmd : {"DISCONNECT"}, receipt : Receipt \cup {Nil}]
OtherFrame == [cmd : {"OTHER"}, blank : BOOLEAN]
Frame == ConnectFrame \cup SubscribeFrame \cup UnsubscribeFrame \cup SendFrame
           \cup DisconnectFrame \cup OtherFrame

ASSUME NilAssumption ==
  Nil \notin Conn \cup Login \cup Pass \cup Channel \cup SubId \cup Receipt
             \cup (Conn \X Channel)
(* An Integer key never equals a String one.                               *)
ASSUME KeyAssumption == Conn \cap Login = {} /\ Conn \cap Receipt = {}
ASSUME ScriptAssumption == Script \in [Conn -> SUBSET Frame]
ASSUME BoundAssumption == MaxFrames \in [Conn -> Nat] /\ ThreadPerClient \in BOOLEAN

VARIABLES
  activeClients,  \* connections that have a registered handler
  users,          \* login -> passcode
  userID,         \* login -> connection
  loginID,        \* connection -> login
  SubID,          \* subscription id -> login
  IDchannel,      \* subscription id -> channel
  channels,       \* channel -> reference to a queue object
  queues,         \* the queue objects: how often each login is in them
  monitor,        \* queue object -> the connection whose thread holds it
  terminate,      \* the Terminate flag of each protocol object
  sent,           \* frames received so far on each connection
  pc,             \* where the thread of each connection is
  call,           \* the frame it processes and the locals of the handlers
  todo,           \* its iterator over a queue: how often a login is to come
  outbox,         \* history: the MESSAGE frames given to each connection
                  \* for writing, by broadcasts and as responses
  live            \* history: the subscriptions acknowledged to the clients

logins == <<users, userID, loginID>>
subscriptions == <<SubID, IDchannel, channels, queues>>
history == <<outbox, live>>
vars == <<activeClients, logins, subscriptions, monitor, terminate, sent, pc,
          call, todo, history>>

(* A queue object is named by the thread that allocates it and the channel. *)
QueueRef == Conn \X Channel
Empty == [u \in Login |-> 0]

(* lock and iter are the queues a broadcast locked and iterates over,      *)
(* target the login it visits, then the connection it sends to.            *)
Call == [frame : Frame \cup {Nil}, name : Login \cup {Nil},
         dest : Channel \cup {Nil}, lock : QueueRef \cup {Nil},
         iter : QueueRef \cup {Nil}, target : Login \cup Conn \cup {Nil}]
NoCall == [frame |-> Nil, name |-> Nil, dest |-> Nil, lock |-> Nil,
           iter |-> Nil, target |-> Nil]

Init ==
  /\ activeClients = {}
  /\ users = [u \in Login |-> Nil]
  /\ userID = [u \in Login |-> Nil]
  /\ loginID = [c \in Conn |-> Nil]
  /\ SubID = [i \in SubId |-> Nil]
  /\ IDchannel = [i \in SubId |-> Nil]
  /\ channels = [d \in Channel |-> Nil]
  /\ queues = [q \in QueueRef |-> Empty]
  /\ monitor = [q \in QueueRef |-> Nil]
  /\ terminate = [c \in Conn |-> FALSE]
  /\ sent = [c \in Conn |-> 0]
  /\ pc = [c \in Conn |-> "new"]
  /\ call = [c \in Conn |-> NoCall]
  /\ todo = [c \in Conn |-> Empty]
  /\ outbox = [c \in Conn |-> << >>]
  /\ live = {}

-----------------------------------------------------------------------------
(* Control of a connection's thread.                                       *)

Goto(c, l) == pc' = [pc EXCEPT ![c] = l]
Step(c, l) == Goto(c, l) /\ UNCHANGED call

(* process returns its response to the connection handler.                 *)
Return(c) == Goto(c, "idle") /\ call' = [call EXCEPT ![c] = NoCall]

(* process throws: NullPointerException of a ConcurrentHashMap or a queue. *)
Throw(c) == /\ Goto(c, IF ThreadPerClient THEN "closed" ELSE "idle")
            /\ call' = [call EXCEPT ![c] = NoCall]

(* addClient and start, before the first byte of c is read.                *)
Accept(c) ==
  /\ pc[c] = "new"
  /\ activeClients' = activeClients \cup {c}
  /\ terminate' = [terminate EXCEPT ![c] = FALSE]
  /\ Step(c, "idle")
  /\ UNCHANGED <<logins, subscriptions, monitor, sent, todo, history>>

FirstStep(f) ==
  CASE f.cmd = "CONNECT"     -> "connect"
    [] f.cmd = "SUBSCRIBE"   -> "subscribe"
    [] f.cmd = "UNSUBSCRIBE" -> "unsubscribe"
    [] f.cmd = "SEND"        -> "send"
    [] f.cmd = "DISCONNECT"  -> "disconnect"
    [] OTHER                 -> "other"

(* A frame f is decoded and process is called with it.                     *)
Receive(c, f) ==
  /\ pc[c] = "idle" /\ sent[c] < MaxFrames[c]
  /\ ThreadPerClient => ~terminate[c]
  /\ sent' = [sent EXCEPT ![c] = @ + 1]
  /\ call' = [call EXCEPT ![c].frame = f]
  /\ Goto(c, FirstStep(f))
  /\ UNCHANGED <<activeClients, logins, subscriptions, monitor, terminate, todo,
                 history>>

(* The socket is closed, or a response cannot be written: both servers     *)
(* drop the channel, neither calls disconnect, so every map keeps what it  *)
(* has.                                                                    *)
Hangup(c) ==
  /\ pc[c] = "idle"
  /\ Step(c, "closed")
  /\ UNCHANGED <<activeClients, logins, subscriptions, monitor, terminate, sent,
                 todo, history>>

(* Mutant: the arguments in the order of the map at hand.                  *)
RemoveInOrder(m, k, v) == [x \in DOMAIN m |-> IF x = v /\ m[x] = k THEN Nil ELSE m[x]]

(* Map.remove(k, v): only an entry that maps k to v is removed.            *)
RemoveEntry(m, k, v) == [x \in DOMAIN m |-> IF x = k /\ m[x] = v THEN Nil ELSE m[x]]

(* connectionsImpl.disconnect(c), then the return of process.  The         *)
(* arguments of both two-argument removes are in the order of the other    *)
(* map, and the second one throws when c never logged in.                  *)
DisconnectThrows(c) == c \in activeClients /\ loginID[c] = Nil

DisconnectAndReturn(c) ==
  /\ UNCHANGED users
  /\ IF DisconnectThrows(c) THEN Throw(c) ELSE Return(c)
  /\ IF DisconnectThrows(c) \/ c \notin activeClients
     THEN UNCHANGED <<activeClients, userID, loginID>>
     ELSE /\ userID' = RemoveEntry(userID, c, loginID[c])
          /\ loginID' = RemoveEntry(loginID, loginID[c], c)
          /\ activeClients' = activeClients \ {c}

-----------------------------------------------------------------------------
(* handleConnect                                                           *)

Connect(c) ==
  /\ pc[c] = "connect"
  /\ LET f == call[c].frame IN
       IF f.valid /\ f.login # Nil /\ f.passcode # Nil
       THEN /\ Step(c, IF users[f.login] = Nil THEN "putUser" ELSE "putUserID")
            /\ UNCHANGED <<activeClients, logins>>
       ELSE DisconnectAndReturn(c)

PutUser(c) ==
  /\ pc[c] = "putUser"
  /\ users' = [users EXCEPT ![call[c].frame.login] = call[c].frame.passcode]
  /\ Step(c, "putUserID")
  /\ UNCHANGED <<activeClients, userID, loginID>>

PutUserID(c) ==
  /\ pc[c] = "putUserID"
  /\ userID' = [userID EXCEPT ![call[c].frame.login] = c]
  /\ Step(c, "putLoginID")
  /\ UNCHANGED <<activeClients, users, loginID>>

PutLoginID(c) ==
  /\ pc[c] = "putLoginID"
  /\ loginID' = [loginID EXCEPT ![c] = call[c].frame.login]
  /\ Return(c)
  /\ UNCHANGED <<activeClients, users, userID>>

HandleConnect(c) ==
  /\ Connect(c) \/ PutUser(c) \/ PutUserID(c) \/ PutLoginID(c)
  /\ UNCHANGED <<subscriptions, monitor, terminate, sent, todo, history>>

-----------------------------------------------------------------------------
(* handleSub.  Its containsKey and the put of a new queue are two steps.   *)

Subscribe(c) ==
  /\ pc[c] = "subscribe"
  /\ LET d == call[c].frame.dest IN
       IF d = Nil
       THEN Throw(c)
       ELSE /\ call' = [call EXCEPT ![c].name = loginID[c], ![c].dest = d]
            /\ Goto(c, IF channels[d] = Nil THEN "putChannel" ELSE "joinSubID")
  /\ UNCHANGED <<subscriptions, todo, live>>

(* Mutant: the new queue is not put into channels.                         *)
ForgetChannel(c) == /\ pc[c] = "putChannel"
                    /\ Step(c, "putSubID")
                    /\ UNCHANGED <<subscriptions, todo, live>>

PutChannel(c) ==
  /\ pc[c] = "putChannel"
  /\ LET u == call[c].name  d == call[c].dest IN
       IF u = Nil
       THEN Throw(c) /\ UNCHANGED <<channels, queues>>
       ELSE /\ queues' = [queues EXCEPT ![<<c, d>>] = [Empty EXCEPT ![u] = 1]]
            /\ channels' = [channels EXCEPT ![d] = <<c, d>>]
            /\ Step(c, "putSubID")
  /\ UNCHANGED <<SubID, IDchannel, todo, live>>

PutSubID(c) ==
  /\ pc[c] \in {"putSubID", "joinSubID"}
  /\ LET i == call[c].frame.id  u == call[c].name IN
       IF i = Nil \/ u = Nil
       THEN Throw(c) /\ UNCHANGED SubID
       ELSE /\ SubID' = [SubID EXCEPT ![i] = u]
            /\ Step(c, IF pc[c] = "putSubID" THEN "putIDchannel" ELSE "addUser")
  /\ UNCHANGED <<IDchannel, channels, queues, todo, live>>

OneMore(n) == n + 1
NoneLeft(n) == 0           \* mutant: removes every entry of the login
OneLess(n) == IF n = 0 THEN 0 ELSE n - 1

(* What the iterators over q see of the arrival or departure of one entry  *)
(* of u: they are weakly consistent and reflect it or do not.              *)
MayReflect(q, u, change(_)) ==
  \E S \in SUBSET {t \in Conn : call[t].iter = q} :
    todo' = [t \in Conn |-> IF t \in S THEN [todo[t] EXCEPT ![u] = change(@)]
                                       ELSE todo[t]]

(* subscribeChanel                                                         *)
AddUser(c) ==
  /\ pc[c] = "addUser"
  /\ LET u == call[c].name  d == call[c].dest
         q == IF channels[d] = Nil THEN <<c, d>> ELSE channels[d]
     IN /\ queues' = [queues EXCEPT ![q][u] = @ + 1]
        /\ channels' = [channels EXCEPT ![d] = q]
        /\ MayReflect(q, u, OneMore)
  /\ Step(c, "putIDchannel")
  /\ UNCHANGED <<SubID, IDchannel, live>>

(* Mutant: the name is put into both maps.                                 *)
PutNameTwice(c) ==
  /\ pc[c] = "putIDchannel"
  /\ LET i == call[c].frame.id IN
       /\ IDchannel' = [IDchannel EXCEPT ![i] = call[c].name]
       /\ live' = live \cup {[conn |-> c, id |-> i, user |-> call[c].name,
                              channel |-> call[c].dest]}
  /\ Return(c)
  /\ UNCHANGED <<SubID, channels, queues, todo>>

(* The RECEIPT acknowledges the subscription.                              *)
PutIDchannel(c) ==
  /\ pc[c] = "putIDchannel"
  /\ LET i == call[c].frame.id  d == call[c].dest IN
       /\ IDchannel' = [IDchannel EXCEPT ![i] = d]
       /\ live' = live \cup {[conn |-> c, id |-> i, user |-> call[c].name,
                              channel |-> d]}
  /\ Return(c)
  /\ UNCHANGED <<SubID, channels, queues, todo>>

HandleSub(c) ==
  /\ \/ Subscribe(c) \/ PutChannel(c) \/ PutSubID(c)
     \/ AddUser(c) \/ PutIDchannel(c)
  /\ UNCHANGED <<activeClients, logins, monitor, terminate, sent, outbox>>

-----------------------------------------------------------------------------
(* handleUnsub                                                             *)

Unsubscribe(c) ==
  /\ pc[c] = "unsubscribe"
  /\ LET i == call[c].frame.id IN
       IF i = Nil
       THEN Throw(c)
       ELSE /\ call' = [call EXCEPT ![c].dest = IDchannel[i]]
            /\ Goto(c, "readSubID")
  /\ UNCHANGED <<activeClients, logins, subscriptions, todo, live>>

ReadSubID(c) ==
  /\ pc[c] = "readSubID"
  /\ LET u == SubID[call[c].frame.id] IN
       IF u = Nil
       THEN DisconnectAndReturn(c)
       ELSE /\ call' = [call EXCEPT ![c].name = u]
            /\ Goto(c, "removeUser")
            /\ UNCHANGED <<activeClients, logins>>
  /\ UNCHANGED <<subscriptions, todo, live>>

(* channels.get(destination).remove(username): both calls throw on null.   *)
RemoveUser(c) ==
  /\ pc[c] = "removeUser"
  /\ LET u == call[c].name  d == call[c].dest IN
       IF d = Nil \/ channels[d] = Nil
       THEN Throw(c) /\ UNCHANGED <<queues, todo>>
       ELSE /\ Step(c, "removeSubID")
            /\ queues' = [queues EXCEPT ![channels[d]][u] = OneLess(@)]
            /\ MayReflect(channels[d], u, OneLess)
  /\ UNCHANGED <<activeClients, logins, SubID, IDchannel, channels, live>>

(* Mutant: the entries are removed by user name.                           *)
RemoveByName(c) ==
  /\ pc[c] = "removeSubID"
  /\ SubID' = [i \in SubId |-> IF SubID[i] = call[c].name THEN Nil ELSE SubID[i]]
  /\ Step(c, "removeIDchannel")
  /\ UNCHANGED <<activeClients, logins, IDchannel, channels, queues, todo, live>>

RemoveSubID(c) ==
  /\ pc[c] = "removeSubID"
  /\ SubID' = [SubID EXCEPT ![call[c].frame.id] = Nil]
  /\ Step(c, "removeIDchannel")
  /\ UNCHANGED <<activeClients, logins, IDchannel, channels, queues, todo, live>>

RemoveIDchannel(c) ==
  /\ pc[c] = "removeIDchannel"
  /\ LET i == call[c].frame.id IN
       /\ IDchannel' = [IDchannel EXCEPT ![i] = Nil]
       /\ live' = {s \in live : s.conn # c \/ s.id # i}
  /\ Return(c)
  /\ UNCHANGED <<activeClients, logins, SubID, channels, queues, todo>>

HandleUnsub(c) ==
  /\ \/ Unsubscribe(c) \/ ReadSubID(c) \/ RemoveUser(c)
     \/ RemoveSubID(c) \/ RemoveIDchannel(c)
  /\ UNCHANGED <<monitor, terminate, sent, outbox>>

-----------------------------------------------------------------------------
(* handleSend and connectionsImpl.send(channel, msg).  No channel is ever  *)
(* taken out of channels, so the containsKey and the two gets that decide  *)
(* and lock are one step, the reading of the queue to lock.                *)

Send(c) ==
  /\ pc[c] = "send"
  /\ LET d == call[c].frame.dest IN
       IF d # Nil /\ channels[d] = Nil
       THEN DisconnectAndReturn(c)
       ELSE /\ IF d = Nil THEN Throw(c)
               ELSE call' = [call EXCEPT ![c].lock = channels[d]] /\ Goto(c, "acquire")
            /\ UNCHANGED <<activeClients, logins>>
  /\ UNCHANGED <<monitor, todo, outbox>>

NoMonitor(q) == TRUE  \* mutant: the broadcast is not synchronized
Free(q) == monitor[q] = Nil

(* synchronized(channels.get(channel)); the loop iterates over what a      *)
(* second channels.get(channel) returns.                                   *)
Acquire(c) ==
  /\ pc[c] = "acquire"
  /\ Free(call[c].lock)
  /\ monitor' = [monitor EXCEPT ![call[c].lock] = c]
  /\ LET q == channels[call[c].frame.dest] IN
       /\ call' = [call EXCEPT ![c].iter = q]
       /\ todo' = [todo EXCEPT ![c] = queues[q]]
  /\ Goto(c, "next")
  /\ UNCHANGED <<activeClients, logins, outbox>>

KeepMonitor(c) == UNCHANGED monitor  \* mutant: the monitor is not released
Release(c) == monitor' = [monitor EXCEPT ![call[c].lock] = Nil]

(* for(String login: ...) and the first userID.get(login).                 *)
Visit(c) ==
  /\ pc[c] = "next"
  /\ \E u \in Login :
       /\ todo[c][u] > 0
       /\ todo' = [todo EXCEPT ![c][u] = @ - 1]
       /\ IF userID[u] = Nil
          THEN Step(c, "next")
          ELSE call' = [call EXCEPT ![c].target = u] /\ Goto(c, "route")
  /\ UNCHANGED <<activeClients, logins, monitor, outbox>>

(* The second userID.get(login), whose unboxing throws on null.            *)
Route(c) ==
  /\ pc[c] = "route"
  /\ LET k == userID[call[c].target] IN
       IF k = Nil
       THEN Throw(c) /\ Release(c) /\ todo' = [todo EXCEPT ![c] = Empty]
       ELSE /\ call' = [call EXCEPT ![c].target = k]
            /\ Goto(c, "lookup")
            /\ UNCHANGED <<monitor, todo>>
  /\ UNCHANGED <<activeClients, logins, outbox>>

(* Mutant: a publisher is not sent its own message.                        *)
LookupOthers(c) ==
  /\ pc[c] = "lookup"
  /\ Step(c, IF call[c].target \in activeClients \ {c} THEN "deliver" ELSE "next")
  /\ UNCHANGED <<activeClients, logins, monitor, todo, outbox>>

(* send(connectionId, msg): the handler, if the connection still has one.  *)
Lookup(c) ==
  /\ pc[c] = "lookup"
  /\ Step(c, IF call[c].target \in activeClients THEN "deliver" ELSE "next")
  /\ UNCHANGED <<activeClients, logins, monitor, todo, outbox>>

(* The MESSAGE of c's frame: copy says who handed it over, the broadcast   *)
(* to a handler or the handler of c itself to its publisher.               *)
Copy(c, copy) == [channel |-> call[c].frame.dest, from |-> c, n |-> sent[c],
                  copy |-> copy]
Message(c) == Copy(c, "broadcast")

Deliver(c) ==
  /\ pc[c] = "deliver"
  /\ LET k == call[c].target IN
       outbox' = IF terminate[k] THEN outbox
                 ELSE [outbox EXCEPT ![k] = Append(@, Message(c))]
  /\ Step(c, "next")
  /\ UNCHANGED <<activeClients, logins, monitor, todo>>

EndBroadcast(c) ==
  /\ pc[c] = "next" /\ todo[c] = Empty
  /\ Release(c)
  /\ call' = [call EXCEPT ![c].lock = Nil, ![c].iter = Nil, ![c].target = Nil]
  /\ Goto(c, "respond")
  /\ UNCHANGED <<activeClients, logins, todo, outbox>>

(* handleSend returns the MESSAGE, and the connection handler writes it to *)
(* the publisher as the response of its frame: whether or not that has     *)
(* subscribed, and when the monitor of the queue is free again.            *)
Respond(c) ==
  /\ pc[c] = "respond"
  /\ outbox' = [outbox EXCEPT ![c] = Append(@, Copy(c, "response"))]
  /\ Return(c)
  /\ UNCHANGED <<activeClients, logins, monitor, todo>>

HandleSend(c) ==
  /\ \/ Send(c) \/ Acquire(c) \/ Visit(c) \/ Route(c)
     \/ Lookup(c) \/ Deliver(c) \/ EndBroadcast(c) \/ Respond(c)
  /\ UNCHANGED <<subscriptions, terminate, sent, live>>

-----------------------------------------------------------------------------
(* handleDisconnect looks the receipt up among the connection ids.         *)
HandleDisconnect(c) ==
  /\ pc[c] = "disconnect"
  /\ LET r == call[c].frame.receipt IN
       IF ~terminate[c] /\ r # Nil
       THEN /\ DisconnectAndReturn(c)
            /\ terminate' = [terminate EXCEPT
                 ![c] = r \in activeClients /\ ~DisconnectThrows(c)]
       ELSE /\ IF terminate[c] THEN Return(c) ELSE Throw(c)
            /\ UNCHANGED <<activeClients, logins, terminate>>
  /\ UNCHANGED <<subscriptions, monitor, sent, todo, history>>

(* A command the server does not know gets no response; a frame of empty   *)
(* lines has no first line, and lines[0] throws.                           *)
HandleOther(c) ==
  /\ pc[c] = "other"
  /\ IF call[c].frame.blank THEN Throw(c) ELSE Return(c)
  /\ UNCHANGED <<activeClients, logins, subscriptions, monitor, terminate, sent,
                 todo, history>>

-----------------------------------------------------------------------------
(* The steps of c's thread inside process.                                 *)
Process(c) == \/ HandleConnect(c) \/ HandleSub(c) \/ HandleUnsub(c)
              \/ HandleSend(c) \/ HandleDisconnect(c) \/ HandleOther(c)

Next == \E c \in Conn : \/ Accept(c)
                        \/ \E f \in Script[c] : Receive(c, f)
                        \/ Hangup(c)
                        \/ Process(c)

(* Every thread that can run is scheduled; no client has to send anything. *)
Fairness == \A c \in Conn : WF_vars(Process(c))

Spec == Init /\ [][Next]_vars /\ Fairness

=============================================================================
