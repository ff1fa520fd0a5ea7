------------------------- MODULE StompServiceProofs -------------------------
(***************************************************************************)
(* Proof that the STOMP server implements the publish/subscribe service    *)
(* PubSub, for any connections, channels, ids and numbers of frames.  The  *)
(* clients are careful, have ids of their own and stay logged in, and      *)
(* every channel has its queue from the start.                             *)
(*                                                                         *)
(* Each broadcast of the server is a publication of the service: Acquire   *)
(* begins it, the Lookup of a handler gives a copy or loses it, and        *)
(* EndBroadcast ends it.  What subscribes and unsubscribes is the change   *)
(* of the queue, and what detaches a login is the removal of its handler.  *)
(***************************************************************************)
EXTENDS StompBrokerClientProofs

(* Clients that have logged in before.                                     *)
LoggedIn == \A c \in Conn : \A f \in Script[c] : f.cmd # "CONNECT"

(* Every login has a connection of its own, and no handler stops: the      *)
(* receipt that handleDisconnect looks up is no connection.                *)
Routed == \A u \in Login : /\ userID[u] \in Conn
                           /\ \A v \in Login : userID[u] = userID[v] => u = v
Settled == \A c \in Conn : ~terminate[c] /\ pc[c] \notin InConnect \cup {"new"}

(* A broadcast iterates over the queue it locked, and no other handler     *)
(* over any; what it has found is the connection of a login.               *)
Iterates == \A c \in Conn :
  /\ pc[c] \in Broadcasting => call[c].iter = channels[call[c].frame.dest]
  /\ pc[c] \notin Broadcasting => call[c].iter = Nil
Found == \A c \in Conn :
  pc[c] \in {"lookup", "deliver"} => \E u \in Login : call[c].target = userID[u]

Serving == InWarm /\ IOrder /\ Routed /\ Settled /\ Iterates /\ Found

-----------------------------------------------------------------------------
(* The steps of a broadcast.                                               *)

LEMMA ServingParts ==
  ASSUME Serving, NEW c \in Conn
  PROVE  /\ IInv /\ TypeOK /\ Warm /\ call[c] \in Call
         /\ pc[c] \in Broadcasting \cup {"acquire"} =>
              /\ call[c].frame.dest \in Channel
              /\ call[c].lock = channels[call[c].frame.dest]
         /\ pc[c] = "route" => call[c].target \in Login
         /\ \A d \in Channel : channels[d] \in QueueRef /\ channels[d] # Nil
<1>1. IInv /\ TypeOK /\ Warm /\ call[c] \in Call /\ c \in Sound
  BY DEF Serving, InWarm, IInv, TypeOK
<1>2. ASSUME pc[c] \in Broadcasting \cup {"acquire"} PROVE call[c].frame.dest \in Channel
  BY <1>1, <1>2 DEF Sound, SendFrame
<1>3. pc[c] \in Broadcasting \cup {"acquire"} => call[c].lock = channels[call[c].frame.dest]
  BY DEF Serving, IOrder, Locked
<1>4. pc[c] = "route" => call[c].target \in Login
  BY <1>1 DEF Sound
<1>5. \A d \in Channel : channels[d] \in QueueRef /\ channels[d] # Nil
  BY <1>1 DEF TypeOK, Warm
<1> QED BY <1>1, <1>2, <1>3, <1>4, <1>5

LEMMA AcquireDoes ==
  ASSUME Serving, NEW c \in Conn, HandleSend(c), Acquire(c)
  PROVE  LET q == channels[call[c].frame.dest] IN
         /\ Apart(c) /\ pc[c] = "acquire" /\ pc'[c] = "next"
         /\ call'[c].frame = call[c].frame /\ call'[c].iter = q
         /\ monitor[q] = Nil /\ monitor' = [monitor EXCEPT ![q] = c]
         /\ todo' = [todo EXCEPT ![c] = queues[q]]
         /\ UNCHANGED <<activeClients, userID, channels, queues, outbox, sent>>
<1> DEFINE e == [call[c] EXCEPT !.iter = channels[call[c].frame.dest]]
<1>1. call' = [call EXCEPT ![c] = e] /\ Goto(c, "next") /\ pc[c] = "acquire"
  BY DEF Acquire
<1>2. e.frame = call[c].frame /\ e.iter = channels[call[c].frame.dest]
  BY ServingParts DEF Call
<1> HIDE DEF e
<1>3. Apart(c) /\ pc'[c] = "next" /\ call'[c] = e
  BY <1>1, GotoApart, ServingParts
<1>4. call[c].lock = channels[call[c].frame.dest]
  BY <1>1, ServingParts
<1>5. /\ monitor[call[c].lock] = Nil /\ monitor' = [monitor EXCEPT ![call[c].lock] = c]
      /\ todo' = [todo EXCEPT ![c] = queues[channels[call[c].frame.dest]]]
  BY DEF Acquire, Free
<1>6. UNCHANGED <<activeClients, userID, channels, queues, outbox, sent>>
  BY DEF Acquire, HandleSend, subscriptions, logins
<1> QED BY <1>1, <1>2, <1>3, <1>4, <1>5, <1>6

LEMMA VisitDoes ==
  ASSUME Serving, NEW c \in Conn, HandleSend(c), Visit(c)
  PROVE  /\ Apart(c) /\ pc[c] = "next" /\ pc'[c] = "route"
         /\ call'[c].frame = call[c].frame /\ call'[c].iter = call[c].iter
         /\ call'[c].target \in Login /\ todo[c][call'[c].target] > 0
         /\ todo' = [todo EXCEPT ![c][call'[c].target] = @ - 1]
         /\ UNCHANGED <<activeClients, userID, channels, queues, monitor, outbox, sent>>
<1>1. PICK u \in Login :
        /\ todo[c][u] > 0 /\ todo' = [todo EXCEPT ![c][u] = @ - 1]
        /\ IF userID[u] = Nil
           THEN Step(c, "next")
           ELSE call' = [call EXCEPT ![c].target = u] /\ Goto(c, "route")
  BY DEF Visit
<1>2. userID[u] # Nil
  BY NilAssumption DEF Serving, Routed
<1> DEFINE e == [call[c] EXCEPT !.target = u]
<1>3. call' = [call EXCEPT ![c] = e] /\ Goto(c, "route")
  BY <1>1, <1>2
<1>4. e.frame = call[c].frame /\ e.iter = call[c].iter /\ e.target = u
  BY ServingParts DEF Call
<1> HIDE DEF e
<1>5. Apart(c) /\ pc'[c] = "route" /\ call'[c] = e
  BY <1>3, GotoApart, ServingParts
<1>6. /\ pc[c] = "next"
      /\ UNCHANGED <<activeClients, userID, channels, queues, monitor, outbox, sent>>
  BY DEF Visit, HandleSend, subscriptions, logins
<1> QED BY <1>1, <1>4, <1>5, <1>6

LEMMA RouteDoes ==
  ASSUME Serving, NEW c \in Conn, HandleSend(c), Route(c)
  PROVE  /\ Apart(c) /\ pc[c] = "route" /\ pc'[c] = "lookup"
         /\ call'[c].frame = call[c].frame /\ call'[c].iter = call[c].iter
         /\ call[c].target \in Login /\ call'[c].target = userID[call[c].target]
         /\ UNCHANGED <<activeClients, userID, channels, queues, monitor, todo, outbox, sent>>
<1> DEFINE e == [call[c] EXCEPT !.target = userID[call[c].target]]
<1>1. pc[c] = "route"
  BY DEF Route
<1>2. call[c].target \in Login /\ userID[call[c].target] # Nil
  BY <1>1, ServingParts, NilAssumption DEF Serving, Routed
<1>3. call' = [call EXCEPT ![c] = e] /\ Goto(c, "lookup") /\ UNCHANGED <<monitor, todo>>
  BY <1>2 DEF Route
<1>4. /\ e.frame = call[c].frame /\ e.iter = call[c].iter
      /\ e.target = userID[call[c].target]
  BY ServingParts DEF Call
<1> HIDE DEF e
<1>5. Apart(c) /\ pc'[c] = "lookup" /\ call'[c] = e
  BY <1>3, GotoApart, ServingParts
<1>6. UNCHANGED <<activeClients, userID, channels, queues, outbox, sent>>
  BY DEF Route, HandleSend, subscriptions, logins
<1> QED BY <1>1, <1>2, <1>3, <1>4, <1>5, <1>6

LEMMA LookupDoes ==
  ASSUME Serving, NEW c \in Conn, HandleSend(c), Lookup(c)
  PROVE  /\ Apart(c) /\ pc[c] = "lookup" /\ call'[c] = call[c]
         /\ pc'[c] = IF call[c].target \in activeClients THEN "deliver" ELSE "next"
         /\ UNCHANGED <<activeClients, userID, channels, queues, monitor, todo, outbox, sent>>
<1> DEFINE l == IF call[c].target \in activeClients THEN "deliver" ELSE "next"
<1>1. Step(c, l)
  BY DEF Lookup
<1> HIDE DEF l
<1>2. Apart(c) /\ pc'[c] = l /\ call'[c] = call[c]
  BY <1>1, StepApart, ServingParts
<1>3. /\ pc[c] = "lookup"
      /\ UNCHANGED <<activeClients, userID, channels, queues, monitor, todo, outbox, sent>>
  BY DEF Lookup, HandleSend, subscriptions, logins
<1> QED BY <1>2, <1>3 DEF l

LEMMA DeliverDoes ==
  ASSUME Serving, NEW c \in Conn, HandleSend(c), Deliver(c)
  PROVE  /\ Apart(c) /\ pc[c] = "deliver" /\ pc'[c] = "next" /\ call'[c] = call[c]
         /\ call[c].target \in Conn
         /\ outbox' = [outbox EXCEPT ![call[c].target] = Append(@, Message(c))]
         /\ UNCHANGED <<activeClients, userID, channels, queues, monitor, todo, sent>>
<1>1. Apart(c) /\ pc[c] = "deliver" /\ pc'[c] = "next" /\ call'[c] = call[c]
  BY StepApart, ServingParts DEF Deliver
<1>2. call[c].target \in Conn
  BY <1>1 DEF Serving, Found, Routed
<1>3. outbox' = [outbox EXCEPT ![call[c].target] = Append(@, Message(c))]
  BY <1>2 DEF Deliver, Serving, Settled
<1>4. UNCHANGED <<activeClients, userID, channels, queues, monitor, todo, sent>>
  BY DEF Deliver, HandleSend, subscriptions, logins
<1> QED BY <1>1, <1>2, <1>3, <1>4

LEMMA EndDoes ==
  ASSUME Serving, NEW c \in Conn, HandleSend(c), EndBroadcast(c)
  PROVE  LET q == channels[call[c].frame.dest] IN
         /\ Apart(c) /\ pc[c] = "next" /\ pc'[c] = "respond" /\ call'[c].iter = Nil
         /\ todo[c] = Empty /\ monitor' = [monitor EXCEPT ![q] = Nil]
         /\ UNCHANGED <<activeClients, userID, channels, queues, todo, outbox, sent>>
<1> DEFINE e == [call[c] EXCEPT !.lock = Nil, !.iter = Nil, !.target = Nil]
<1>4. call' = [call EXCEPT ![c] = e] /\ Goto(c, "respond")
  BY DEF EndBroadcast
<1>5. e.iter = Nil
  BY ServingParts DEF Call
<1> HIDE DEF e
<1>1. Apart(c) /\ pc'[c] = "respond" /\ call'[c].iter = Nil
  BY <1>4, <1>5, GotoApart, ServingParts
<1>2. /\ pc[c] = "next" /\ todo[c] = Empty
      /\ monitor' = [monitor EXCEPT ![call[c].lock] = Nil]
      /\ UNCHANGED <<activeClients, userID, channels, queues, todo, outbox, sent>>
  BY DEF EndBroadcast, Release, HandleSend, subscriptions, logins
<1>3. call[c].lock = channels[call[c].frame.dest]
  BY <1>2, ServingParts DEF Broadcasting
<1> QED BY <1>1, <1>2, <1>3

LEMMA RespondDoes ==
  ASSUME Serving, NEW c \in Conn, HandleSend(c), Respond(c)
  PROVE  /\ Apart(c) /\ pc[c] = "respond"
         /\ pc'[c] \in Resting \ {"new"} /\ call'[c] = NoCall
         /\ Copy(c, "response") \in Msg
         /\ outbox' = [outbox EXCEPT ![c] = Append(@, Copy(c, "response"))]
         /\ UNCHANGED <<activeClients, userID, channels, queues, monitor, todo, sent>>
<1>1. Apart(c) /\ pc'[c] \in Resting \ {"new"} /\ call'[c] = NoCall
  BY ReturnRests, RestsApart, ServingParts DEF Respond
<1>2. /\ pc[c] = "respond"
      /\ outbox' = [outbox EXCEPT ![c] = Append(@, Copy(c, "response"))]
      /\ UNCHANGED <<activeClients, userID, channels, queues, monitor, todo, sent>>
  BY DEF Respond, HandleSend, subscriptions, logins
<1>3. call[c].frame.dest \in Channel /\ sent[c] \in Nat
  BY <1>2 DEF Serving, InWarm, IInv, Sound, SendFrame, TypeOK
<1>4. Copy(c, "response") \in Msg
  BY <1>3 DEF Copy, Msg
<1> QED BY <1>1, <1>2, <1>4

LEMMA StartDoes ==
  ASSUME Serving, NEW c \in Conn, HandleSend(c), Send(c)
  PROVE  /\ Apart(c) /\ pc[c] = "send"
         /\ \/ pc'[c] \in Resting \ {"new"} /\ call'[c] = NoCall
            \/ pc'[c] = "acquire" /\ call'[c].iter = call[c].iter
         /\ DisconnectAndReturn(c) \/ UNCHANGED activeClients
         /\ UNCHANGED <<userID, channels, queues, monitor, todo, outbox, sent>>
<1> DEFINE e == [call[c] EXCEPT !.lock = channels[call[c].frame.dest]]
<1>1. /\ pc[c] = "send"
      /\ \/ DisconnectAndReturn(c)
         \/ Throw(c) /\ UNCHANGED <<activeClients, userID>>
         \/ /\ call' = [call EXCEPT ![c] = e] /\ Goto(c, "acquire")
            /\ UNCHANGED <<activeClients, userID>>
      /\ UNCHANGED <<channels, queues, monitor, todo, outbox, sent>>
  BY DEF Send, HandleSend, subscriptions, logins
<1>2. e.iter = call[c].iter
  BY ServingParts DEF Call
<1> HIDE DEF e
<1>3. DisconnectAndReturn(c) => UNCHANGED userID
  BY DisconnectKeeps, ServingParts
<1>4. CASE DisconnectAndReturn(c)
  BY <1>1, <1>3, <1>4, DisconnectKeeps, RestsApart, ServingParts
<1>5. CASE Throw(c) /\ UNCHANGED <<activeClients, userID>>
  BY <1>1, <1>5, ThrowRests, RestsApart, ServingParts
<1>6. CASE /\ call' = [call EXCEPT ![c] = e] /\ Goto(c, "acquire")
           /\ UNCHANGED <<activeClients, userID>>
  BY <1>1, <1>2, <1>6, GotoApart, ServingParts
<1> QED BY <1>1, <1>4, <1>5, <1>6

(* The other steps that such clients take.                                 *)
LEMMA ReceiveDoes ==
  ASSUME LoggedIn, Serving, NEW c \in Conn, NEW f \in Script[c], Receive(c, f)
  PROVE  /\ Apart(c) /\ pc[c] = "idle" /\ call'[c].iter = call[c].iter
         /\ pc'[c] \in {"subscribe", "unsubscribe", "send", "disconnect", "other"}
         /\ \A k \in Conn \ {c} : sent'[k] = sent[k]
         /\ UNCHANGED <<activeClients, userID, channels, queues, monitor, terminate, todo,
                        outbox>>
<1>1. f \in Frame /\ f.cmd # "CONNECT"
  BY ScriptAssumption DEF LoggedIn
<1> DEFINE l == FirstStep(f)
           e == [call[c] EXCEPT !.frame = f]
<1>2. l \in {"subscribe", "unsubscribe", "send", "disconnect", "other"}
  BY <1>1, FirstStepFits DEF ConnectFrame
<1>3. e.iter = call[c].iter
  BY ServingParts DEF Call
<1>4. Goto(c, l) /\ call' = [call EXCEPT ![c] = e] /\ pc[c] = "idle"
  BY DEF Receive
<1> HIDE DEF e, l
<1>5. Apart(c) /\ pc'[c] = l /\ call'[c] = e
  BY <1>4, GotoApart, ServingParts
<1>6. \A k \in Conn \ {c} : sent'[k] = sent[k]
  BY ServingParts DEF Receive, TypeOK
<1>7. UNCHANGED <<activeClients, userID, channels, queues, monitor, terminate, todo, outbox>>
  BY DEF Receive, logins, subscriptions, history
<1> QED BY <1>2, <1>3, <1>4, <1>5, <1>6, <1>7

LEMMA HangupDoes ==
  ASSUME Serving, NEW c \in Conn, Hangup(c)
  PROVE  /\ Apart(c) /\ pc[c] = "idle" /\ pc'[c] = "closed" /\ call'[c] = call[c]
         /\ UNCHANGED <<activeClients, userID, channels, queues, monitor, terminate, todo,
                        outbox, sent>>
<1>1. Apart(c) /\ pc'[c] = "closed" /\ call'[c] = call[c]
  BY StepApart, ServingParts DEF Hangup
<1> QED BY <1>1 DEF Hangup, logins, subscriptions, history

LEMMA EndsDo ==
  ASSUME Serving, NEW c \in Conn, HandleDisconnect(c) \/ HandleOther(c)
  PROVE  /\ Apart(c) /\ pc[c] \in {"disconnect", "other"}
         /\ pc'[c] \in Resting \ {"new"} /\ call'[c] = NoCall
         /\ DisconnectAndReturn(c) \/ UNCHANGED activeClients
         /\ \A k \in Conn : ~terminate'[k]
         /\ UNCHANGED <<userID, channels, queues, monitor, todo, outbox, sent>>
<1>1. CASE HandleDisconnect(c)
  <2>0. PICK r : r = call[c].frame.receipt
    OBVIOUS
  <2>1. pc[c] = "disconnect" /\ r \in Receipt \cup {Nil}
    <3>1. pc[c] = "disconnect" /\ c \in Sound
      BY <1>1 DEF HandleDisconnect, Serving, InWarm, IInv
    <3> QED BY <2>0, <3>1 DEF Sound, DisconnectFrame
  <2>2. UNCHANGED <<channels, queues, monitor, todo, outbox, sent>>
    BY <1>1 DEF HandleDisconnect, subscriptions, history
  <2>3. CASE r # Nil
    <3>1. r \notin activeClients
      BY <2>1, <2>3, KeyAssumption, ServingParts DEF TypeOK
    <3>2. /\ DisconnectAndReturn(c)
          /\ terminate' = [terminate EXCEPT
               ![c] = r \in activeClients /\ ~DisconnectThrows(c)]
      BY <1>1, <2>0, <2>3 DEF HandleDisconnect, Serving, Settled
    <3>3. \A k \in Conn : ~terminate'[k]
      BY <3>1, <3>2, ServingParts DEF TypeOK, Serving, Settled
    <3>4. Rests(c) /\ UNCHANGED userID
      BY <3>2, DisconnectKeeps, ServingParts
    <3> QED BY <2>1, <2>2, <3>2, <3>3, <3>4, RestsApart, ServingParts
  <2>4. CASE r = Nil
    <3>1. Throw(c) /\ UNCHANGED <<activeClients, userID, terminate>>
      BY <1>1, <2>0, <2>4 DEF HandleDisconnect, logins, Serving, Settled
    <3> QED BY <2>1, <2>2, <3>1, ThrowRests, RestsApart, ServingParts DEF Serving, Settled
  <2> QED BY <2>3, <2>4
<1>2. CASE HandleOther(c)
  <2>1. /\ pc[c] = "other" /\ (Throw(c) \/ Return(c))
        /\ UNCHANGED <<activeClients, userID, channels, queues, monitor, terminate, todo,
                       outbox, sent>>
    BY <1>2 DEF HandleOther, logins, subscriptions, history
  <2>2. Rests(c)
    BY <2>1, ThrowRests, ReturnRests, ServingParts
  <2>3. Apart(c) /\ pc'[c] \in Resting \ {"new"} /\ call'[c] = NoCall
    BY <2>2, RestsApart, ServingParts
  <2> QED BY <2>1, <2>3 DEF Serving, Settled
<1> QED BY <1>1, <1>2

LEMMA NameIter ==
  \A e \in Call : \A a, b : /\ [e EXCEPT !.name = a, !.dest = b].iter = e.iter
                          /\ [e EXCEPT !.name = a].iter = e.iter
                          /\ [e EXCEPT !.dest = b].iter = e.iter
BY DEF Call

LEMMA ChangeDoes ==
  ASSUME Serving, NEW c \in Conn, HandleSub(c) \/ HandleUnsub(c)
  PROVE  /\ Apart(c) /\ pc[c] \in Changing
         /\ pc'[c] \in (Resting \ {"new"}) \cup Changing
         /\ call'[c].iter \in {Nil, call[c].iter}
         /\ DisconnectAndReturn(c) \/ UNCHANGED activeClients
         /\ UNCHANGED <<userID, monitor, terminate, outbox, sent>>
<1>0. NoCall.iter = Nil
  BY DEF NoCall
<1>1. CASE HandleSub(c)
  <2>1. UNCHANGED <<activeClients, userID, monitor, terminate, outbox, sent>>
    BY <1>1 DEF HandleSub, logins
  <2>2. pc[c] \in Changing
    BY <1>1 DEF HandleSub, Subscribe, PutChannel, PutSubID, AddUser, PutIDchannel,
                Changing, InSubscribe
  <2>3. CASE Subscribe(c)
    <3>1. \/ Dropped(c)
          \/ /\ Apart(c) /\ pc'[c] \in {"putChannel", "joinSubID"}
             /\ call'[c] = [call[c] EXCEPT !.name = loginID[c], !.dest = call[c].frame.dest]
      BY <2>3, SubscribeDoes, ServingParts
    <3>2. call[c] \in Call
      BY ServingParts
    <3>3. call'[c] = [call[c] EXCEPT !.name = loginID[c], !.dest = call[c].frame.dest]
            => call'[c].iter = call[c].iter
      BY <3>2, NameIter
    <3> QED BY <1>0, <2>1, <2>2, <3>1, <3>3 DEF Dropped, Changing, InSubscribe
  <2>4. CASE PutChannel(c) \/ PutSubID(c) \/ AddUser(c) \/ PutIDchannel(c)
    BY <1>0, <2>1, <2>2, <2>4, PutChannelDoes, PutSubIDDoes, AddUserDoes, PutIDchannelDoes,
       ServingParts
    DEF Dropped, Changing, InSubscribe
  <2> QED BY <1>1, <2>3, <2>4 DEF HandleSub
<1>2. CASE HandleUnsub(c)
  <2>1. UNCHANGED <<monitor, terminate, outbox, sent>>
    BY <1>2 DEF HandleUnsub
  <2>2. pc[c] \in Changing
    BY <1>2 DEF HandleUnsub, Unsubscribe, ReadSubID, RemoveUser, RemoveSubID, RemoveIDchannel,
                Changing, InUnsubscribe
  <2>3. /\ DisconnectAndReturn(c) \/ UNCHANGED activeClients
        /\ UNCHANGED userID
    <3>1. \/ DisconnectAndReturn(c) \/ UNCHANGED <<activeClients, userID>>
      BY <1>2 DEF HandleUnsub, Unsubscribe, ReadSubID, RemoveUser, RemoveSubID,
                  RemoveIDchannel, logins
    <3> QED BY <3>1, DisconnectKeeps, ServingParts
  <2>4. CASE Unsubscribe(c)
    <3>1. \/ Dropped(c)
          \/ /\ Apart(c) /\ pc'[c] \in {"readSubID"}
             /\ call'[c] = [call[c] EXCEPT !.dest = IDchannel[call[c].frame.id]]
      BY <2>4, UnsubscribeDoes, ServingParts
    <3>2. call[c] \in Call
      BY ServingParts
    <3>3. call'[c] = [call[c] EXCEPT !.dest = IDchannel[call[c].frame.id]]
            => call'[c].iter = call[c].iter
      BY <3>2, NameIter
    <3> QED BY <1>0, <2>1, <2>2, <2>3, <3>1, <3>3 DEF Dropped, Changing, InUnsubscribe
  <2>5. CASE ReadSubID(c)
    <3>1. \/ Dropped(c)
          \/ /\ Apart(c) /\ pc'[c] \in {"removeUser"}
             /\ call'[c] = [call[c] EXCEPT !.name = SubID[call[c].frame.id]]
      BY <2>5, ReadSubIDDoes, ServingParts
    <3>2. call[c] \in Call
      BY ServingParts
    <3>3. call'[c] = [call[c] EXCEPT !.name = SubID[call[c].frame.id]]
            => call'[c].iter = call[c].iter
      BY <3>2, NameIter
    <3> QED BY <1>0, <2>1, <2>2, <2>3, <3>1, <3>3 DEF Dropped, Changing, InUnsubscribe
  <2>6. CASE RemoveUser(c) \/ RemoveSubID(c) \/ RemoveIDchannel(c)
    BY <1>0, <2>1, <2>2, <2>3, <2>6, RemoveUserDoes, RemoveSubIDDoes, RemoveIDchannelDoes,
       ServingParts
    DEF Dropped, Changing, InUnsubscribe
  <2> QED BY <1>2, <2>4, <2>5, <2>6 DEF HandleUnsub
<1> QED BY <1>1, <1>2

-----------------------------------------------------------------------------
(* What every step keeps.                                                  *)

LEMMA RouteKept ==
  ASSUME Serving, LoggedIn, [CarefulNext]_vars
  PROVE  UNCHANGED <<userID, channels>> /\ Settled'
<1>1. UNCHANGED channels
  <2>1. [Next]_vars
    BY CarefulSteps
  <2> QED BY <2>1, WarmStep, ServingParts DEF Serving, InWarm
<1>2. ASSUME NEW c \in Conn, Apart(c), pc'[c] \notin InConnect \cup {"new"}, UNCHANGED userID,
             \A k \in Conn : ~terminate'[k]
      PROVE  UNCHANGED <<userID, channels>> /\ Settled'
  BY <1>1, <1>2 DEF Settled, Serving, Apart
<1>3. CASE UNCHANGED vars
  BY <1>1, <1>3 DEF vars, logins, Serving, Settled
<1>4. CASE CarefulNext
  <2>1. PICK c \in Conn : CarefulStep(c)
    BY <1>4, CarefulSteps
  <2>2. CASE \E f \in Script[c] : Careful(c, f) /\ Receive(c, f)
    <3>1. /\ Apart(c) /\ UNCHANGED <<userID, terminate>>
          /\ pc'[c] \in {"subscribe", "unsubscribe", "send", "disconnect", "other"}
      BY <2>2, ReceiveDoes
    <3>2. \A k \in Conn : ~terminate'[k]
      BY <3>1 DEF Serving, Settled
    <3> QED BY <1>2, <3>1, <3>2 DEF InConnect
  <2>3. CASE Hangup(c)
    <3>1. Apart(c) /\ UNCHANGED <<userID, terminate>> /\ pc'[c] = "closed"
      BY <2>3, HangupDoes
    <3>2. \A k \in Conn : ~terminate'[k]
      BY <3>1 DEF Serving, Settled
    <3> QED BY <1>2, <3>1, <3>2 DEF InConnect
  <2>4. CASE HandleSub(c) \/ HandleUnsub(c)
    <3>1. /\ Apart(c) /\ UNCHANGED <<userID, terminate>>
          /\ pc'[c] \in (Resting \ {"new"}) \cup Changing
      BY <2>4, ChangeDoes
    <3>2. \A k \in Conn : ~terminate'[k]
      BY <3>1 DEF Serving, Settled
    <3>3. ((Resting \ {"new"}) \cup Changing) \cap (InConnect \cup {"new"}) = {}
      BY DEF Resting, Changing, InSubscribe, InUnsubscribe, InConnect
    <3> QED BY <1>2, <3>1, <3>2, <3>3
  <2>5. CASE HandleDisconnect(c) \/ HandleOther(c)
    <3>1. (Resting \ {"new"}) \cap (InConnect \cup {"new"}) = {}
      BY DEF Resting, InConnect
    <3> QED BY <1>2, <2>5, <3>1, EndsDo
  <2>6. CASE HandleSend(c)
    <3>1. UNCHANGED terminate
      BY <2>6 DEF HandleSend
    <3>2. \A k \in Conn : ~terminate'[k]
      BY <3>1 DEF Serving, Settled
    <3>3. /\ Apart(c) /\ UNCHANGED userID
          /\ pc'[c] \in (Resting \ {"new"}) \cup Broadcasting \cup {"acquire", "respond"}
      BY <2>6, StartDoes, AcquireDoes, VisitDoes, RouteDoes, LookupDoes, DeliverDoes, EndDoes,
         RespondDoes
      DEF HandleSend, Broadcasting
    <3>4. ((Resting \ {"new"}) \cup Broadcasting \cup {"acquire", "respond"})
             \cap (InConnect \cup {"new"}) = {}
      BY DEF Resting, Broadcasting, InConnect
    <3> QED BY <1>2, <3>2, <3>3, <3>4
  <2>7. ~Accept(c) /\ ~HandleConnect(c)
    BY DEF Accept, HandleConnect, Connect, PutUser, PutUserID, PutLoginID, InConnect,
           Serving, Settled
  <2> QED BY <2>1, <2>2, <2>3, <2>4, <2>5, <2>6, <2>7 DEF CarefulStep, Process
<1> QED BY <1>3, <1>4

(* The broadcast of c goes on, or it does not broadcast.                   *)
LEMMA IteratesKept ==
  ASSUME Serving, NEW c \in Conn, Apart(c), UNCHANGED <<channels, userID>>,
         \/ pc'[c] \notin Broadcasting /\ call'[c].iter = Nil
         \/ /\ pc'[c] \in Broadcasting /\ call'[c].iter = channels[call'[c].frame.dest]
            /\ pc'[c] \in {"lookup", "deliver"} =>
                 \E u \in Login : call'[c].target = userID[u]
  PROVE  Iterates' /\ Found'
<1>1. Iterates'
  BY DEF Serving, Iterates, Apart
<1>2. Found'
  BY DEF Serving, Found, Apart, Broadcasting
<1> QED BY <1>1, <1>2

LEMMA ServingStep == OwnIds /\ LoggedIn /\ Serving /\ [CarefulNext]_vars => Serving'
<1> SUFFICES ASSUME OwnIds, LoggedIn, Serving, [CarefulNext]_vars PROVE Serving'
  OBVIOUS
<1>1. UNCHANGED <<userID, channels>> /\ Settled'
  BY RouteKept
<1>2. InWarm' /\ IOrder'
  <2>1. [Next]_vars
    BY CarefulSteps
  <2> QED BY <2>1, InWarmStep, OrderStep DEF Serving, InWarm
<1>3. Routed'
  BY <1>1 DEF Serving, Routed
<1>4. Iterates' /\ Found'
  <2>0. NoCall.iter = Nil /\ Broadcasting \cap (Resting \cup Changing) = {}
    BY DEF NoCall, Broadcasting, Resting, Changing, InSubscribe, InUnsubscribe
  <2>1. CASE UNCHANGED vars
    BY <1>1, <2>1 DEF vars, Serving, Iterates, Found
  <2>2. CASE CarefulNext
    <3>1. PICK c \in Conn : CarefulStep(c)
      BY <2>2, CarefulSteps
    <3>2. /\ pc[c] \in Broadcasting => call[c].iter = channels[call[c].frame.dest]
          /\ pc[c] \notin Broadcasting => call[c].iter = Nil
      BY DEF Serving, Iterates
    <3>3. ASSUME Apart(c), pc'[c] \notin Broadcasting, call'[c].iter = Nil
          PROVE  Iterates' /\ Found'
      BY <1>1, <3>3, IteratesKept
    <3>4. CASE \E f \in Script[c] : Careful(c, f) /\ Receive(c, f)
      BY <3>2, <3>3, <3>4, ReceiveDoes DEF Broadcasting
    <3>5. CASE Hangup(c)
      BY <3>2, <3>3, <3>5, HangupDoes DEF Broadcasting
    <3>6. CASE HandleSub(c) \/ HandleUnsub(c)
      BY <2>0, <3>2, <3>3, <3>6, ChangeDoes
    <3>7. CASE HandleDisconnect(c) \/ HandleOther(c)
      BY <2>0, <3>3, <3>7, EndsDo
    <3>8. CASE HandleSend(c)
      <4>1. CASE Send(c)
        <5>1. pc[c] \notin Broadcasting /\ "acquire" \notin Broadcasting
          BY <4>1 DEF Send, Broadcasting
        <5> QED BY <2>0, <3>2, <3>3, <3>8, <4>1, <5>1, StartDoes
      <4>2. CASE Acquire(c)
        BY <1>1, <3>8, <4>2, AcquireDoes, IteratesKept DEF Broadcasting
      <4>3. CASE Visit(c)
        BY <1>1, <3>2, <3>8, <4>3, VisitDoes, IteratesKept DEF Broadcasting
      <4>4. CASE Route(c)
        BY <1>1, <3>2, <3>8, <4>4, RouteDoes, IteratesKept DEF Broadcasting
      <4>5. CASE Lookup(c)
        <5>1. \E u \in Login : call[c].target = userID[u]
          BY <4>5 DEF Lookup, Serving, Found
        <5> QED BY <1>1, <3>2, <3>8, <4>5, <5>1, LookupDoes, IteratesKept DEF Broadcasting
      <4>6. CASE Deliver(c)
        BY <1>1, <3>2, <3>8, <4>6, DeliverDoes, IteratesKept DEF Broadcasting
      <4>7. CASE EndBroadcast(c)
        BY <3>3, <3>8, <4>7, EndDoes DEF Broadcasting
      <4>8. CASE Respond(c)
        BY <2>0, <3>3, <3>8, <4>8, RespondDoes
      <4> QED BY <3>8, <4>1, <4>2, <4>3, <4>4, <4>5, <4>6, <4>7, <4>8 DEF HandleSend
    <3>9. ~Accept(c) /\ ~HandleConnect(c)
      BY DEF Accept, HandleConnect, Connect, PutUser, PutUserID, PutLoginID, InConnect,
             Serving, Settled
    <3> QED BY <3>1, <3>4, <3>5, <3>6, <3>7, <3>8, <3>9 DEF CarefulStep, Process
  <2> QED BY <2>1, <2>2
<1> QED BY <1>1, <1>2, <1>3, <1>4 DEF Serving

LEMMA ServingStart ==
  ASSUME NEW own \in [Conn -> Login], \A u \in Login : \E c \in Conn : own[c] = u,
         NEW creator \in Conn, NEW passcode \in Pass, WarmInit(own, creator, passcode)
  PROVE  Serving
<1>1. InWarm /\ IOrder
  BY WarmStart, OrderStart DEF InWarm
<1>2. Routed
  <2>1. \A u \in Login : userID[u] = CHOOSE c \in Conn : own[c] = u
    BY DEF WarmInit
  <2>2. \A u \in Login : userID[u] \in Conn /\ own[userID[u]] = u
    BY <2>1
  <2> QED BY <2>2 DEF Routed
<1>3. \A c \in Conn : pc[c] = "idle" /\ call[c] = NoCall /\ ~terminate[c]
  BY DEF WarmInit
<1>4. Settled /\ Iterates /\ Found
  BY <1>3 DEF Settled, Iterates, Found, InConnect, Broadcasting, NoCall
<1> QED BY <1>1, <1>2, <1>4 DEF Serving

-----------------------------------------------------------------------------
(* The service as it is seen from a state.                                 *)

(* Whoever publishes on a channel broadcasts to it, and the other way.     *)
LEMMA PublisherIs ==
  ASSUME Serving, NEW d \in Channel
  PROVE  /\ PublisherOf(d) \in Conn \cup {Nil} /\ Nil \notin Conn
         /\ \A c \in Conn :
              PublisherOf(d) = c <=> pc[c] \in Broadcasting /\ call[c].frame.dest = d
<1>1. PublisherOf(d) = monitor[channels[d]] /\ channels[d] \in QueueRef
  BY ServingParts DEF PublisherOf, Serving, InWarm, Warm, IInv, TypeOK
<1>2. PublisherOf(d) \in Conn \cup {Nil} /\ Nil \notin Conn
  BY <1>1, NilAssumption DEF Serving, InWarm, IInv, TypeOK
<1>3. ASSUME NEW c \in Conn
      PROVE  PublisherOf(d) = c <=> pc[c] \in Broadcasting /\ call[c].frame.dest = d
  <2>1. PublisherOf(d) = c <=> pc[c] \in Broadcasting /\ call[c].lock = channels[d]
    BY <1>1 DEF Serving, InWarm, IInv, MonitorHeldByBroadcast
  <2>2. pc[c] \in Broadcasting => /\ call[c].frame.dest \in Channel
                                  /\ call[c].lock = channels[call[c].frame.dest]
    BY ServingParts
  <2>3. \A e \in Channel : channels[e] = channels[d] => e = d
    BY DEF Serving, InWarm, Warm
  <2> QED BY <2>1, <2>2, <2>3
<1> QED BY <1>2, <1>3

LEMMA SubsAre ==
  ASSUME Serving
  PROVE  /\ Subs = [d \in Channel |-> queues[channels[d]]]
         /\ Subs \in [Channel -> [Login -> Nat]]
<1>1. \A d \in Channel : channels[d] \in QueueRef /\ channels[d] # Nil
  BY DEF Serving, InWarm, Warm, IInv, TypeOK
<1>2. queues \in [QueueRef -> [Login -> Nat]]
  BY DEF Serving, InWarm, IInv, TypeOK
<1>3. \A d \in Channel : SubsOf(d) = queues[channels[d]]
  BY <1>1 DEF SubsOf
<1> QED BY <1>1, <1>2, <1>3 DEF Subs

LEMMA TodoType == Serving => todo \in [Conn -> [Login -> Nat]]
BY DEF Serving, InWarm, IInv, TypeOK

(* The copies that a publisher has left.                                   *)
LEMMA LeftIs ==
  ASSUME Serving, NEW c \in Conn
  PROVE  /\ LeftBy(c) \in [Login -> Nat]
         /\ \A u \in Login : /\ ~Underway(c, u) => LeftBy(c)[u] = todo[c][u]
                             /\ Underway(c, u) => LeftBy(c)[u] = todo[c][u] + 1
<1>1. ASSUME NEW u \in Login
      PROVE  /\ todo[c][u] \in Nat
             /\ todo[c][u] + (IF Underway(c, u) THEN 1 ELSE 0) \in Nat
             /\ ~Underway(c, u) => todo[c][u] + (IF Underway(c, u) THEN 1 ELSE 0) = todo[c][u]
  <2>1. todo[c][u] \in Nat
    BY TodoType
  <2>2. \A n \in Nat : n + 0 = n /\ n + 0 \in Nat /\ n + 1 \in Nat
    OBVIOUS
  <2> QED BY <2>1, <2>2
<1>2. LeftBy(c) = [u \in Login |-> todo[c][u] + (IF Underway(c, u) THEN 1 ELSE 0)]
  BY DEF LeftBy
<1> QED BY <1>1, <1>2

(* The copies of a message in what a handler was given.                    *)
Copies(s, m) == {i \in DOMAIN s : s[i] = m}

LEMMA CopiesFinite ==
  ASSUME Serving, NEW k \in Conn, NEW m
  PROVE  /\ IsFiniteSet(Copies(outbox[k], m))
         /\ Cardinality(Copies(outbox[k], m)) \in Nat
<1>1. outbox[k] \in Seq(Msg)
  BY DEF Serving, IOrder, Numbered
<1>2. PICK n \in Nat : DOMAIN outbox[k] = 1..n
  BY <1>1
<1>3. IsFiniteSet(1..n)
  BY FS_Interval
<1>4. Copies(outbox[k], m) \subseteq 1..n
  BY <1>2 DEF Copies
<1> QED BY <1>3, <1>4, FS_Subset, FS_CardinalityType

Handing(c, u) == pc[c] = "deliver" /\ call[c].target = userID[u]

LEMMA GivenIs ==
  ASSUME Serving, NEW c \in Conn
  PROVE  /\ GivenBy(c) \in [Login -> Nat]
         /\ \A u \in Login :
              LET n == Cardinality(Copies(outbox[userID[u]], Message(c))) IN
              /\ n \in Nat
              /\ ~Handing(c, u) => GivenBy(c)[u] = n
              /\ Handing(c, u) => GivenBy(c)[u] = n + 1
<1>1. ASSUME NEW u \in Login, NEW n, n = Cardinality(Copies(outbox[userID[u]], Message(c)))
      PROVE  /\ n \in Nat /\ n + (IF Handing(c, u) THEN 1 ELSE 0) \in Nat
             /\ ~Handing(c, u) => n + (IF Handing(c, u) THEN 1 ELSE 0) = n
  <2>1. n \in Nat
    <3>1. userID[u] \in Conn
      BY DEF Serving, Routed
    <3> QED BY <1>1, <3>1, CopiesFinite
  <2>2. \A x \in Nat : x + 0 = x /\ x + 0 \in Nat /\ x + 1 \in Nat
    OBVIOUS
  <2> QED BY <2>1, <2>2
<1>2. GivenBy(c) = [u \in Login |-> Cardinality(Copies(outbox[userID[u]], Message(c)))
                                      + (IF Handing(c, u) THEN 1 ELSE 0)]
  BY DEF GivenBy, Copies, Handing
<1> QED BY <1>1, <1>2

(* The same, said of the next state.                                       *)
LEMMA LeftNow ==
  ASSUME NEW p \in Conn, NEW t \in [Login -> Nat], todo'[p] = t, NEW g \in [Login -> Nat],
         \A v \in Login : /\ ~Underway(p, v)' => g[v] = t[v]
                          /\ Underway(p, v)' => g[v] = t[v] + 1
  PROVE  LeftBy(p)' = g
<1>1. LeftBy(p)' = [v \in Login |-> t[v] + (IF Underway(p, v)' THEN 1 ELSE 0)]
  BY DEF LeftBy
<1>2. ASSUME NEW v \in Login
      PROVE  t[v] + (IF Underway(p, v)' THEN 1 ELSE 0) = g[v]
  <2>1. PICK x \in Nat : x = t[v]
    OBVIOUS
  <2>2. x + 0 = x
    OBVIOUS
  <2>3. CASE Underway(p, v)'
    BY <2>1, <2>3
  <2>4. CASE ~Underway(p, v)'
    BY <2>1, <2>2, <2>4
  <2> QED BY <2>3, <2>4
<1> QED BY <1>1, <1>2

LEMMA GivenNow ==
  ASSUME NEW p \in Conn, NEW g \in [Login -> Nat],
         \A v \in Login :
           LET n == Cardinality(Copies(outbox'[userID'[v]], Message(p)')) IN
           /\ n \in Nat
           /\ ~Handing(p, v)' => g[v] = n
           /\ Handing(p, v)' => g[v] = n + 1
  PROVE  GivenBy(p)' = g
<1>1. GivenBy(p)' =
        [v \in Login |-> Cardinality(Copies(outbox'[userID'[v]], Message(p)'))
                           + (IF Handing(p, v)' THEN 1 ELSE 0)]
  BY DEF GivenBy, Copies, Handing
<1>2. ASSUME NEW v \in Login
      PROVE  Cardinality(Copies(outbox'[userID'[v]], Message(p)'))
               + (IF Handing(p, v)' THEN 1 ELSE 0) = g[v]
  <2>1. PICK x \in Nat : x = Cardinality(Copies(outbox'[userID'[v]], Message(p)'))
    OBVIOUS
  <2>2. x + 0 = x
    OBVIOUS
  <2>3. CASE Handing(p, v)'
    BY <2>1, <2>3
  <2>4. CASE ~Handing(p, v)'
    BY <2>1, <2>2, <2>4
  <2> QED BY <2>3, <2>4
<1> QED BY <1>1, <1>2

LEMMA ViewTypes ==
  ASSUME Serving
  PROVE  Left \in [Channel -> [Login -> Nat]] /\ Given \in [Channel -> [Login -> Nat]]
<1>1. ASSUME NEW d \in Channel
      PROVE  /\ (IF PublisherOf(d) = Nil THEN Empty ELSE LeftBy(PublisherOf(d))) \in [Login -> Nat]
             /\ (IF PublisherOf(d) = Nil THEN Empty ELSE GivenBy(PublisherOf(d))) \in [Login -> Nat]
  <2>1. Empty \in [Login -> Nat]
    BY DEF Empty
  <2>2. PublisherOf(d) = Nil \/ PublisherOf(d) \in Conn
    BY PublisherIs
  <2> QED BY <2>1, <2>2, LeftIs, GivenIs
<1> QED BY <1>1 DEF Left, Given

(* A publisher that the step of another connection leaves alone.           *)
LEMMA OthersView ==
  ASSUME NEW c \in Conn, Apart(c), NEW p \in Conn \ {c}, UNCHANGED userID
  PROVE  /\ todo'[p] = todo[p] => LeftBy(p)' = LeftBy(p)
         /\ outbox' = outbox /\ sent'[p] = sent[p] => GivenBy(p)' = GivenBy(p)
         /\ \A u : Underway(p, u)' <=> Underway(p, u)
         /\ \A u : Handing(p, u)' <=> Handing(p, u)
         /\ sent'[p] = sent[p] => Message(p)' = Message(p)
<1>1. pc'[p] = pc[p] /\ call'[p] = call[p]
  BY DEF Apart
<1>2. \A u : Underway(p, u)' <=> Underway(p, u)
  BY <1>1 DEF Underway
<1>3. sent'[p] = sent[p] => Message(p)' = Message(p)
  BY <1>1 DEF Message, Copy
<1>4. \A u : Handing(p, u)' <=> Handing(p, u)
  BY <1>1 DEF Handing
<1>5. todo'[p] = todo[p] => LeftBy(p)' = LeftBy(p)
  BY <1>2 DEF LeftBy
<1>6. outbox' = outbox /\ sent'[p] = sent[p] => GivenBy(p)' = GivenBy(p)
  BY <1>1, <1>3 DEF GivenBy
<1> QED BY <1>2, <1>3, <1>4, <1>5, <1>6

LEMMA PublishingKept ==
  UNCHANGED <<channels, monitor>> =>
    UNCHANGED Publishing /\ \A d \in Channel : PublisherOf(d)' = PublisherOf(d)
BY DEF Publishing, PublisherOf

(* A step outside of the broadcasts that touches no queue.                 *)
LEMMA ViewKept ==
  ASSUME Serving, NEW c \in Conn, Apart(c), pc[c] \notin Broadcasting,
         UNCHANGED <<userID, channels, monitor, outbox>>,
         \A k \in Conn \ {c} : todo'[k] = todo[k] /\ sent'[k] = sent[k]
  PROVE  UNCHANGED <<Publishing, Left, Given>>
<1>1. \A d \in Channel : PublisherOf(d)' = PublisherOf(d)
  BY PublishingKept
<1>2. \A d \in Channel : PublisherOf(d) = Nil \/ PublisherOf(d) \in Conn \ {c}
  BY PublisherIs
<1>3. \A p \in Conn \ {c} : LeftBy(p)' = LeftBy(p) /\ GivenBy(p)' = GivenBy(p)
  BY OthersView
<1>4. UNCHANGED Left
  BY <1>1, <1>2, <1>3 DEF Left
<1>5. UNCHANGED Given
  BY <1>1, <1>2, <1>3 DEF Given
<1> QED BY <1>4, <1>5, PublishingKept

(* A step of the broadcast of c.                                           *)
LEMMA BroadcastView ==
  ASSUME Serving, NEW c \in Conn, pc[c] \in Broadcasting,
         UNCHANGED <<channels, monitor>>,
         \A p \in Conn \ {c} : LeftBy(p)' = LeftBy(p) /\ GivenBy(p)' = GivenBy(p)
  PROVE  LET d == call[c].frame.dest IN
         /\ d \in Channel /\ UNCHANGED Publishing
         /\ Left[d] = LeftBy(c) /\ Left' = [Left EXCEPT ![d] = LeftBy(c)']
         /\ Given[d] = GivenBy(c) /\ Given' = [Given EXCEPT ![d] = GivenBy(c)']
<1>1. PICK d \in Channel : d = call[c].frame.dest
  BY ServingParts
<1>2. \A e \in Channel : PublisherOf(e)' = PublisherOf(e)
  BY PublishingKept
<1>3. PublisherOf(d) = c /\ Nil \notin Conn
  BY <1>1, PublisherIs
<1>4. \A e \in Channel \ {d} : PublisherOf(e) = Nil \/ PublisherOf(e) \in Conn \ {c}
  BY <1>1, PublisherIs
<1>5. Left[d] = LeftBy(c) /\ Given[d] = GivenBy(c)
  BY <1>3 DEF Left, Given
<1>6. Left' = [Left EXCEPT ![d] = LeftBy(c)']
  BY <1>2, <1>3, <1>4 DEF Left
<1>7. Given' = [Given EXCEPT ![d] = GivenBy(c)']
  BY <1>2, <1>3, <1>4 DEF Given
<1> QED BY <1>1, <1>5, <1>6, <1>7, PublishingKept

-----------------------------------------------------------------------------
(* The steps outside of the broadcasts.                                    *)

View == <<Subs, Attached, Publishing, Left, Given>>

(* At most one login is detached when a handler is removed.                *)
LEMMA LeaveView ==
  ASSUME Serving, NEW c \in Conn, UNCHANGED <<userID, Subs, Publishing, Left, Given>>,
         activeClients' \in {activeClients, activeClients \ {c}}
  PROVE  [Service!Next]_View
<1>1. CASE UNCHANGED Attached
  BY <1>1 DEF View
<1>2. CASE ~UNCHANGED Attached
  <2>1. activeClients' = activeClients \ {c}
    BY <1>2 DEF Attached
  <2>2. PICK u \in Login : userID[u] = c
    BY <1>2, <2>1 DEF Attached
  <2>3. \A v \in Login : userID[v] = c => v = u
    BY <2>2 DEF Serving, Routed
  <2>4. Attached' = Attached \ {u}
    BY <2>1, <2>2, <2>3 DEF Attached
  <2>5. Service!Detach(u)
    BY <2>4 DEF Service!Detach
  <2> QED BY <2>5 DEF Service!Next
<1> QED BY <1>1, <1>2

LEMMA SubsKept == UNCHANGED <<channels, queues>> => UNCHANGED Subs
BY DEF Subs, SubsOf

LEMMA OutsideView ==
  ASSUME Serving, NEW c \in Conn, Apart(c), pc[c] \notin Broadcasting,
         DisconnectAndReturn(c) \/ UNCHANGED activeClients,
         UNCHANGED <<userID, channels, queues, monitor, outbox>>,
         \A k \in Conn \ {c} : todo'[k] = todo[k] /\ sent'[k] = sent[k]
  PROVE  [Service!Next]_View
<1>1. UNCHANGED <<Publishing, Left, Given, Subs>>
  BY ViewKept, SubsKept
<1>2. activeClients' \in {activeClients, activeClients \ {c}}
  BY DEF DisconnectAndReturn
<1> QED BY <1>1, <1>2, LeaveView

(* The steps of SUBSCRIBE and UNSUBSCRIBE that write no queue.             *)
LEMMA QuietChange ==
  ASSUME Serving, NEW c \in Conn, HandleSub(c) \/ HandleUnsub(c),
         ~AddUser(c), ~RemoveUser(c)
  PROVE  [Service!Next]_View
<1>1. UNCHANGED <<channels, queues, todo>>
  <2>1. ~PutChannel(c)
    BY DEF PutChannel, Serving, InWarm, Warm
  <2>2. CASE Subscribe(c) \/ PutSubID(c) \/ PutIDchannel(c)
    BY <2>2 DEF Subscribe, PutSubID, PutIDchannel, subscriptions
  <2>3. CASE \/ Unsubscribe(c) \/ ReadSubID(c) \/ RemoveSubID(c) \/ RemoveIDchannel(c)
    BY <2>3 DEF Unsubscribe, ReadSubID, RemoveSubID, RemoveIDchannel, subscriptions
  <2> QED BY <2>1, <2>2, <2>3 DEF HandleSub, HandleUnsub
<1>2. pc[c] \notin Broadcasting
  BY ChangeDoes DEF Changing, InSubscribe, InUnsubscribe, Broadcasting
<1> QED BY <1>1, <1>2, ChangeDoes, OutsideView

-----------------------------------------------------------------------------
(* The steps that write a queue, with what its broadcast sees of it.       *)

LEMMA SubsChange ==
  ASSUME Serving, UNCHANGED channels, NEW d \in Channel, NEW u \in Login, NEW n \in Nat,
         queues' = [queues EXCEPT ![channels[d]][u] = n]
  PROVE  Subs' = [Subs EXCEPT ![d][u] = n]
<1>1. PICK q \in QueueRef : q = channels[d] /\ q # Nil
  BY ServingParts, SubsAre DEF Serving, InWarm, Warm, IInv, TypeOK
<1>2. queues \in [QueueRef -> [Login -> Nat]] /\ queues' = [queues EXCEPT ![q][u] = n]
  BY <1>1 DEF Serving, InWarm, IInv, TypeOK
<1>3. \A e \in Channel : channels[e] \in QueueRef /\ channels[e] # Nil
  BY DEF Serving, InWarm, Warm, IInv, TypeOK
<1>4. \A e \in Channel : SubsOf(e)' = queues'[channels[e]]
  BY <1>3 DEF SubsOf
<1>5. Subs' = [e \in Channel |-> queues'[channels[e]]]
  BY <1>4 DEF Subs
<1>6. \A e \in Channel \ {d} : channels[e] # q
  BY <1>1 DEF Serving, InWarm, Warm
<1>7. \A e \in Channel \ {d} : queues'[channels[e]] = queues[channels[e]]
  BY <1>2, <1>3, <1>6
<1>8. queues'[q] = [queues[q] EXCEPT ![u] = n]
  BY <1>2
<1>9. Subs = [e \in Channel |-> queues[channels[e]]]
  BY SubsAre
<1> QED BY <1>1, <1>5, <1>7, <1>8, <1>9

(* Only the broadcast of the channel is concerned.                         *)
LEMMA ChangeView ==
  ASSUME Serving, NEW c \in Conn, Apart(c), pc[c] \notin Broadcasting,
         NEW d \in Channel,
         UNCHANGED <<activeClients, userID, channels, monitor, outbox, sent>>,
         \A p \in Conn : call[p].iter # channels[d] => todo'[p] = todo[p]
  PROVE  /\ UNCHANGED <<Attached, Publishing, Given>>
         /\ \/ UNCHANGED Left
            \/ \E p \in Conn \ {c} :
                 /\ Publishing[d] = p /\ p # Nil
                 /\ Left[d] = LeftBy(p) /\ Left' = [Left EXCEPT ![d] = LeftBy(p)']
<1>1. \A e \in Channel : PublisherOf(e)' = PublisherOf(e)
  BY PublishingKept
<1>2. \A e \in Channel : PublisherOf(e) = Nil \/ PublisherOf(e) \in Conn \ {c}
  BY PublisherIs
<1>3. \A p \in Conn \ {c} : GivenBy(p)' = GivenBy(p)
  BY OthersView
<1>4. UNCHANGED Given
  BY <1>1, <1>2, <1>3 DEF Given
<1>5. ASSUME NEW e \in Channel \ {d}, NEW p \in Conn, PublisherOf(e) = p
      PROVE  LeftBy(p)' = LeftBy(p)
  <2>1. pc[p] \in Broadcasting /\ call[p].frame.dest = e /\ p # c
    BY <1>5, PublisherIs
  <2>2. call[p].iter = channels[e] /\ channels[e] # channels[d]
    BY <2>1 DEF Serving, Iterates, InWarm, Warm
  <2> QED BY <2>1, <2>2, OthersView
<1>6. CASE PublisherOf(d) = Nil
  <2>1. UNCHANGED Left
    BY <1>1, <1>2, <1>5, <1>6 DEF Left
  <2> QED BY <1>4, <2>1, PublishingKept DEF Attached
<1>7. CASE PublisherOf(d) # Nil
  <2>1. PICK p \in Conn \ {c} : p = PublisherOf(d)
    BY <1>2, <1>7
  <2>2. Left[d] = LeftBy(p) /\ Publishing[d] = p
    BY <1>7, <2>1 DEF Left, Publishing
  <2>3. Left' = [Left EXCEPT ![d] = LeftBy(p)']
    BY <1>1, <1>2, <1>5, <1>7, <2>1 DEF Left
  <2> QED BY <1>4, <1>7, <2>1, <2>2, <2>3, PublishingKept DEF Attached
<1> QED BY <1>6, <1>7

(* What MayReflect leaves to an iterator.                                  *)
LEMMA MoreLeft ==
  ASSUME Serving, NEW c \in Conn, Apart(c), UNCHANGED userID, NEW p \in Conn \ {c},
         NEW u \in Login, todo'[p] = [todo[p] EXCEPT ![u] = OneMore(@)]
  PROVE  LeftBy(p)' = [LeftBy(p) EXCEPT ![u] = @ + 1]
<1>1. PICK t \in [Login -> Nat] : t = todo[p]
  BY TodoType
<1>2. PICK g \in [Login -> Nat] : g = LeftBy(p)
  BY LeftIs
<1> DEFINE s == [t EXCEPT ![u] = t[u] + 1]
           h == [g EXCEPT ![u] = g[u] + 1]
<1>3. s \in [Login -> Nat] /\ h \in [Login -> Nat] /\ todo'[p] = s
  BY <1>1 DEF OneMore
<1>4. \A v \in Login : /\ ~Underway(p, v)' => g[v] = t[v]
                       /\ Underway(p, v)' => g[v] = t[v] + 1
  BY <1>1, <1>2, LeftIs, OthersView
<1>5. \A v \in Login : /\ ~Underway(p, v)' => h[v] = s[v]
                       /\ Underway(p, v)' => h[v] = s[v] + 1
  BY <1>4
<1> HIDE DEF s, h
<1>6. LeftBy(p)' = h
  BY <1>3, <1>5, LeftNow
<1> QED BY <1>2, <1>6 DEF h

LEMMA LessLeft ==
  ASSUME Serving, NEW c \in Conn, Apart(c), UNCHANGED userID, NEW p \in Conn \ {c},
         NEW u \in Login, todo'[p] = [todo[p] EXCEPT ![u] = OneLess(@)]
  PROVE  \/ LeftBy(p)' = LeftBy(p)
         \/ LeftBy(p)[u] > 0 /\ LeftBy(p)' = [LeftBy(p) EXCEPT ![u] = @ - 1]
<1>1. PICK t \in [Login -> Nat] : t = todo[p]
  BY TodoType
<1>2. PICK g \in [Login -> Nat] : g = LeftBy(p)
  BY LeftIs
<1>3. \A v \in Login : /\ ~Underway(p, v)' => g[v] = t[v]
                       /\ Underway(p, v)' => g[v] = t[v] + 1
  BY <1>1, <1>2, LeftIs, OthersView
<1>4. CASE t[u] = 0
  <2>1. todo'[p] = t
    BY <1>1, <1>4 DEF OneLess
  <2> QED BY <1>1, <2>1, OthersView
<1>5. CASE t[u] # 0
  <2> DEFINE s == [t EXCEPT ![u] = t[u] - 1]
             h == [g EXCEPT ![u] = g[u] - 1]
  <2>1. g[u] > 0
    BY <1>3, <1>5
  <2>2. s \in [Login -> Nat] /\ h \in [Login -> Nat] /\ todo'[p] = s
    BY <1>1, <1>5, <2>1 DEF OneLess
  <2>3. \A v \in Login : /\ ~Underway(p, v)' => h[v] = s[v]
                         /\ Underway(p, v)' => h[v] = s[v] + 1
    BY <1>3, <1>5, <2>1
  <2> HIDE DEF s, h
  <2>4. LeftBy(p)' = h
    BY <2>2, <2>3, LeftNow
  <2> QED BY <1>2, <2>1, <2>4 DEF h
<1> QED BY <1>4, <1>5

LEMMA AddUserView ==
  ASSUME Serving, NEW c \in Conn, HandleSub(c), AddUser(c) PROVE [Service!Next]_View
<1>1. PICK d, u : d = call[c].dest /\ u = call[c].name
  OBVIOUS
<1>2. /\ Apart(c) /\ pc[c] = "addUser" /\ UNCHANGED channels
      /\ queues' = [queues EXCEPT ![channels[d]][u] = @ + 1]
      /\ MayReflect(channels[d], u, OneMore)
  BY <1>1, AddUserDoes, ServingParts DEF AddUser
<1>3. d \in Channel /\ u \in Login
  BY <1>1, <1>2, FrameParts, ServingParts
<1>4. PICK S \in SUBSET {t \in Conn : call[t].iter = channels[d]} :
        todo' = [t \in Conn |-> IF t \in S THEN [todo[t] EXCEPT ![u] = OneMore(@)]
                                           ELSE todo[t]]
  BY <1>2 DEF MayReflect
<1>5. PICK n \in Nat : n = queues[channels[d]][u] /\ Subs[d][u] = n
  BY <1>3, SubsAre
<1>6. PICK m \in Nat : m = n + 1
  OBVIOUS
<1>7. Subs' = [Subs EXCEPT ![d][u] = @ + 1]
  <2>1. queues' = [queues EXCEPT ![channels[d]][u] = m]
    BY <1>2, <1>5, <1>6
  <2>2. Subs' = [Subs EXCEPT ![d][u] = m]
    <3>1. UNCHANGED channels
      BY <1>2
    <3> QED BY <1>3, <1>6, <2>1, <3>1, SubsChange, Zenon
  <2> QED BY <1>3, <1>5, <1>6, <2>2, SubsAre
<1>8. /\ UNCHANGED <<Attached, Publishing, Given>>
      /\ \/ UNCHANGED Left
         \/ \E p \in Conn \ {c} :
              /\ Publishing[d] = p /\ p # Nil
              /\ Left[d] = LeftBy(p) /\ Left' = [Left EXCEPT ![d] = LeftBy(p)']
  BY <1>2, <1>3, <1>4, ChangeView DEF HandleSub, logins, Broadcasting
<1>9. \/ UNCHANGED Left
      \/ Publishing[d] # Nil /\ Left' = [Left EXCEPT ![d][u] = @ + 1]
  <2>1. ASSUME NEW p \in Conn \ {c}, Publishing[d] = p, p # Nil,
               Left[d] = LeftBy(p), Left' = [Left EXCEPT ![d] = LeftBy(p)']
        PROVE  \/ UNCHANGED Left
               \/ Publishing[d] # Nil /\ Left' = [Left EXCEPT ![d][u] = @ + 1]
    <3>1. CASE p \in S
      <4>1. todo'[p] = [todo[p] EXCEPT ![u] = OneMore(@)]
        BY <1>4, <3>1
      <4>2. LeftBy(p)' = [LeftBy(p) EXCEPT ![u] = @ + 1]
        BY <1>2, <1>3, <4>1, MoreLeft DEF HandleSub, logins
      <4> QED BY <1>3, <2>1, <4>2, ViewTypes
    <3>2. CASE p \notin S
      <4>1. LeftBy(p)' = LeftBy(p)
        BY <1>2, <1>4, <3>2, OthersView DEF HandleSub, logins
      <4> QED BY <1>3, <2>1, <4>1, ViewTypes
    <3> QED BY <3>1, <3>2
  <2> QED BY <1>8, <2>1
<1>10. Service!Subscribe(u, d)
  BY <1>7, <1>8, <1>9 DEF Service!Subscribe
<1> QED BY <1>3, <1>10 DEF Service!Next

LEMMA RemoveUserView ==
  ASSUME Serving, NEW c \in Conn, HandleUnsub(c), RemoveUser(c) PROVE [Service!Next]_View
<1>0. IInv /\ IRecorded /\ Warm /\ Balanced
  BY DEF Serving, InWarm
<1>1. PICK d, u : d = call[c].dest /\ u = call[c].name
  OBVIOUS
<1>2. /\ pc[c] = "removeUser"
      /\ d \in Channel /\ u \in Login /\ channels[d] # Nil /\ d # Nil
  BY <1>0, <1>1, RemoveUserFinds
<1>3. PICK s \in live : ~Leaving(s) /\ s.channel = d /\ s.user = u
  BY <1>0, <1>1, RemoveUserFinds
<1>4. /\ Apart(c) /\ UNCHANGED <<channels, activeClients, userID>>
      /\ queues' = [queues EXCEPT ![channels[d]][u] = OneLess(@)]
      /\ MayReflect(channels[d], u, OneLess)
  BY <1>0, <1>1, <1>2, RemoveUserDoes DEF RemoveUser, logins
<1>5. PICK S \in SUBSET {t \in Conn : call[t].iter = channels[d]} :
        todo' = [t \in Conn |-> IF t \in S THEN [todo[t] EXCEPT ![u] = OneLess(@)]
                                           ELSE todo[t]]
  BY <1>4 DEF MayReflect
<1>6. PICK n \in Nat : n = queues[channels[d]][u] /\ Subs[d][u] = n
  BY <1>2, SubsAre
<1>7. n # 0
  <2>1. PICK a \in Nat, b \in Nat : /\ a = Cardinality(Entries(d, u))
                                    /\ b = Cardinality(Joining(d, u))
    BY <1>0, EntriesCounted
  <2>2. s \in Entries(d, u)
    BY <1>3 DEF Entries
  <2>3. a # 0
    BY <1>0, <2>1, <2>2, EntriesCounted, FS_EmptySet
  <2>4. n = a + b
    BY <1>0, <1>2, <1>6, <2>1 DEF Balanced
  <2> QED BY <2>3, <2>4
<1>8. PICK m \in Nat : m = n - 1
  BY <1>7
<1>9. Subs' = [Subs EXCEPT ![d][u] = @ - 1] /\ Subs[d][u] > 0
  <2>1. OneLess(n) = m
    BY <1>7, <1>8 DEF OneLess
  <2>2. queues' = [queues EXCEPT ![channels[d]][u] = m]
    BY <1>4, <1>6, <2>1
  <2>3. Subs' = [Subs EXCEPT ![d][u] = m]
    <3>1. UNCHANGED channels /\ d \in Channel /\ u \in Login
      BY <1>2, <1>4
    <3> QED BY <1>8, <2>2, <3>1, SubsChange, Zenon
  <2> QED BY <1>2, <1>6, <1>7, <1>8, <2>3, SubsAre
<1>10. /\ UNCHANGED <<Attached, Publishing, Given>>
       /\ \/ UNCHANGED Left
          \/ \E p \in Conn \ {c} :
               /\ Publishing[d] = p /\ p # Nil
               /\ Left[d] = LeftBy(p) /\ Left' = [Left EXCEPT ![d] = LeftBy(p)']
  BY <1>2, <1>4, <1>5, ChangeView DEF HandleUnsub, Broadcasting
<1>11. \/ UNCHANGED Left
       \/ Left[d][u] > 0 /\ Left' = [Left EXCEPT ![d][u] = @ - 1]
  <2>1. ASSUME NEW p \in Conn \ {c}, Left[d] = LeftBy(p),
               Left' = [Left EXCEPT ![d] = LeftBy(p)']
        PROVE  \/ UNCHANGED Left
               \/ Left[d][u] > 0 /\ Left' = [Left EXCEPT ![d][u] = @ - 1]
    <3>0. LeftBy(p)' = LeftBy(p) => UNCHANGED Left
      BY <1>2, <2>1, ViewTypes
    <3>1. CASE p \in S
      <4>1. todo'[p] = [todo[p] EXCEPT ![u] = OneLess(@)]
        BY <1>5, <3>1
      <4>2. \/ LeftBy(p)' = LeftBy(p)
            \/ LeftBy(p)[u] > 0 /\ LeftBy(p)' = [LeftBy(p) EXCEPT ![u] = @ - 1]
        BY <1>2, <1>4, <4>1, LessLeft
      <4> QED BY <1>2, <2>1, <3>0, <4>2, ViewTypes
    <3>2. CASE p \notin S
      BY <1>4, <1>5, <3>0, <3>2, OthersView
    <3> QED BY <3>1, <3>2
  <2> QED BY <1>10, <2>1
<1>12. Service!Unsubscribe(u, d)
  BY <1>9, <1>10, <1>11 DEF Service!Unsubscribe
<1> QED BY <1>2, <1>12 DEF Service!Next

-----------------------------------------------------------------------------
(* The steps of a broadcast.                                               *)

LEMMA MessageIs ==
  ASSUME Serving, NEW c \in Conn, pc[c] \in Broadcasting \cup {"acquire"}
  PROVE  Message(c) \in Msg
<1>1. call[c].frame.dest \in Channel /\ sent[c] \in Nat
  BY ServingParts DEF TypeOK
<1> QED BY <1>1 DEF Message, Copy, Msg

(* A broadcast begins: no copy of its message has been given yet.          *)
LEMMA AcquireView ==
  ASSUME Serving, NEW c \in Conn, HandleSend(c), Acquire(c) PROVE [Service!Next]_View
<1>1. PICK d : d = call[c].frame.dest
  OBVIOUS
<1>2. /\ Apart(c) /\ pc[c] = "acquire" /\ pc'[c] = "next"
      /\ call'[c].frame = call[c].frame
      /\ monitor[channels[d]] = Nil /\ monitor' = [monitor EXCEPT ![channels[d]] = c]
      /\ todo' = [todo EXCEPT ![c] = queues[channels[d]]]
      /\ UNCHANGED <<activeClients, userID, channels, queues, outbox, sent>>
  BY <1>1, AcquireDoes
<1>3. d \in Channel /\ channels[d] \in QueueRef /\ channels[d] # Nil
  BY <1>1, <1>2, ServingParts
<1>4. PublisherOf(d) = Nil /\ PublisherOf(d)' = c /\ c # Nil
  <2>1. monitor \in [QueueRef -> Conn \cup {Nil}] /\ c # Nil
    BY NilAssumption DEF Serving, InWarm, IInv, TypeOK
  <2> QED BY <1>2, <1>3, <2>1 DEF PublisherOf
<1>5. \A e \in Channel \ {d} : PublisherOf(e)' = PublisherOf(e)
  <2>1. \A e \in Channel \ {d} : channels[e] # channels[d]
    BY <1>3 DEF Serving, InWarm, Warm
  <2>2. monitor \in [QueueRef -> Conn \cup {Nil}]
    BY DEF Serving, InWarm, IInv, TypeOK
  <2>3. \A e \in Channel : channels[e] \in QueueRef
    BY ServingParts
  <2> QED BY <1>2, <2>1, <2>2, <2>3 DEF PublisherOf
<1>6. \A e \in Channel : PublisherOf(e) = Nil \/ PublisherOf(e) \in Conn \ {c}
  BY <1>2, PublisherIs DEF Broadcasting
<1>7. \A p \in Conn \ {c} : LeftBy(p)' = LeftBy(p) /\ GivenBy(p)' = GivenBy(p)
  BY <1>2, OthersView
<1>8. LeftBy(c)' = Subs[d]
  <2>1. PICK t \in [Login -> Nat] : t = queues[channels[d]] /\ t = Subs[d]
    BY <1>3, SubsAre
  <2>2. todo'[c] = t
    BY <1>2, <2>1, TodoType
  <2>3. \A v \in Login : ~Underway(c, v)'
    BY <1>2 DEF Underway
  <2> QED BY <2>1, <2>2, <2>3, LeftNow
<1>9. GivenBy(c)' = Empty
  <2>1. Message(c)' = Message(c)
    BY <1>2 DEF Message, Copy
  <2>2. \A k \in Conn : \A i \in DOMAIN outbox[k] : outbox[k][i] # Message(c)
    <3>1. pc[c] \notin Past
      BY <1>2 DEF Past, Broadcasting, Resting
    <3>2. ASSUME NEW k \in Conn, NEW i \in DOMAIN outbox[k], outbox[k][i] = Message(c)
          PROVE  FALSE
      <4>1. outbox[k][i].from = c /\ outbox[k][i].n = sent[c]
        BY <3>2 DEF Message, Copy
      <4>2. outbox[k][i].n = sent[outbox[k][i].from] => pc[outbox[k][i].from] \in Past
        BY DEF Serving, IOrder, Numbered
      <4> QED BY <3>1, <4>1, <4>2
    <3> QED BY <3>2
  <2>3. \A u \in Login : Copies(outbox'[userID'[u]], Message(c)') = {}
    BY <1>2, <2>1, <2>2 DEF Copies, Serving, Routed
  <2>4. \A u \in Login : ~Handing(c, u)'
    BY <1>2 DEF Handing
  <2>5. Empty \in [Login -> Nat] /\ \A u \in Login : Empty[u] = 0
    BY DEF Empty
  <2>6. Cardinality({}) = 0
    BY FS_EmptySet
  <2> QED BY <2>3, <2>4, <2>5, <2>6, GivenNow
<1>10. Publishing' = [Publishing EXCEPT ![d] = c] /\ Publishing[d] = Nil
  <2>1. Publishing[d] = Nil
    BY <1>3, <1>4 DEF Publishing
  <2>2. Publishing' = [e \in Channel |-> IF e = d THEN c ELSE Publishing[e]]
    BY <1>4, <1>5 DEF Publishing
  <2>3. Publishing' = [Publishing EXCEPT ![d] = c]
    BY <2>2 DEF Publishing
  <2> QED BY <2>1, <2>3
<1>11. Left' = [Left EXCEPT ![d] = Subs[d]]
  <2>1. PICK t : t = Subs[d]
    OBVIOUS
  <2>2. Left' = [e \in Channel |-> IF e = d THEN t ELSE Left[e]]
    BY <1>4, <1>5, <1>6, <1>7, <1>8, <2>1 DEF Left
  <2>3. Left' = [Left EXCEPT ![d] = t]
    BY <2>2 DEF Left
  <2> QED BY <2>1, <2>3
<1>12. UNCHANGED Given
  BY <1>3, <1>4, <1>5, <1>6, <1>7, <1>9 DEF Given
<1>13. UNCHANGED <<Subs, Attached>>
  BY <1>2, SubsKept DEF Attached
<1>14. Service!Begin(c, d)
  BY <1>10, <1>11, <1>12, <1>13 DEF Service!Begin
<1> QED BY <1>3, <1>14 DEF Service!Next

(* The others see nothing of the step of a broadcast.                      *)
LEMMA InsideView ==
  ASSUME Serving, NEW c \in Conn, Apart(c), pc[c] \in Broadcasting,
         UNCHANGED <<activeClients, userID, channels, queues, monitor, outbox, sent>>,
         \A k \in Conn \ {c} : todo'[k] = todo[k]
  PROVE  LET d == call[c].frame.dest IN
         /\ d \in Channel /\ UNCHANGED <<Subs, Attached, Publishing>>
         /\ Left[d] = LeftBy(c) /\ Left' = [Left EXCEPT ![d] = LeftBy(c)']
         /\ Given[d] = GivenBy(c) /\ Given' = [Given EXCEPT ![d] = GivenBy(c)']
<1>1. \A p \in Conn \ {c} : LeftBy(p)' = LeftBy(p) /\ GivenBy(p)' = GivenBy(p)
  BY OthersView
<1>2. UNCHANGED <<Subs, Attached>>
  BY SubsKept DEF Attached
<1> QED BY <1>1, <1>2, BroadcastView

(* A step that finds out about the copy it has taken, and no more.         *)
LEMMA SameView ==
  ASSUME Serving, NEW c \in Conn, Apart(c), pc[c] \in Broadcasting,
         UNCHANGED <<activeClients, userID, channels, queues, monitor, outbox, sent>>,
         \A k \in Conn \ {c} : todo'[k] = todo[k],
         LeftBy(c)' = LeftBy(c), GivenBy(c)' = GivenBy(c)
  PROVE  [Service!Next]_View
<1>1. PICK d \in Channel :
        /\ UNCHANGED <<Subs, Attached, Publishing>>
        /\ Left[d] = LeftBy(c) /\ Left' = [Left EXCEPT ![d] = LeftBy(c)']
        /\ Given[d] = GivenBy(c) /\ Given' = [Given EXCEPT ![d] = GivenBy(c)']
  BY InsideView
<1>2. UNCHANGED <<Left, Given>>
  BY <1>1, ViewTypes
<1> QED BY <1>1, <1>2 DEF View

(* What a broadcast has given while it hands nothing over.                 *)
LEMMA GivenKept ==
  ASSUME Serving, NEW c \in Conn, UNCHANGED <<userID, outbox, sent>>,
         call'[c].frame = call[c].frame, pc[c] # "deliver", pc'[c] # "deliver"
  PROVE  GivenBy(c)' = GivenBy(c)
<1>1. Message(c)' = Message(c)
  BY DEF Message, Copy
<1>2. \A u \in Login : ~Handing(c, u) /\ ~Handing(c, u)'
  BY DEF Handing
<1>3. PICK g \in [Login -> Nat] : g = GivenBy(c)
  BY GivenIs
<1>4. \A u \in Login :
        LET n == Cardinality(Copies(outbox'[userID'[u]], Message(c)')) IN n \in Nat /\ g[u] = n
  BY <1>1, <1>2, <1>3, GivenIs
<1>5. GivenBy(c)' = g
  BY <1>2, <1>4, GivenNow
<1> QED BY <1>3, <1>5

LEMMA VisitView ==
  ASSUME Serving, NEW c \in Conn, HandleSend(c), Visit(c) PROVE [Service!Next]_View
<1>1. PICK u : u = call'[c].target
  OBVIOUS
<1>2. /\ Apart(c) /\ pc[c] = "next" /\ pc'[c] = "route"
      /\ call'[c].frame = call[c].frame
      /\ u \in Login /\ todo[c][u] > 0
      /\ todo' = [todo EXCEPT ![c][u] = @ - 1]
      /\ UNCHANGED <<activeClients, userID, channels, queues, monitor, outbox>>
  BY <1>1, VisitDoes
<1>3. UNCHANGED sent
  BY DEF HandleSend
<1>4. PICK t \in [Login -> Nat] : t = todo[c]
  BY TodoType
<1> DEFINE s == [t EXCEPT ![u] = t[u] - 1]
<1>5. s \in [Login -> Nat] /\ todo'[c] = s
  BY <1>2, <1>4, TodoType
<1>6. \A k \in Conn \ {c} : todo'[k] = todo[k]
  BY <1>2, TodoType
<1>7. PICK g \in [Login -> Nat] : g = LeftBy(c)
  BY LeftIs
<1>8. \A v \in Login : ~Underway(c, v) /\ (Underway(c, v)' <=> v = u)
  BY <1>1, <1>2 DEF Underway
<1>9. \A v \in Login : g[v] = t[v]
  BY <1>4, <1>7, <1>8, LeftIs
<1>10. \A v \in Login : /\ ~Underway(c, v)' => g[v] = s[v]
                        /\ Underway(c, v)' => g[v] = s[v] + 1
  BY <1>2, <1>8, <1>9
<1> HIDE DEF s
<1>11. LeftBy(c)' = g
  BY <1>5, <1>10, LeftNow
<1>12. GivenBy(c)' = GivenBy(c)
  BY <1>2, <1>3, GivenKept
<1>13. pc[c] \in Broadcasting
  BY <1>2 DEF Broadcasting
<1> QED BY <1>2, <1>3, <1>6, <1>7, <1>11, <1>12, <1>13, SameView

LEMMA RouteView ==
  ASSUME Serving, NEW c \in Conn, HandleSend(c), Route(c) PROVE [Service!Next]_View
<1>1. PICK u : u = call[c].target
  OBVIOUS
<1>2. /\ Apart(c) /\ pc[c] = "route" /\ pc'[c] = "lookup"
      /\ call'[c].frame = call[c].frame /\ u \in Login /\ call'[c].target = userID[u]
      /\ UNCHANGED <<activeClients, userID, channels, queues, monitor, todo, outbox>>
  BY <1>1, RouteDoes
<1>3. UNCHANGED sent
  BY DEF HandleSend
<1>4. \A v \in Login : Underway(c, v)' <=> Underway(c, v)
  BY <1>1, <1>2 DEF Underway, Serving, Routed
<1>5. LeftBy(c)' = LeftBy(c)
  BY <1>2, <1>4 DEF LeftBy
<1>6. GivenBy(c)' = GivenBy(c)
  BY <1>2, <1>3, GivenKept
<1>7. pc[c] \in Broadcasting
  BY <1>2 DEF Broadcasting
<1> QED BY <1>2, <1>3, <1>5, <1>6, <1>7, SameView

(* The copy is given if its login has a handler, and lost otherwise.       *)
LEMMA LookupView ==
  ASSUME Serving, NEW c \in Conn, HandleSend(c), Lookup(c) PROVE [Service!Next]_View
<1>1. /\ Apart(c) /\ pc[c] = "lookup" /\ call'[c] = call[c]
      /\ pc'[c] = IF call[c].target \in activeClients THEN "deliver" ELSE "next"
      /\ UNCHANGED <<activeClients, userID, channels, queues, monitor, todo, outbox>>
  BY LookupDoes
<1>2. UNCHANGED sent /\ pc[c] \in Broadcasting
  BY <1>1 DEF HandleSend, Broadcasting
<1>3. PICK u \in Login : call[c].target = userID[u]
  BY <1>1 DEF Serving, Found
<1>4. PICK d \in Channel :
        /\ UNCHANGED <<Subs, Attached, Publishing>>
        /\ Left[d] = LeftBy(c) /\ Left' = [Left EXCEPT ![d] = LeftBy(c)']
        /\ Given[d] = GivenBy(c) /\ Given' = [Given EXCEPT ![d] = GivenBy(c)']
  BY <1>1, <1>2, InsideView
<1>5. \A v \in Login : (Underway(c, v) <=> v = u) /\ ~Underway(c, v)'
  BY <1>1, <1>3 DEF Underway, Serving, Routed
<1>6. PICK g \in [Login -> Nat] : g = LeftBy(c)
  BY LeftIs
<1>7. PICK t \in [Login -> Nat] : t = todo[c]
  BY TodoType
<1>8. g[u] = t[u] + 1 /\ \A v \in Login \ {u} : g[v] = t[v]
  BY <1>5, <1>6, <1>7, LeftIs
<1>9. LeftBy(c)' = t
  BY <1>1, <1>5, <1>7, LeftNow
<1>10. t = [g EXCEPT ![u] = g[u] - 1] /\ g[u] > 0
  BY <1>8
<1>11. Left[d][u] > 0 /\ Left' = [Left EXCEPT ![d][u] = @ - 1]
  BY <1>4, <1>6, <1>9, <1>10, ViewTypes
<1>12. CASE call[c].target \in activeClients
  <2>1. u \in Attached
    BY <1>3, <1>12 DEF Attached
  <2>2. \A v \in Login : ~Handing(c, v) /\ (Handing(c, v)' <=> v = u)
    BY <1>1, <1>3, <1>12 DEF Handing, Serving, Routed
  <2>3. PICK x \in [Login -> Nat] : x = GivenBy(c)
    BY GivenIs
  <2> DEFINE y == [x EXCEPT ![u] = x[u] + 1]
  <2>4. Message(c)' = Message(c)
    BY <1>1, <1>2 DEF Message, Copy
  <2>5. \A v \in Login :
          LET n == Cardinality(Copies(outbox'[userID'[v]], Message(c)')) IN
          n \in Nat /\ x[v] = n
    BY <1>1, <2>2, <2>3, <2>4, GivenIs
  <2>6. y \in [Login -> Nat] /\ y[u] = x[u] + 1 /\ \A v \in Login \ {u} : y[v] = x[v]
    OBVIOUS
  <2> HIDE DEF y
  <2>7. GivenBy(c)' = y
    BY <2>2, <2>5, <2>6, GivenNow
  <2>8. Given' = [Given EXCEPT ![d][u] = @ + 1]
    BY <1>4, <2>3, <2>7, ViewTypes DEF y
  <2>9. Service!Give(u, d)
    BY <1>4, <1>11, <2>1, <2>8 DEF Service!Give
  <2> QED BY <2>9 DEF Service!Next
<1>13. CASE call[c].target \notin activeClients
  <2>1. Attached' = Attached \ {u}
    BY <1>3, <1>4, <1>13 DEF Attached
  <2>2. GivenBy(c)' = GivenBy(c)
    BY <1>1, <1>2, <1>13, GivenKept
  <2>3. UNCHANGED Given
    BY <1>4, <2>2, ViewTypes
  <2>4. Service!Lose(u, d)
    BY <1>4, <1>11, <2>1, <2>3 DEF Service!Lose
  <2> QED BY <2>4 DEF Service!Next
<1> QED BY <1>12, <1>13

(* The copy handed over is in the outbox from then on.                     *)
LEMMA CopiesAppend ==
  ASSUME NEW s \in Seq(Msg), NEW m \in Msg, NEW x, IsFiniteSet(Copies(s, x))
  PROVE  /\ x # m => Copies(Append(s, m), x) = Copies(s, x)
         /\ x = m => Cardinality(Copies(Append(s, m), x)) = Cardinality(Copies(s, x)) + 1
<1>1. PICK n \in Nat : n = Len(s) /\ DOMAIN s = 1..n
  OBVIOUS
<1>2. /\ DOMAIN Append(s, m) = 1..(n + 1) /\ Append(s, m)[n + 1] = m
      /\ \A i \in 1..n : Append(s, m)[i] = s[i]
  BY <1>1
<1>3. 1..(n + 1) = (1..n) \cup {n + 1} /\ n + 1 \notin 1..n
  OBVIOUS
<1>4. x # m => Copies(Append(s, m), x) = Copies(s, x)
  BY <1>1, <1>2, <1>3 DEF Copies
<1>5. /\ x = m => Copies(Append(s, m), x) = Copies(s, x) \cup {n + 1}
      /\ n + 1 \notin Copies(s, x)
  BY <1>1, <1>2, <1>3 DEF Copies
<1> QED BY <1>4, <1>5, FS_AddElement

LEMMA DeliverView ==
  ASSUME Serving, NEW c \in Conn, HandleSend(c), Deliver(c) PROVE [Service!Next]_View
<1>1. PICK k : k = call[c].target
  OBVIOUS
<1>2. PICK m : m = Message(c)
  OBVIOUS
<1>3. /\ Apart(c) /\ pc[c] = "deliver" /\ pc'[c] = "next" /\ call'[c] = call[c]
      /\ k \in Conn /\ outbox' = [outbox EXCEPT ![k] = Append(@, m)]
      /\ UNCHANGED <<activeClients, userID, channels, queues, monitor, todo, sent>>
  BY <1>1, <1>2, DeliverDoes
<1>4. m \in Msg /\ pc[c] \in Broadcasting
  BY <1>2, <1>3, MessageIs DEF Broadcasting
<1>5. /\ outbox \in [Conn -> Seq(Msg)] /\ outbox'[k] = Append(outbox[k], m)
      /\ \A j \in Conn \ {k} : outbox'[j] = outbox[j]
  BY <1>3 DEF Serving, IOrder, Numbered
<1>6. \A j \in Conn : \A x : x # m => Copies(outbox'[j], x) = Copies(outbox[j], x)
  BY <1>3, <1>4, <1>5, CopiesFinite, CopiesAppend
<1>7. /\ Cardinality(Copies(outbox'[k], m)) = Cardinality(Copies(outbox[k], m)) + 1
      /\ \A j \in Conn \ {k} : Copies(outbox'[j], m) = Copies(outbox[j], m)
  BY <1>3, <1>4, <1>5, CopiesFinite, CopiesAppend
<1>8. ASSUME NEW p \in Conn \ {c} PROVE LeftBy(p)' = LeftBy(p) /\ GivenBy(p)' = GivenBy(p)
  <2>1. /\ LeftBy(p)' = LeftBy(p) /\ Message(p)' = Message(p)
        /\ \A u : Handing(p, u)' <=> Handing(p, u)
    BY <1>3, OthersView
  <2>2. Message(p) # m
    BY <1>2 DEF Message, Copy
  <2>3. PICK g \in [Login -> Nat] : g = GivenBy(p)
    BY GivenIs
  <2>4. \A u \in Login : Copies(outbox'[userID'[u]], Message(p)')
                           = Copies(outbox[userID[u]], Message(p))
    BY <1>3, <1>6, <2>1, <2>2 DEF Serving, Routed
  <2>5. GivenBy(p)' = g
    BY <2>1, <2>3, <2>4, GivenIs, GivenNow
  <2> QED BY <2>1, <2>3, <2>5
<1>9. LeftBy(c)' = LeftBy(c)
  <2>1. \A u \in Login : ~Underway(c, u) /\ ~Underway(c, u)'
    BY <1>3 DEF Underway
  <2> QED BY <1>3, <2>1 DEF LeftBy
<1>10. GivenBy(c)' = GivenBy(c)
  <2>1. Message(c)' = m
    BY <1>2, <1>3 DEF Message, Copy
  <2>2. PICK g \in [Login -> Nat] : g = GivenBy(c)
    BY GivenIs
  <2>3. ASSUME NEW u \in Login
        PROVE  /\ Cardinality(Copies(outbox'[userID[u]], m)) \in Nat
               /\ g[u] = Cardinality(Copies(outbox'[userID[u]], m))
    <3>1. PICK n \in Nat : n = Cardinality(Copies(outbox[userID[u]], m))
      BY CopiesFinite DEF Serving, Routed
    <3>2. CASE userID[u] = k
      BY <1>1, <1>2, <1>3, <1>7, <2>2, <3>1, <3>2, GivenIs DEF Handing
    <3>3. CASE userID[u] # k
      <4>1. userID[u] \in Conn \ {k} /\ ~Handing(c, u)
        BY <1>1, <3>3 DEF Handing, Serving, Routed
      <4> QED BY <1>2, <1>7, <2>2, <3>1, <4>1, GivenIs
    <3> QED BY <3>2, <3>3
  <2>4. \A u \in Login : ~Handing(c, u)'
    BY <1>3 DEF Handing
  <2>5. GivenBy(c)' = g
    BY <1>3, <2>1, <2>3, <2>4, GivenNow
  <2> QED BY <2>2, <2>5
<1>11. PICK d \in Channel :
         /\ UNCHANGED Publishing
         /\ Left[d] = LeftBy(c) /\ Left' = [Left EXCEPT ![d] = LeftBy(c)']
         /\ Given[d] = GivenBy(c) /\ Given' = [Given EXCEPT ![d] = GivenBy(c)']
  BY <1>3, <1>4, <1>8, BroadcastView
<1>12. UNCHANGED <<Left, Given>>
  BY <1>9, <1>10, <1>11, ViewTypes
<1> QED BY <1>3, <1>11, <1>12, SubsKept DEF View, Attached

LEMMA EndView ==
  ASSUME Serving, NEW c \in Conn, HandleSend(c), EndBroadcast(c) PROVE [Service!Next]_View
<1>1. PICK d : d = call[c].frame.dest
  OBVIOUS
<1>2. /\ Apart(c) /\ pc[c] = "next" /\ todo[c] = Empty
      /\ monitor' = [monitor EXCEPT ![channels[d]] = Nil]
      /\ UNCHANGED <<activeClients, userID, channels, queues, todo, outbox, sent>>
  BY <1>1, EndDoes
<1>3. d \in Channel /\ channels[d] \in QueueRef /\ channels[d] # Nil
  BY <1>1, <1>2, ServingParts DEF Broadcasting
<1>4. PublisherOf(d) = c /\ PublisherOf(d)' = Nil /\ c # Nil
  <2>1. monitor \in [QueueRef -> Conn \cup {Nil}] /\ c # Nil
    BY NilAssumption DEF Serving, InWarm, IInv, TypeOK
  <2>2. PublisherOf(d) = c
    BY <1>1, <1>2, <1>3, PublisherIs DEF Broadcasting
  <2> QED BY <1>2, <1>3, <2>1, <2>2 DEF PublisherOf
<1>5. \A e \in Channel \ {d} : PublisherOf(e)' = PublisherOf(e)
  <2>1. \A e \in Channel \ {d} : channels[e] # channels[d]
    BY <1>3 DEF Serving, InWarm, Warm
  <2>2. monitor \in [QueueRef -> Conn \cup {Nil}]
    BY DEF Serving, InWarm, IInv, TypeOK
  <2>3. \A e \in Channel : channels[e] \in QueueRef
    BY ServingParts
  <2> QED BY <1>2, <2>1, <2>2, <2>3 DEF PublisherOf
<1>6. \A e \in Channel \ {d} : PublisherOf(e) = Nil \/ PublisherOf(e) \in Conn \ {c}
  BY <1>1, <1>2, PublisherIs
<1>7. \A p \in Conn \ {c} : LeftBy(p)' = LeftBy(p) /\ GivenBy(p)' = GivenBy(p)
  BY <1>2, OthersView
<1>8. LeftBy(c) = Empty
  <2>1. \A v \in Login : ~Underway(c, v)
    BY <1>2 DEF Underway
  <2>2. \A v \in Login : LeftBy(c)[v] = Empty[v]
    BY <1>2, <2>1, LeftIs
  <2>3. PICK g \in [Login -> Nat] : g = LeftBy(c)
    BY LeftIs
  <2> QED BY <2>2, <2>3 DEF Empty
<1>9. Publishing' = [Publishing EXCEPT ![d] = Nil] /\ Publishing[d] # Nil
  <2>1. Publishing[d] # Nil
    BY <1>3, <1>4 DEF Publishing
  <2>2. Publishing' = [e \in Channel |-> IF e = d THEN Nil ELSE Publishing[e]]
    BY <1>4, <1>5 DEF Publishing
  <2>3. Publishing' = [Publishing EXCEPT ![d] = Nil]
    BY <2>2 DEF Publishing
  <2> QED BY <2>1, <2>3
<1>10. UNCHANGED Left /\ Left[d] = Empty
  BY <1>3, <1>4, <1>5, <1>6, <1>7, <1>8 DEF Left
<1>11. Given' = [Given EXCEPT ![d] = Empty]
  BY <1>3, <1>4, <1>5, <1>6, <1>7 DEF Given
<1>12. UNCHANGED <<Subs, Attached>>
  BY <1>2, SubsKept DEF Attached
<1>13. Service!Zero = Empty
  BY DEF Service!Zero, Empty
<1>14. Service!End(d)
  BY <1>9, <1>10, <1>11, <1>12, <1>13 DEF Service!End
<1> QED BY <1>3, <1>14 DEF Service!Next

(* The response of the publisher is no copy of any broadcast.              *)
LEMMA RespondView ==
  ASSUME Serving, NEW c \in Conn, HandleSend(c), Respond(c) PROVE UNCHANGED View
<1>1. PICK m : m = Copy(c, "response")
  OBVIOUS
<1>2. /\ Apart(c) /\ pc[c] = "respond" /\ m \in Msg
      /\ outbox' = [outbox EXCEPT ![c] = Append(@, m)]
      /\ UNCHANGED <<activeClients, userID, channels, queues, monitor, todo, sent>>
  BY <1>1, RespondDoes
<1>3. /\ outbox \in [Conn -> Seq(Msg)] /\ outbox'[c] = Append(outbox[c], m)
      /\ \A j \in Conn \ {c} : outbox'[j] = outbox[j]
  BY <1>2 DEF Serving, IOrder, Numbered
<1>4. \A j \in Conn : \A x : x # m => Copies(outbox'[j], x) = Copies(outbox[j], x)
  BY <1>2, <1>3, CopiesFinite, CopiesAppend
<1>5. \A d \in Channel : PublisherOf(d)' = PublisherOf(d)
  BY <1>2, PublishingKept
<1>6. \A d \in Channel : PublisherOf(d) = Nil \/ PublisherOf(d) \in Conn \ {c}
  BY <1>2, PublisherIs DEF Broadcasting
<1>7. ASSUME NEW p \in Conn \ {c} PROVE LeftBy(p)' = LeftBy(p) /\ GivenBy(p)' = GivenBy(p)
  <2>1. /\ LeftBy(p)' = LeftBy(p) /\ Message(p)' = Message(p)
        /\ \A u : Handing(p, u)' <=> Handing(p, u)
    BY <1>2, OthersView
  <2>2. Message(p) # m
    BY <1>1 DEF Message, Copy
  <2>3. PICK g \in [Login -> Nat] : g = GivenBy(p)
    BY GivenIs
  <2>4. \A u \in Login : Copies(outbox'[userID'[u]], Message(p)')
                           = Copies(outbox[userID[u]], Message(p))
    BY <1>2, <1>4, <2>1, <2>2 DEF Serving, Routed
  <2>5. GivenBy(p)' = g
    BY <2>1, <2>3, <2>4, GivenIs, GivenNow
  <2> QED BY <2>1, <2>3, <2>5
<1>8. UNCHANGED Left
  BY <1>5, <1>6, <1>7 DEF Left
<1>9. UNCHANGED Given
  BY <1>5, <1>6, <1>7 DEF Given
<1> QED BY <1>2, <1>8, <1>9, SubsKept, PublishingKept DEF View, Attached

-----------------------------------------------------------------------------
(* The refinement.                                                         *)

LEMMA ServiceStep ==
  ASSUME LoggedIn, Serving, [CarefulNext]_vars PROVE [Service!Next]_View
<1>1. CASE UNCHANGED vars
  <2>1. UNCHANGED <<activeClients, userID, channels, queues, monitor, sent, pc, call, todo,
                    outbox>>
    BY <1>1 DEF vars, logins, subscriptions, history
  <2>2. UNCHANGED <<Subs, Attached, Publishing>>
    BY <2>1, SubsKept, PublishingKept DEF Attached
  <2>3. \A d : PublisherOf(d)' = PublisherOf(d)
    BY <2>1 DEF PublisherOf
  <2>4. \A p : LeftBy(p)' = LeftBy(p) /\ GivenBy(p)' = GivenBy(p)
    BY <2>1 DEF LeftBy, GivenBy, Underway, Message, Copy
  <2>5. UNCHANGED <<Left, Given>>
    BY <2>3, <2>4 DEF Left, Given
  <2> QED BY <2>2, <2>5 DEF View
<1>2. CASE CarefulNext
  <2>1. PICK c \in Conn : CarefulStep(c)
    BY <1>2, CarefulSteps
  <2>2. CASE \E f \in Script[c] : Careful(c, f) /\ Receive(c, f)
    BY <2>2, ReceiveDoes, OutsideView DEF Broadcasting
  <2>3. CASE Hangup(c)
    BY <2>3, HangupDoes, OutsideView DEF Broadcasting
  <2>4. CASE HandleSub(c)
    <3>1. ~RemoveUser(c)
      BY <2>4 DEF RemoveUser, HandleSub, Subscribe, PutChannel, PutSubID, AddUser, PutIDchannel
    <3> QED BY <2>4, <3>1, AddUserView, QuietChange
  <2>5. CASE HandleUnsub(c)
    <3>1. ~AddUser(c)
      BY <2>5 DEF AddUser, HandleUnsub, Unsubscribe, ReadSubID, RemoveUser, RemoveSubID,
                  RemoveIDchannel
    <3> QED BY <2>5, <3>1, RemoveUserView, QuietChange
  <2>6. CASE HandleDisconnect(c) \/ HandleOther(c)
    BY <2>6, EndsDo, OutsideView DEF Broadcasting
  <2>7. CASE HandleSend(c)
    <3>1. CASE Send(c)
      BY <2>7, <3>1, StartDoes, OutsideView DEF Broadcasting
    <3> QED BY <2>7, <3>1, AcquireView, VisitView, RouteView, LookupView, DeliverView, EndView,
               RespondView
            DEF HandleSend
  <2>8. ~Accept(c) /\ ~HandleConnect(c)
    BY DEF Accept, HandleConnect, Connect, PutUser, PutUserID, PutLoginID, InConnect,
           Serving, Settled
  <2> QED BY <2>1, <2>2, <2>3, <2>4, <2>5, <2>6, <2>7, <2>8 DEF CarefulStep, Process
<1> QED BY <1>1, <1>2

LEMMA ServiceStart ==
  ASSUME NEW own \in [Conn -> Login], \A u \in Login : \E c \in Conn : own[c] = u,
         NEW creator \in Conn, NEW passcode \in Pass, WarmInit(own, creator, passcode)
  PROVE  Service!Init
<1>1. Serving
  BY ServingStart
<1>2. Subs = [d \in Channel |-> Empty]
  <2>1. \A d \in Channel : channels[d] \in QueueRef
    BY <1>1, ServingParts
  <2>2. \A q \in QueueRef : queues[q] = Empty
    BY DEF WarmInit
  <2> QED BY <1>1, <2>1, <2>2, SubsAre
<1>3. \A d \in Channel : PublisherOf(d) = Nil
  <2>1. \A d \in Channel : channels[d] \in QueueRef
    BY <1>1, ServingParts
  <2> QED BY <2>1 DEF PublisherOf, WarmInit
<1>4. /\ Publishing = [d \in Channel |-> Nil]
      /\ Left = [d \in Channel |-> Empty] /\ Given = [d \in Channel |-> Empty]
  BY <1>3 DEF Publishing, Left, Given
<1>5. Attached = Login
  BY <1>1 DEF Attached, WarmInit, Serving, Routed
<1>6. Service!Zero = Empty
  BY DEF Service!Zero, Empty
<1> QED BY <1>2, <1>4, <1>5, <1>6 DEF Service!Init

(* The server is a publish/subscribe service for careful clients with ids  *)
(* of their own that stay logged in: each broadcast gives one copy to      *)
(* every subscription, save those whose client is gone, and those of a     *)
(* channel never overlap, however the handlers of all the clients          *)
(* interleave.  It speaks of the broadcasts only: a publisher gets its     *)
(* message once more, as the response of its frame.                        *)
THEOREM ServerPublishes ==
  ASSUME OwnIds, LoggedIn,
         NEW own \in [Conn -> Login], \A u \in Login : \E c \in Conn : own[c] = u,
         NEW creator \in Conn, NEW passcode \in Pass
  PROVE  WarmInit(own, creator, passcode) /\ [][CarefulNext]_vars => Publishes
<1>1. WarmInit(own, creator, passcode) => Serving /\ Service!Init
  BY ServingStart, ServiceStart
<1>2. Serving /\ [CarefulNext]_vars => Serving'
  BY ServingStep
<1>3. Serving /\ [CarefulNext]_vars => [Service!Next]_<<Subs, Attached, Publishing, Left, Given>>
  BY ServiceStep DEF View
<1> QED BY <1>1, <1>2, <1>3, PTL DEF Publishes, Service!Spec, Service!vars
=============================================================================
