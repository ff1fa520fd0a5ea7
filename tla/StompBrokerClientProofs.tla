----------------------- MODULE StompBrokerClientProofs -----------------------
(***************************************************************************)
(* Proofs about StompBroker with the clients of StompBrokerProps, for any  *)
(* connections, logins, channels, ids, scripts and numbers of frames.      *)
(*                                                                         *)
(* Careful clients with ids of their own find their subscriptions in SubID *)
(* and IDchannel.  When every channel has its queue from the start, the    *)
(* queue counts those subscriptions exactly, and all clients agree on the  *)
(* order of the messages of a channel, careful or not.                     *)
(***************************************************************************)
EXTENDS StompBrokerProofs, FiniteSetTheorems, FunctionTheorems,
        SequenceTheorems

(* The ids a connection may send, and the clients of which no two may send *)
(* the same one.                                                           *)
UsedBy(c) ==
  {f.id : f \in {g \in Script[c] : g.cmd \in {"SUBSCRIBE", "UNSUBSCRIBE"}}} \ {Nil}
OwnIds == \A c, k \in Conn : c # k => UsedBy(c) \cap UsedBy(k) = {}

Changing == InSubscribe \cup InUnsubscribe

(* The connections whose frame a careful client may have sent, and whose   *)
(* locals are what the maps say about it.                                  *)
Minded == {c \in Conn :
  LET i == call[c].frame.id IN
  /\ pc[c] \in Changing => i \in UsedBy(c) \cup {Nil}
  /\ pc[c] \in InSubscribe => ~Holds(c, i)
  /\ pc[c] \in {"addUser", "putIDchannel"} => SubID[i] = call[c].name
  /\ pc[c] \in InUnsubscribe => Holds(c, i)
  /\ pc[c] \in InUnsubscribe \ {"unsubscribe"} => call[c].dest = IDchannel[i]
  /\ pc[c] \in {"removeUser", "removeSubID"} => call[c].name = SubID[i]
  /\ pc[c] = "removeIDchannel" =>
       \A s \in live : s.conn = c /\ s.id = i => call[c].name = s.user}

Subscription == [conn : Conn, id : SubId, user : Login, channel : Channel]

(* What the maps say of the acknowledged subscriptions.                    *)
Kept == \A s \in live :
  /\ s \in Subscription /\ s.id \in UsedBy(s.conn)
  /\ IDchannel[s.id] = s.channel
  /\ ~(pc[s.conn] = "removeIDchannel" /\ call[s.conn].frame.id = s.id) =>
       SubID[s.id] = s.user
  /\ \A r \in live : r.id = s.id => r = s

IRecorded == Kept /\ Minded = Conn

-----------------------------------------------------------------------------
(* What the steps of the handlers of SUBSCRIBE and UNSUBSCRIBE do.         *)

Apart(c) == \A k \in Conn \ {c} : pc'[k] = pc[k] /\ call'[k] = call[k]

(* The handler throws, or disconnects the client.                          *)
Dropped(c) == /\ Apart(c) /\ pc'[c] \in Resting \ {"new"} /\ call'[c] = NoCall
              /\ UNCHANGED <<subscriptions, todo, live>>

LEMMA RestsDropped ==
  ASSUME TypeOK, NEW c \in Conn, Rests(c), UNCHANGED <<subscriptions, todo, live>>
  PROVE  Dropped(c)
<1>1. call'[c] = NoCall
  BY DEF Rests, TypeOK
<1> QED BY <1>1, RestsSound DEF Rests, Dropped, Apart

LEMMA StepApart ==
  ASSUME TypeOK, NEW c \in Conn, NEW l, Step(c, l)
  PROVE  Apart(c) /\ pc'[c] = l /\ call'[c] = call[c]
BY DEF TypeOK, Step, Goto, Apart

LEMMA GotoApart ==
  ASSUME TypeOK, NEW c \in Conn, NEW l, NEW e, Goto(c, l), call' = [call EXCEPT ![c] = e]
  PROVE  Apart(c) /\ pc'[c] = l /\ call'[c] = e
BY DEF TypeOK, Goto, Apart

LEMMA RestsApart ==
  ASSUME TypeOK, NEW c \in Conn, Rests(c)
  PROVE  Apart(c) /\ pc'[c] \in Resting \ {"new"} /\ call'[c] = NoCall
<1>1. call'[c] = NoCall
  BY DEF Rests, TypeOK
<1> QED BY <1>1, RestsSound DEF Rests, Apart

(* What a frame that is being handled looks like.                          *)
LEMMA FrameParts ==
  ASSUME IInv, NEW c \in Conn
  PROVE  /\ call[c] \in Call
         /\ call[c].name \in Login \cup {Nil} /\ call[c].dest \in Channel \cup {Nil}
         /\ pc[c] \in InSubscribe => /\ call[c].frame.dest \in Channel \cup {Nil}
                                     /\ call[c].frame.id \in SubId \cup {Nil}
         /\ pc[c] \in InUnsubscribe => call[c].frame.id \in SubId \cup {Nil}
         /\ pc[c] \in InUnsubscribe \ {"unsubscribe"} => call[c].frame.id \in SubId
         /\ pc[c] \in {"addUser", "putIDchannel"} =>
              /\ call[c].name \in Login /\ call[c].frame.id \in SubId
              /\ call[c].dest \in Channel /\ channels[call[c].dest] \in QueueRef
         /\ pc[c] \in {"removeUser", "removeSubID"} => call[c].name \in Login
<1>1. c \in Sound /\ call[c] \in Call /\ channels \in [Channel -> QueueRef \cup {Nil}]
  BY DEF IInv, TypeOK
<1>2. call[c].name \in Login \cup {Nil} /\ call[c].dest \in Channel \cup {Nil}
  BY <1>1 DEF Call
<1>3. ASSUME pc[c] \in InSubscribe
      PROVE  /\ call[c].frame.dest \in Channel \cup {Nil}
             /\ call[c].frame.id \in SubId \cup {Nil}
  BY <1>1, <1>3 DEF Sound, SubscribeFrame
<1>4. ASSUME pc[c] \in InUnsubscribe PROVE call[c].frame.id \in SubId \cup {Nil}
  BY <1>1, <1>4 DEF Sound, UnsubscribeFrame
<1>5. ASSUME pc[c] \in InUnsubscribe \ {"unsubscribe"} PROVE call[c].frame.id \in SubId
  BY <1>1, <1>4, <1>5 DEF Sound
<1>6. ASSUME pc[c] \in {"addUser", "putIDchannel"}
      PROVE  /\ call[c].name \in Login /\ call[c].frame.id \in SubId
             /\ call[c].dest \in Channel /\ channels[call[c].dest] \in QueueRef
  <2>1. pc[c] \in InSubscribe \ {"subscribe", "putChannel"}
    BY <1>6 DEF InSubscribe
  <2>2. /\ call[c].name # Nil /\ call[c].frame.id # Nil /\ call[c].dest # Nil
        /\ channels[call[c].dest] # Nil
    BY <1>1, <1>6, <2>1 DEF Sound
  <2> QED BY <1>1, <1>2, <1>3, <2>1, <2>2
<1>7. ASSUME pc[c] \in {"removeUser", "removeSubID"} PROVE call[c].name \in Login
  BY <1>1, <1>2, <1>7 DEF Sound
<1> QED BY <1>1, <1>2, <1>3, <1>4, <1>5, <1>6, <1>7

LEMMA SubscribeDoes ==
  ASSUME IInv, NEW c \in Conn, Subscribe(c)
  PROVE  \/ Dropped(c)
         \/ /\ Apart(c) /\ UNCHANGED <<subscriptions, todo, live>>
            /\ call[c].frame.dest # Nil
            /\ pc'[c] = IF channels[call[c].frame.dest] = Nil THEN "putChannel"
                        ELSE "joinSubID"
            /\ call'[c] = [call[c] EXCEPT !.name = loginID[c], !.dest = call[c].frame.dest]
            /\ call'[c].frame = call[c].frame
<1> DEFINE d == call[c].frame.dest
           e == [call[c] EXCEPT !.name = loginID[c], !.dest = d]
<1>1. CASE d = Nil
  BY <1>1, ThrowRests, RestsDropped DEF Subscribe, IInv
<1>2. CASE d # Nil
  <2>1. e.frame = call[c].frame
    BY FrameParts DEF Call
  <2>2. /\ call' = [call EXCEPT ![c] = e]
        /\ Goto(c, IF channels[d] = Nil THEN "putChannel" ELSE "joinSubID")
        /\ UNCHANGED <<subscriptions, todo, live>>
    BY <1>2 DEF Subscribe
  <2> DEFINE l == IF channels[d] = Nil THEN "putChannel" ELSE "joinSubID"
  <2> HIDE DEF e
  <2>3. Goto(c, l)
    BY <2>2
  <2> HIDE DEF l
  <2>4. Apart(c) /\ pc'[c] = l /\ call'[c] = e
    BY <2>2, <2>3, GotoApart DEF IInv
  <2> QED BY <1>2, <2>1, <2>2, <2>4 DEF e, l
<1> QED BY <1>1, <1>2

LEMMA PutChannelDoes ==
  ASSUME IInv, NEW c \in Conn, PutChannel(c)
  PROVE  \/ Dropped(c)
         \/ /\ Apart(c) /\ pc'[c] = "putSubID" /\ call'[c] = call[c]
            /\ UNCHANGED <<SubID, IDchannel, todo, live>>
<1>1. CASE call[c].name = Nil
  BY <1>1, ThrowRests, RestsDropped DEF PutChannel, subscriptions, IInv
<1>2. CASE call[c].name # Nil
  BY <1>2, StepApart DEF PutChannel, IInv
<1> QED BY <1>1, <1>2

LEMMA PutSubIDDoes ==
  ASSUME IInv, NEW c \in Conn, PutSubID(c)
  PROVE  \/ Dropped(c)
         \/ /\ Apart(c) /\ call'[c] = call[c]
            /\ pc'[c] = IF pc[c] = "putSubID" THEN "putIDchannel" ELSE "addUser"
            /\ call[c].frame.id \in SubId
            /\ SubID' = [SubID EXCEPT ![call[c].frame.id] = call[c].name]
            /\ UNCHANGED <<IDchannel, channels, queues, todo, live>>
<1>1. CASE call[c].frame.id = Nil \/ call[c].name = Nil
  BY <1>1, ThrowRests, RestsDropped DEF PutSubID, subscriptions, IInv
<1>2. CASE ~(call[c].frame.id = Nil \/ call[c].name = Nil)
  <2>1. call[c].frame.id \in SubId
    BY <1>2, FrameParts DEF PutSubID, InSubscribe
  <2> QED BY <1>2, <2>1, StepApart DEF PutSubID, IInv
<1> QED BY <1>1, <1>2

LEMMA AddUserDoes ==
  ASSUME IInv, NEW c \in Conn, AddUser(c)
  PROVE  LET q == channels[call[c].dest] IN
         /\ Apart(c) /\ pc'[c] = "putIDchannel" /\ call'[c] = call[c]
         /\ q \in QueueRef
         /\ queues' = [queues EXCEPT ![q][call[c].name] = @ + 1]
         /\ MayReflect(q, call[c].name, OneMore)
         /\ UNCHANGED <<SubID, IDchannel, channels, live>>
<1>1. channels[call[c].dest] \in QueueRef /\ channels[call[c].dest] # Nil
  BY FrameParts, NilAssumption DEF AddUser, QueueRef
<1>2. channels' = channels
  BY <1>1 DEF AddUser, IInv, TypeOK
<1> QED BY <1>1, <1>2, StepApart DEF AddUser, IInv

LEMMA PutIDchannelDoes ==
  ASSUME IInv, NEW c \in Conn, PutIDchannel(c)
  PROVE  LET i == call[c].frame.id  d == call[c].dest IN
         /\ Apart(c) /\ pc'[c] \in Resting \ {"new"} /\ call'[c] = NoCall
         /\ IDchannel' = [IDchannel EXCEPT ![i] = d]
         /\ live' = live \cup {[conn |-> c, id |-> i, user |-> call[c].name, channel |-> d]}
         /\ UNCHANGED <<SubID, channels, queues, todo>>
BY ReturnRests, RestsApart DEF PutIDchannel, IInv

LEMMA UnsubscribeDoes ==
  ASSUME IInv, NEW c \in Conn, Unsubscribe(c)
  PROVE  \/ Dropped(c)
         \/ /\ Apart(c) /\ pc'[c] = "readSubID" /\ UNCHANGED <<subscriptions, todo, live>>
            /\ call[c].frame.id \in SubId
            /\ call'[c] = [call[c] EXCEPT !.dest = IDchannel[call[c].frame.id]]
            /\ call'[c].frame = call[c].frame
            /\ call'[c].dest = IDchannel[call[c].frame.id]
<1> DEFINE i == call[c].frame.id
           e == [call[c] EXCEPT !.dest = IDchannel[i]]
<1>1. CASE i = Nil
  BY <1>1, ThrowRests, RestsDropped DEF Unsubscribe, IInv
<1>2. CASE i # Nil
  <2>1. e.frame = call[c].frame /\ e.dest = IDchannel[i]
    BY FrameParts DEF Call
  <2>2. i \in SubId
    BY <1>2, FrameParts DEF Unsubscribe, InUnsubscribe
  <2>3. /\ call' = [call EXCEPT ![c] = e] /\ Goto(c, "readSubID")
        /\ UNCHANGED <<subscriptions, todo, live>>
    BY <1>2 DEF Unsubscribe
  <2> QED BY <2>1, <2>2, <2>3, GotoApart DEF IInv
<1> QED BY <1>1, <1>2

LEMMA ReadSubIDDoes ==
  ASSUME IInv, NEW c \in Conn, ReadSubID(c)
  PROVE  /\ UNCHANGED <<subscriptions, todo, live>>
         /\ \/ Dropped(c) /\ SubID[call[c].frame.id] = Nil
            \/ /\ Apart(c) /\ pc'[c] = "removeUser"
               /\ call'[c] = [call[c] EXCEPT !.name = SubID[call[c].frame.id]]
               /\ call'[c].frame = call[c].frame /\ call'[c].dest = call[c].dest
               /\ call'[c].name = SubID[call[c].frame.id]
<1> DEFINE u == SubID[call[c].frame.id]
           e == [call[c] EXCEPT !.name = u]
<1>1. CASE u = Nil
  BY <1>1, DisconnectKeeps, RestsDropped DEF ReadSubID, IInv
<1>2. CASE u # Nil
  <2>1. e.frame = call[c].frame /\ e.dest = call[c].dest /\ e.name = u
    BY FrameParts DEF Call
  <2>2. /\ call' = [call EXCEPT ![c] = e] /\ Goto(c, "removeUser")
        /\ UNCHANGED <<subscriptions, todo, live>>
    BY <1>2 DEF ReadSubID
  <2> QED BY <2>1, <2>2, GotoApart DEF IInv
<1> QED BY <1>1, <1>2

LEMMA RemoveUserDoes ==
  ASSUME IInv, NEW c \in Conn, RemoveUser(c)
  PROVE  LET d == call[c].dest IN
         /\ UNCHANGED <<SubID, IDchannel, channels, live>>
         /\ \/ Dropped(c) /\ (d = Nil \/ channels[d] = Nil)
            \/ /\ Apart(c) /\ pc'[c] = "removeSubID" /\ call'[c] = call[c]
               /\ d \in Channel /\ channels[d] \in QueueRef
               /\ queues' = [queues EXCEPT ![channels[d]][call[c].name] = OneLess(@)]
               /\ MayReflect(channels[d], call[c].name, OneLess)
<1> DEFINE d == call[c].dest
<1>1. CASE d = Nil \/ channels[d] = Nil
  BY <1>1, ThrowRests, RestsDropped DEF RemoveUser, subscriptions, IInv
<1>2. CASE ~(d = Nil \/ channels[d] = Nil)
  <2>1. d \in Channel /\ channels[d] \in QueueRef
    BY <1>2, FrameParts DEF IInv, TypeOK
  <2> QED BY <1>2, <2>1, StepApart DEF RemoveUser, IInv
<1> QED BY <1>1, <1>2

LEMMA RemoveSubIDDoes ==
  ASSUME IInv, NEW c \in Conn, RemoveSubID(c)
  PROVE  /\ Apart(c) /\ pc'[c] = "removeIDchannel" /\ call'[c] = call[c]
         /\ SubID' = [SubID EXCEPT ![call[c].frame.id] = Nil]
         /\ UNCHANGED <<IDchannel, channels, queues, todo, live>>
BY StepApart DEF RemoveSubID, IInv

LEMMA RemoveIDchannelDoes ==
  ASSUME IInv, NEW c \in Conn, RemoveIDchannel(c)
  PROVE  LET i == call[c].frame.id IN
         /\ Apart(c) /\ pc'[c] \in Resting \ {"new"} /\ call'[c] = NoCall
         /\ IDchannel' = [IDchannel EXCEPT ![i] = Nil]
         /\ live' = {s \in live : s.conn # c \/ s.id # i}
         /\ UNCHANGED <<SubID, channels, queues, todo>>
BY ReturnRests, RestsApart DEF RemoveIDchannel, IInv

(* The other handlers, and what is no handler but the decoding of a frame, *)
(* leave the subscriptions alone.                                          *)
LEMMA OutsideDoes ==
  ASSUME IInv, NEW c \in Conn,
         \/ Accept(c) \/ Hangup(c) \/ HandleConnect(c) \/ HandleSend(c)
         \/ HandleDisconnect(c) \/ HandleOther(c)
  PROVE  /\ Apart(c) /\ UNCHANGED <<subscriptions, live>>
         /\ pc[c] \notin Changing /\ pc'[c] \notin Changing
<1> USE DEF IInv
<1>1. UNCHANGED <<subscriptions, live>>
  BY DEF Accept, Hangup, HandleConnect, HandleSend, HandleDisconnect, HandleOther, history
<1>2. pc[c] \notin Changing
  BY DEF Accept, Hangup, HandleConnect, Connect, PutUser, PutUserID, PutLoginID, HandleSend,
         Send, Acquire, Visit, Route, Lookup, Deliver, EndBroadcast, Respond,
         HandleDisconnect, HandleOther, Changing, InSubscribe, InUnsubscribe
<1>3. \/ Rests(c)
      \/ \E l \in {"idle", "closed", "putUser", "putUserID", "putLoginID", "next",
                   "deliver"} : Step(c, l)
      \/ \E l \in {"acquire", "next", "route", "lookup", "respond"}, e \in {call'[c]} :
           Goto(c, l) /\ call' = [call EXCEPT ![c] = e]
  <2>1. CASE Accept(c) \/ Hangup(c)
    BY <2>1 DEF Accept, Hangup
  <2>2. CASE HandleConnect(c)
    BY <2>2, ReturnRests, DisconnectKeeps
    DEF HandleConnect, Connect, PutUser, PutUserID, PutLoginID
  <2>3. CASE HandleDisconnect(c) \/ HandleOther(c)
    BY <2>3, ReturnRests, ThrowRests, DisconnectKeeps DEF HandleDisconnect, HandleOther
  <2>4. CASE HandleSend(c)
    <3>1. CASE Send(c)
      <4> DEFINE e == [call[c] EXCEPT !.lock = channels[call[c].frame.dest]]
      <4>1. \/ DisconnectAndReturn(c) \/ Throw(c)
            \/ call' = [call EXCEPT ![c] = e] /\ Goto(c, "acquire")
        BY <3>1 DEF Send
      <4>2. call' = [call EXCEPT ![c] = e] => call'[c] = e
        BY DEF TypeOK
      <4> HIDE DEF e
      <4> QED BY <4>1, <4>2, ThrowRests, DisconnectKeeps
    <3>2. CASE Acquire(c)
      <4> DEFINE e == [call[c] EXCEPT !.iter = channels[call[c].frame.dest]]
      <4>1. call' = [call EXCEPT ![c] = e] /\ Goto(c, "next")
        BY <3>2 DEF Acquire
      <4>2. call'[c] = e
        BY <4>1 DEF TypeOK
      <4> HIDE DEF e
      <4> QED BY <4>1, <4>2
    <3>3. CASE Visit(c)
      <4>1. PICK u \in Login :
              \/ Step(c, "next")
              \/ call' = [call EXCEPT ![c].target = u] /\ Goto(c, "route")
        BY <3>3 DEF Visit
      <4> DEFINE e == [call[c] EXCEPT !.target = u]
      <4>2. Step(c, "next") \/ (call' = [call EXCEPT ![c] = e] /\ Goto(c, "route"))
        BY <4>1
      <4>3. call' = [call EXCEPT ![c] = e] => call'[c] = e
        BY DEF TypeOK
      <4> HIDE DEF e
      <4> QED BY <4>2, <4>3
    <3>4. CASE Route(c)
      <4> DEFINE e == [call[c] EXCEPT !.target = userID[call[c].target]]
      <4>1. \/ Throw(c)
            \/ call' = [call EXCEPT ![c] = e] /\ Goto(c, "lookup")
        BY <3>4 DEF Route
      <4>2. call' = [call EXCEPT ![c] = e] => call'[c] = e
        BY DEF TypeOK
      <4> HIDE DEF e
      <4> QED BY <4>1, <4>2, ThrowRests
    <3>5. CASE Lookup(c) \/ Deliver(c) \/ Respond(c)
      BY <3>5, ReturnRests DEF Lookup, Deliver, Respond
    <3>6. CASE EndBroadcast(c)
      <4> DEFINE e == [call[c] EXCEPT !.lock = Nil, !.iter = Nil, !.target = Nil]
      <4>1. call' = [call EXCEPT ![c] = e] /\ Goto(c, "respond")
        BY <3>6 DEF EndBroadcast
      <4>2. call'[c] = e
        BY <4>1 DEF TypeOK
      <4> HIDE DEF e
      <4> QED BY <4>1, <4>2
    <3> QED BY <2>4, <3>1, <3>2, <3>3, <3>4, <3>5, <3>6 DEF HandleSend
  <2> QED BY <2>1, <2>2, <2>3, <2>4
<1>4. Apart(c) /\ pc'[c] \in Resting \cup {"putUser", "putUserID", "putLoginID", "next",
                                          "deliver", "respond", "acquire", "route", "lookup"}
  BY <1>3, RestsApart, StepApart, GotoApart DEF Resting
<1> QED BY <1>1, <1>2, <1>4 DEF Changing, InSubscribe, InUnsubscribe, Resting

-----------------------------------------------------------------------------
(* The subscriptions that careful clients have and what the maps say.      *)

CarefulStep(c) == \/ Accept(c)
                  \/ \E f \in Script[c] : Careful(c, f) /\ Receive(c, f)
                  \/ Hangup(c)
                  \/ Process(c)

LEMMA CarefulSteps == /\ CarefulNext <=> \E c \in Conn : CarefulStep(c)
                      /\ CarefulNext => Next
BY DEF CarefulNext, CarefulStep, Next

(* The steps of c leave the subscriptions of the others as they are.       *)
LEMMA OthersRecorded ==
  ASSUME OwnIds, IInv, IRecorded, NEW c \in Conn, Apart(c), NEW ids \in SUBSET UsedBy(c),
         \A i \in SubId \ ids : SubID'[i] = SubID[i] /\ IDchannel'[i] = IDchannel[i],
         \A s \in live \cup live' : s.conn # c => s \in live /\ s \in live'
  PROVE  /\ \A k \in Conn \ {c} : k \in Minded'
         /\ \A s \in live' : s.conn # c =>
              /\ s \in Subscription /\ s.id \in UsedBy(s.conn)
              /\ IDchannel'[s.id] = s.channel
              /\ ~(pc'[s.conn] = "removeIDchannel" /\ call'[s.conn].frame.id = s.id) =>
                   SubID'[s.id] = s.user
              /\ \A r \in live' : r.conn # c /\ r.id = s.id => r = s
<1>1. ASSUME NEW k \in Conn \ {c}, NEW i \in UsedBy(k)
      PROVE  i \in SubId => SubID'[i] = SubID[i] /\ IDchannel'[i] = IDchannel[i]
  BY <1>1 DEF OwnIds
<1>2. ASSUME NEW s \in live', s.conn # c
      PROVE  /\ s \in live /\ s \in Subscription /\ s.id \in UsedBy(s.conn)
             /\ s.conn \in Conn \ {c} /\ s.id \in SubId
  BY <1>2 DEF IRecorded, Kept, Subscription
<1>3. ASSUME NEW s \in live', s.conn # c
      PROVE  /\ IDchannel'[s.id] = s.channel
             /\ ~(pc'[s.conn] = "removeIDchannel" /\ call'[s.conn].frame.id = s.id) =>
                  SubID'[s.id] = s.user
             /\ \A r \in live' : r.conn # c /\ r.id = s.id => r = s
  BY <1>1, <1>2, <1>3 DEF IRecorded, Kept, Apart
<1>4. ASSUME NEW k \in Conn \ {c} PROVE k \in Minded'
  <2>0. PICK i : i = call[k].frame.id
    OBVIOUS
  <2>1. k \in Minded /\ pc'[k] = pc[k] /\ call'[k] = call[k]
    BY DEF IRecorded, Apart
  <2>2. \A s \in live \cup live' : s.conn = k => s \in live /\ s \in live'
    OBVIOUS
  <2>3. Holds(k, i)' <=> Holds(k, i)
    BY <2>0, <2>1, <2>2 DEF Holds
  <2>4. ASSUME pc[k] \in InUnsubscribe \cup {"addUser", "putIDchannel"}
        PROVE  SubID'[i] = SubID[i] /\ IDchannel'[i] = IDchannel[i]
    <3>1. pc[k] \in Changing
      BY <2>4 DEF Changing, InSubscribe
    <3>2. i \in SubId
      BY <2>0, <2>1, <2>4, FrameParts DEF Minded, Holds, IRecorded, Kept, Subscription
    <3>3. i \in UsedBy(k)
      BY <2>0, <2>1, <3>1, <3>2, NilAssumption DEF Minded
    <3> QED BY <1>1, <3>2, <3>3
  <2>5. /\ pc[k] \in Changing => i \in UsedBy(k) \cup {Nil}
        /\ pc[k] \in InSubscribe => ~Holds(k, i)
        /\ pc[k] \in {"addUser", "putIDchannel"} => SubID[i] = call[k].name
        /\ pc[k] \in InUnsubscribe => Holds(k, i)
        /\ pc[k] \in InUnsubscribe \ {"unsubscribe"} => call[k].dest = IDchannel[i]
        /\ pc[k] \in {"removeUser", "removeSubID"} => call[k].name = SubID[i]
        /\ pc[k] = "removeIDchannel" =>
             \A s \in live : s.conn = k /\ s.id = i => call[k].name = s.user
    BY <2>0, <2>1 DEF Minded
  <2>6. {"removeUser", "removeSubID"} \subseteq InUnsubscribe
    BY DEF InUnsubscribe
  <2>7. call'[k].frame.id = i
    BY <2>0, <2>1
  <2>8. /\ pc'[k] \in Changing => i \in UsedBy(k) \cup {Nil}
        /\ pc'[k] \in InSubscribe => ~Holds(k, i)'
        /\ pc'[k] \in {"addUser", "putIDchannel"} => SubID'[i] = call'[k].name
        /\ pc'[k] \in InUnsubscribe => Holds(k, i)'
        /\ pc'[k] \in InUnsubscribe \ {"unsubscribe"} => call'[k].dest = IDchannel'[i]
        /\ pc'[k] \in {"removeUser", "removeSubID"} => call'[k].name = SubID'[i]
        /\ pc'[k] = "removeIDchannel" =>
             \A s \in live' : s.conn = k /\ s.id = i => call'[k].name = s.user
    BY <2>1, <2>2, <2>3, <2>4, <2>5, <2>6
  <2> QED BY <2>7, <2>8 DEF Minded, Holds
<1> QED BY <1>2, <1>3, <1>4

(* A step of c keeps what it has to keep of its own subscriptions.         *)
LEMMA JoinRecorded ==
  ASSUME OwnIds, IInv, IRecorded, NEW c \in Conn, Apart(c), NEW ids \in SUBSET UsedBy(c),
         \A i \in SubId \ ids : SubID'[i] = SubID[i] /\ IDchannel'[i] = IDchannel[i],
         \A s \in live \cup live' : s.conn # c => s \in live /\ s \in live',
         c \in Minded',
         \A s \in live' : s.conn = c =>
           /\ s \in Subscription /\ s.id \in UsedBy(c)
           /\ IDchannel'[s.id] = s.channel
           /\ ~(pc'[c] = "removeIDchannel" /\ call'[c].frame.id = s.id) =>
                SubID'[s.id] = s.user
           /\ \A r \in live' : r.conn = c /\ r.id = s.id => r = s
  PROVE  IRecorded'
<1>1. /\ \A k \in Conn \ {c} : k \in Minded'
      /\ \A s \in live' : s.conn # c =>
           /\ s \in Subscription /\ s.id \in UsedBy(s.conn)
           /\ IDchannel'[s.id] = s.channel
           /\ ~(pc'[s.conn] = "removeIDchannel" /\ call'[s.conn].frame.id = s.id) =>
                SubID'[s.id] = s.user
           /\ \A r \in live' : r.conn # c /\ r.id = s.id => r = s
  BY OthersRecorded
<1>2. Minded' = Conn
  <2>1. Minded' \subseteq Conn
    BY DEF Minded
  <2> QED BY <1>1, <2>1
<1>3. \A r, s \in live' : r.id = s.id => r.conn = s.conn
  <2>1. \A s \in live' : s.conn \in Conn /\ s.id \in UsedBy(s.conn)
    BY <1>1 DEF Subscription
  <2> QED BY <2>1 DEF OwnIds
<1>4. ASSUME NEW s \in live'
      PROVE  /\ s \in Subscription /\ s.id \in UsedBy(s.conn)
             /\ IDchannel'[s.id] = s.channel
             /\ ~(pc'[s.conn] = "removeIDchannel" /\ call'[s.conn].frame.id = s.id) =>
                  SubID'[s.id] = s.user
             /\ \A r \in live' : r.id = s.id => r = s
  <2>1. CASE s.conn = c
    BY <1>3, <2>1
  <2>2. CASE s.conn # c
    BY <1>1, <1>3, <2>2
  <2> QED BY <2>1, <2>2
<1>5. Kept'
  BY <1>4 DEF Kept
<1> QED BY <1>2, <1>5 DEF IRecorded

LEMMA QuietRecorded ==
  ASSUME OwnIds, IInv, IRecorded, NEW c \in Conn, Apart(c),
         UNCHANGED <<SubID, IDchannel, live>>,
         pc[c] # "removeIDchannel", c \in Minded'
  PROVE  IRecorded'
<1>1. {} \in SUBSET UsedBy(c)
  OBVIOUS
<1>2. \A s \in live' : s.conn = c =>
        /\ s \in Subscription /\ s.id \in UsedBy(c)
        /\ IDchannel'[s.id] = s.channel
        /\ ~(pc'[c] = "removeIDchannel" /\ call'[c].frame.id = s.id) =>
             SubID'[s.id] = s.user
        /\ \A r \in live' : r.conn = c /\ r.id = s.id => r = s
  BY DEF IRecorded, Kept
<1> QED BY <1>1, <1>2, JoinRecorded

LEMMA OutsideMinded == ASSUME NEW c \in Conn, pc'[c] \notin Changing PROVE c \in Minded'
BY DEF Minded, Changing, InSubscribe, InUnsubscribe

LEMMA DroppedRecorded ==
  ASSUME OwnIds, IInv, IRecorded, NEW c \in Conn, Dropped(c), pc[c] # "removeIDchannel"
  PROVE  IRecorded'
<1>1. pc'[c] \notin Changing
  BY DEF Dropped, Changing, Resting, InSubscribe, InUnsubscribe
<1> QED BY <1>1, OutsideMinded, QuietRecorded DEF Dropped, subscriptions

(* A careful client sends a frame.                                         *)
LEMMA ReceiveRecorded ==
  ASSUME OwnIds, IInv, IRecorded, NEW c \in Conn, NEW f \in Script[c],
         Careful(c, f), Receive(c, f)
  PROVE  IRecorded'
<1>1. f \in Frame
  BY ScriptAssumption
<1> DEFINE l == FirstStep(f)
           e == [call[c] EXCEPT !.frame = f]
<1>2. /\ l \in {"connect", "subscribe", "unsubscribe", "send", "disconnect", "other"}
      /\ l = "subscribe" => f \in SubscribeFrame
      /\ l = "unsubscribe" => f \in UnsubscribeFrame
  BY <1>1, FirstStepFits
<1>3. e.frame = f
  BY FrameParts DEF Call
<1>4. Goto(c, l) /\ call' = [call EXCEPT ![c] = e]
  BY DEF Receive
<1> HIDE DEF l, e
<1>5. Apart(c) /\ pc'[c] = l /\ call'[c].frame = f
  BY <1>3, <1>4, GotoApart DEF IInv
<1>6. /\ UNCHANGED <<SubID, IDchannel, live>> /\ pc[c] # "removeIDchannel"
  BY DEF Receive, subscriptions, history
<1>7. l # "subscribe" \/ (f.id \in UsedBy(c) \cup {Nil} /\ ~Holds(c, f.id))
  BY <1>2 DEF SubscribeFrame, UsedBy, Careful
<1>8. l # "unsubscribe" \/ (f.id \in UsedBy(c) \cup {Nil} /\ Holds(c, f.id))
  BY <1>2 DEF UnsubscribeFrame, UsedBy, Careful
<1>9. c \in Minded'
  BY <1>2, <1>5, <1>6, <1>7, <1>8
  DEF Minded, Changing, InSubscribe, InUnsubscribe, Holds
<1> QED BY <1>5, <1>6, <1>9, QuietRecorded

LEMMA SubscribeRecorded ==
  ASSUME OwnIds, IInv, IRecorded, NEW c \in Conn, HandleSub(c) PROVE IRecorded'
<1>0. PICK i : i = call[c].frame.id
  OBVIOUS
<1>1. /\ pc[c] \in InSubscribe /\ pc[c] # "removeIDchannel"
      /\ i \in UsedBy(c) \cup {Nil} /\ ~Holds(c, i)
      /\ pc[c] \in {"addUser", "putIDchannel"} => SubID[i] = call[c].name
  <2>1. pc[c] \in InSubscribe
    BY DEF HandleSub, Subscribe, PutChannel, PutSubID, AddUser, PutIDchannel, InSubscribe
  <2>2. pc[c] # "removeIDchannel"
    BY <2>1 DEF InSubscribe
  <2> QED BY <1>0, <2>1, <2>2 DEF IRecorded, Minded, Changing
<1>2. CASE Dropped(c)
  BY <1>1, <1>2, DroppedRecorded
<1>3. ASSUME Apart(c), UNCHANGED <<SubID, IDchannel, live>>, call'[c].frame = call[c].frame,
             pc'[c] \in InSubscribe \ {"addUser", "putIDchannel"}
      PROVE  IRecorded'
  <2>1. c \in Minded'
    BY <1>0, <1>1, <1>3
    DEF Minded, Changing, InSubscribe, InUnsubscribe, Holds
  <2> QED BY <1>1, <1>3, <2>1, QuietRecorded
<1>4. CASE Subscribe(c)
  BY <1>2, <1>3, <1>4, SubscribeDoes DEF subscriptions, InSubscribe
<1>5. CASE PutChannel(c)
  BY <1>2, <1>3, <1>5, PutChannelDoes DEF InSubscribe
<1>6. CASE PutSubID(c) /\ ~Dropped(c)
  <2>1. /\ Apart(c) /\ call'[c] = call[c] /\ i \in SubId
        /\ pc'[c] \in {"putIDchannel", "addUser"}
        /\ SubID' = [SubID EXCEPT ![i] = call[c].name]
        /\ UNCHANGED <<IDchannel, live>>
    BY <1>0, <1>6, PutSubIDDoes
  <2>2. /\ SubID'[i] = call[c].name
        /\ \A j \in SubId \ {i} : SubID'[j] = SubID[j]
        /\ {i} \in SUBSET UsedBy(c)
    BY <1>1, <2>1, NilAssumption DEF IInv, TypeOK
  <2>3. c \in Minded'
    BY <1>0, <1>1, <2>1, <2>2
    DEF Minded, Changing, InSubscribe, InUnsubscribe, Holds
  <2>4. ASSUME NEW s \in live', s.conn = c
        PROVE  /\ s \in Subscription /\ s.id \in UsedBy(c)
               /\ IDchannel'[s.id] = s.channel
               /\ SubID'[s.id] = s.user
               /\ \A r \in live' : r.conn = c /\ r.id = s.id => r = s
    <3>1. s \in live /\ s.id # i
      BY <1>1, <2>1, <2>4 DEF Holds
    <3>2. s \in Subscription /\ s.id \in UsedBy(c) /\ IDchannel[s.id] = s.channel
          /\ SubID[s.id] = s.user /\ \A r \in live : r.id = s.id => r = s
      BY <1>1, <2>4, <3>1 DEF IRecorded, Kept
    <3>3. s.id \in SubId \ {i}
      BY <3>1, <3>2 DEF Subscription
    <3> QED BY <2>1, <2>2, <3>2, <3>3
  <2> QED BY <2>1, <2>2, <2>3, <2>4, JoinRecorded
<1>7. CASE AddUser(c)
  <2>1. /\ Apart(c) /\ call'[c] = call[c] /\ pc'[c] = "putIDchannel"
        /\ UNCHANGED <<SubID, IDchannel, live>>
    BY <1>7, AddUserDoes
  <2>2. pc[c] = "addUser"
    BY <1>7 DEF AddUser
  <2>3. c \in Minded'
    BY <1>0, <1>1, <2>1, <2>2
    DEF Minded, Changing, InSubscribe, InUnsubscribe, Holds
  <2> QED BY <1>1, <2>1, <2>3, QuietRecorded
<1>8. CASE PutIDchannel(c)
  <2> DEFINE d == call[c].dest
             new == [conn |-> c, id |-> i, user |-> call[c].name, channel |-> d]
  <2>1. /\ Apart(c) /\ pc'[c] \in Resting
        /\ IDchannel' = [IDchannel EXCEPT ![i] = d]
        /\ live' = live \cup {new}
        /\ UNCHANGED SubID
    BY <1>0, <1>8, PutIDchannelDoes
  <2>2. /\ pc[c] = "putIDchannel" /\ i \in SubId /\ d \in Channel /\ call[c].name \in Login
    BY <1>0, <1>8, FrameParts DEF PutIDchannel
  <2>3. /\ IDchannel'[i] = d /\ \A j \in SubId \ {i} : IDchannel'[j] = IDchannel[j]
        /\ {i} \in SUBSET UsedBy(c)
    BY <1>1, <2>1, <2>2, NilAssumption DEF IInv, TypeOK
  <2>4. c \in Minded'
    <3>1. pc'[c] \notin Changing
      BY <2>1 DEF Changing, Resting, InSubscribe, InUnsubscribe
    <3> QED BY <3>1, OutsideMinded
  <2>5. /\ new \in Subscription /\ new.id = i /\ new.channel = d /\ new.conn = c
        /\ new.user = SubID[i]
    BY <1>1, <2>2 DEF Subscription
  <2>6. \A s \in live \cup live' : s.conn # c => s \in live /\ s \in live'
    BY <2>1, <2>5
  <2>7. ASSUME NEW s \in live', s.conn = c
        PROVE  /\ s \in Subscription /\ s.id \in UsedBy(c)
               /\ IDchannel'[s.id] = s.channel
               /\ SubID'[s.id] = s.user
               /\ \A r \in live' : r.conn = c /\ r.id = s.id => r = s
    <3>0. \A r \in live : r.conn = c => r.id # i
      BY <1>1 DEF Holds
    <3>1. CASE s = new
      BY <2>1, <2>3, <2>5, <3>0, <3>1
    <3>2. CASE s \in live
      <4>1. s \in Subscription /\ s.id \in UsedBy(c) /\ IDchannel[s.id] = s.channel
            /\ SubID[s.id] = s.user /\ \A r \in live : r.id = s.id => r = s
        BY <1>1, <2>7, <3>2 DEF IRecorded, Kept
      <4>2. s.id \in SubId \ {i}
        BY <2>7, <3>0, <3>2, <4>1 DEF Subscription
      <4> QED BY <2>1, <2>3, <2>5, <4>1, <4>2
    <3> QED BY <2>1, <3>1, <3>2
  <2> QED BY <2>1, <2>3, <2>4, <2>6, <2>7, JoinRecorded
<1> QED BY <1>2, <1>4, <1>5, <1>6, <1>7, <1>8 DEF HandleSub

LEMMA UnsubscribeRecorded ==
  ASSUME OwnIds, IInv, IRecorded, NEW c \in Conn, HandleUnsub(c) PROVE IRecorded'
<1>0. PICK i : i = call[c].frame.id
  OBVIOUS
<1>1. /\ pc[c] \in InUnsubscribe /\ c \in Minded
      /\ i \in UsedBy(c) /\ i \in SubId /\ Holds(c, i)
      /\ \A s \in live : s.conn = c => s \in Subscription /\ s.id \in SubId
      /\ \A s \in live : s.id = i => s.conn = c
  <2>1. pc[c] \in InUnsubscribe
    BY DEF HandleUnsub, Unsubscribe, ReadSubID, RemoveUser, RemoveSubID, RemoveIDchannel,
           InUnsubscribe
  <2>2. c \in Minded /\ Holds(c, i)
    BY <1>0, <2>1 DEF IRecorded, Minded
  <2>3. PICK s \in live : s.conn = c /\ s.id = i
    BY <2>2 DEF Holds
  <2>4. i \in UsedBy(c) /\ i \in SubId
    BY <2>3 DEF IRecorded, Kept, Subscription
  <2> QED BY <2>1, <2>2, <2>3, <2>4 DEF IRecorded, Kept, Subscription
<1>2. CASE Dropped(c) /\ pc[c] # "removeIDchannel"
  BY <1>2, DroppedRecorded
<1>3. CASE Unsubscribe(c) /\ ~Dropped(c)
  <2>1. /\ Apart(c) /\ pc'[c] = "readSubID" /\ UNCHANGED <<SubID, IDchannel, live>>
        /\ call'[c].frame = call[c].frame
        /\ call'[c].dest = IDchannel[i] /\ pc[c] = "unsubscribe"
    BY <1>0, <1>3, UnsubscribeDoes DEF subscriptions, Unsubscribe
  <2>2. c \in Minded'
    BY <1>0, <1>1, <2>1 DEF Minded, Changing, InSubscribe, InUnsubscribe, Holds
  <2> QED BY <2>1, <2>2, QuietRecorded
<1>4. CASE ReadSubID(c) /\ ~Dropped(c)
  <2>1. /\ Apart(c) /\ pc'[c] = "removeUser" /\ UNCHANGED <<SubID, IDchannel, live>>
        /\ call'[c].frame = call[c].frame /\ call'[c].dest = call[c].dest
        /\ call'[c].name = SubID[i] /\ pc[c] = "readSubID"
    BY <1>0, <1>4, ReadSubIDDoes DEF subscriptions, ReadSubID
  <2>2. call[c].dest = IDchannel[i]
    BY <1>0, <1>1, <2>1 DEF Minded, InUnsubscribe
  <2>3. c \in Minded'
    BY <1>0, <1>1, <2>1, <2>2 DEF Minded, Changing, InSubscribe, InUnsubscribe, Holds
  <2> QED BY <2>1, <2>3, QuietRecorded
<1>5. CASE RemoveUser(c) /\ ~Dropped(c)
  <2>1. /\ Apart(c) /\ pc'[c] = "removeSubID" /\ UNCHANGED <<SubID, IDchannel, live>>
        /\ call'[c] = call[c] /\ pc[c] = "removeUser"
    BY <1>5, RemoveUserDoes DEF RemoveUser
  <2>2. call[c].dest = IDchannel[i] /\ call[c].name = SubID[i]
    BY <1>0, <1>1, <2>1 DEF Minded, InUnsubscribe
  <2>3. c \in Minded'
    BY <1>0, <1>1, <2>1, <2>2 DEF Minded, Changing, InSubscribe, InUnsubscribe, Holds
  <2> QED BY <2>1, <2>3, QuietRecorded
<1>6. CASE RemoveSubID(c)
  <2>1. /\ Apart(c) /\ pc'[c] = "removeIDchannel" /\ call'[c] = call[c]
        /\ SubID' = [SubID EXCEPT ![i] = Nil] /\ UNCHANGED <<IDchannel, live>>
        /\ pc[c] = "removeSubID"
    BY <1>0, <1>6, RemoveSubIDDoes DEF RemoveSubID
  <2>2. /\ \A j \in SubId \ {i} : SubID'[j] = SubID[j]
        /\ {i} \in SUBSET UsedBy(c)
    BY <1>1, <2>1 DEF IInv, TypeOK
  <2>3. /\ call[c].dest = IDchannel[i] /\ call[c].name = SubID[i]
        /\ \A s \in live : s.conn = c /\ s.id = i => call[c].name = s.user
    BY <1>0, <1>1, <2>1 DEF Minded, InUnsubscribe, IRecorded, Kept
  <2>4. c \in Minded'
    BY <1>0, <1>1, <2>1, <2>3 DEF Minded, Changing, InSubscribe, InUnsubscribe, Holds
  <2>5. ASSUME NEW s \in live', s.conn = c
        PROVE  /\ s \in Subscription /\ s.id \in UsedBy(c)
               /\ IDchannel'[s.id] = s.channel
               /\ ~(pc'[c] = "removeIDchannel" /\ call'[c].frame.id = s.id) =>
                    SubID'[s.id] = s.user
               /\ \A r \in live' : r.conn = c /\ r.id = s.id => r = s
    BY <1>0, <1>1, <2>1, <2>2, <2>5 DEF IRecorded, Kept
  <2> QED BY <2>1, <2>2, <2>4, <2>5, JoinRecorded
<1>7. CASE RemoveIDchannel(c)
  <2>1. /\ Apart(c) /\ pc'[c] \in Resting
        /\ IDchannel' = [IDchannel EXCEPT ![i] = Nil]
        /\ live' = {s \in live : s.conn # c \/ s.id # i}
        /\ UNCHANGED SubID
        /\ pc[c] = "removeIDchannel"
    BY <1>0, <1>7, RemoveIDchannelDoes DEF RemoveIDchannel
  <2>2. /\ \A j \in SubId \ {i} : IDchannel'[j] = IDchannel[j]
        /\ {i} \in SUBSET UsedBy(c)
    BY <1>1, <2>1 DEF IInv, TypeOK
  <2>3. c \in Minded'
    <3>1. pc'[c] \notin Changing
      BY <2>1 DEF Changing, Resting, InSubscribe, InUnsubscribe
    <3> QED BY <3>1, OutsideMinded
  <2>4. ASSUME NEW s \in live', s.conn = c
        PROVE  /\ s \in Subscription /\ s.id \in UsedBy(c)
               /\ IDchannel'[s.id] = s.channel
               /\ SubID'[s.id] = s.user
               /\ \A r \in live' : r.conn = c /\ r.id = s.id => r = s
    <3>1. s \in live /\ s.id # i /\ s.id \in SubId
      BY <1>1, <2>1, <2>4
    <3>2. s \in Subscription /\ s.id \in UsedBy(c) /\ IDchannel[s.id] = s.channel
          /\ SubID[s.id] = s.user /\ \A r \in live : r.id = s.id => r = s
      BY <1>0, <2>4, <3>1 DEF IRecorded, Kept
    <3> QED BY <2>1, <2>2, <3>1, <3>2
  <2> QED BY <2>1, <2>2, <2>3, <2>4, JoinRecorded
<1> QED BY <1>2, <1>3, <1>4, <1>5, <1>6, <1>7
        DEF HandleUnsub, Unsubscribe, ReadSubID, RemoveUser

LEMMA RecordedStep == OwnIds /\ IInv /\ IRecorded /\ [CarefulNext]_vars => IRecorded'
<1> SUFFICES ASSUME OwnIds, IInv, IRecorded, [CarefulNext]_vars PROVE IRecorded'
  OBVIOUS
<1>1. CASE UNCHANGED vars
  <2>1. UNCHANGED <<SubID, IDchannel, live, pc, call>>
    BY <1>1 DEF vars, subscriptions, history
  <2>2. Minded' = Minded
    BY <2>1 DEF Minded, Holds
  <2>3. Kept'
    BY <2>1 DEF IRecorded, Kept
  <2> QED BY <2>2, <2>3 DEF IRecorded
<1>2. CASE CarefulNext
  <2>1. PICK c \in Conn : CarefulStep(c)
    BY <1>2, CarefulSteps
  <2>2. CASE \E f \in Script[c] : Careful(c, f) /\ Receive(c, f)
    BY <2>2, ReceiveRecorded
  <2>3. CASE \/ Accept(c) \/ Hangup(c) \/ HandleConnect(c) \/ HandleSend(c)
             \/ HandleDisconnect(c) \/ HandleOther(c)
    <3>1. /\ Apart(c) /\ UNCHANGED <<subscriptions, live>>
          /\ pc[c] \notin Changing /\ pc'[c] \notin Changing
      BY <2>3, OutsideDoes
    <3>2. pc[c] # "removeIDchannel"
      BY <3>1 DEF Changing, InUnsubscribe
    <3> QED BY <3>1, <3>2, OutsideMinded, QuietRecorded DEF subscriptions
  <2> QED BY <2>1, <2>2, <2>3, SubscribeRecorded, UnsubscribeRecorded
          DEF CarefulStep, Process
<1> QED BY <1>1, <1>2

(* The invariants of all clients are those of careful ones.                *)
LEMMA CarefulInv == IInv /\ [CarefulNext]_vars => IInv'
BY CarefulSteps, NextInv

LEMMA NoSubscriptions ==
  live = {} /\ (\A c \in Conn : pc[c] \in Resting) => IRecorded
<1> SUFFICES ASSUME live = {}, \A c \in Conn : pc[c] \in Resting PROVE IRecorded
  OBVIOUS
<1>1. Kept
  BY DEF Kept
<1>2. \A c \in Conn : c \in Minded
  BY DEF Minded, Changing, Resting, InSubscribe, InUnsubscribe
<1>3. Minded \subseteq Conn
  BY DEF Minded
<1> QED BY <1>1, <1>2, <1>3 DEF IRecorded

LEMMA Records == IRecorded => SubscriptionRecorded
BY DEF IRecorded, Kept, SubscriptionRecorded, InUnsubscribe

(* Clients with ids of their own that subscribe with an id they do not     *)
(* hold and unsubscribe with one they do find every acknowledged           *)
(* subscription in SubID and IDchannel, from an empty server on.           *)
THEOREM SubscriptionsRecorded ==
  ASSUME OwnIds PROVE CarefulSpec => []SubscriptionRecorded
<1>1. Init => IInv /\ IRecorded
  BY InitInv, NoSubscriptions DEF Init, Resting
<1>2. IInv /\ IRecorded /\ [CarefulNext]_vars => (IInv /\ IRecorded)'
  BY CarefulInv, RecordedStep
<1>3. IInv /\ IRecorded => SubscriptionRecorded
  BY Records
<1> QED BY <1>1, <1>2, <1>3, PTL DEF CarefulSpec

-----------------------------------------------------------------------------
(* The queues.                                                             *)

(* The channels have their queues, and no two the same one.                *)
Warm == /\ \A d \in Channel : channels[d] # Nil
        /\ \A d, e \in Channel : channels[d] = channels[e] => d = e
        /\ \A c \in Conn : pc[c] \notin {"putChannel", "putSubID"}

(* A subscription whose entry UNSUBSCRIBE has taken out of the queue.      *)
Leaving(s) == /\ pc[s.conn] \in {"removeSubID", "removeIDchannel"}
              /\ call[s.conn].frame.id = s.id

Entries(d, u) == {s \in live : s.user = u /\ s.channel = d /\ ~Leaving(s)}
Joining(d, u) == {c \in Conn : /\ pc[c] = "putIDchannel"
                               /\ call[c].name = u /\ call[c].dest = d}
Busy == {c \in Conn : pc[c] \notin Resting}

Balanced == /\ IsFiniteSet(live) /\ IsFiniteSet(Busy)
            /\ \A d \in Channel, u \in Login :
                 queues[channels[d]][u]
                   = Cardinality(Entries(d, u)) + Cardinality(Joining(d, u))

(* The server after the logins, see WarmInit.                              *)
LEMMA WarmStart ==
  ASSUME NEW own \in [Conn -> Login], \A u \in Login : \E c \in Conn : own[c] = u,
         NEW creator \in Conn, NEW passcode \in Pass, WarmInit(own, creator, passcode)
  PROVE  IInv /\ IRecorded /\ Warm /\ Balanced
<1> USE DEF WarmInit
<1>1. \A u \in Login : (CHOOSE c \in Conn : own[c] = u) \in Conn
  OBVIOUS
<1>2. /\ \A d \in Channel : <<creator, d>> \in QueueRef /\ <<creator, d>> # Nil
      /\ passcode # Nil /\ \A c \in Conn : c # Nil
  BY NilAssumption DEF QueueRef
<1>3. /\ \A d \in Channel : channels[d] = <<creator, d>>
      /\ \A c \in Conn : pc[c] = "idle" /\ call[c] = NoCall
      /\ \A q \in QueueRef : queues[q] = Empty /\ monitor[q] = Nil
      /\ \A c \in Conn : todo[c] = Empty
  OBVIOUS
<1>4. TypeOK
  <2>1. activeClients \in SUBSET Conn /\ users \in [Login -> Pass \cup {Nil}]
    OBVIOUS
  <2>2. userID \in [Login -> Conn \cup {Nil}] /\ loginID \in [Conn -> Login \cup {Nil}]
    BY <1>1
  <2>3. /\ SubID \in [SubId -> Login \cup {Nil}] /\ IDchannel \in [SubId -> Channel \cup {Nil}]
        /\ channels \in [Channel -> QueueRef \cup {Nil}]
    BY <1>2
  <2>4. /\ queues \in [QueueRef -> [Login -> Nat]] /\ todo \in [Conn -> [Login -> Nat]]
        /\ monitor \in [QueueRef -> Conn \cup {Nil}]
    BY DEF Empty
  <2>5. /\ terminate \in [Conn -> BOOLEAN] /\ sent \in [Conn -> Nat]
        /\ pc \in [Conn -> Label]
    BY DEF Label, Resting
  <2>6. call \in [Conn -> Call]
    BY DEF Call, NoCall
  <2> QED BY <2>1, <2>2, <2>3, <2>4, <2>5, <2>6 DEF TypeOK
<1>5. Sound = Conn
  BY <1>3 DEF Sound, InConnect, InSubscribe, InUnsubscribe, Broadcasting
<1>6. LoginBacked
  <2>1. \A u \in Login : users[u] # Nil /\ userID[u] # Nil
    BY <1>1, <1>2
  <2> QED BY <2>1 DEF LoginBacked
<1>7. ListedRouted
  BY <1>1, <1>2 DEF ListedRouted, Listed
<1>8. IDchannelHasQueue
  BY DEF IDchannelHasQueue
<1>9. MonitorHeldByBroadcast
  BY <1>2, <1>3 DEF MonitorHeldByBroadcast, Broadcasting
<1>10. IRecorded
  BY NoSubscriptions DEF Resting
<1>11. Warm
  <2>1. \A d, e \in Channel : channels[d] = channels[e] => d = e
    BY <1>3
  <2> QED BY <1>2, <1>3, <2>1 DEF Warm
<1>12. Balanced
  <2>1. /\ Busy = {} /\ live = {}
        /\ \A d, u : Entries(d, u) = {} /\ Joining(d, u) = {}
    BY <1>3 DEF Busy, Resting, Entries, Joining
  <2>2. IsFiniteSet(live) /\ IsFiniteSet(Busy) /\ Cardinality({}) = 0
    BY <2>1, FS_EmptySet
  <2>3. \A d \in Channel, u \in Login : queues[channels[d]][u] = 0
    BY <1>2, <1>3 DEF Empty
  <2>4. 0 + 0 = 0
    OBVIOUS
  <2> QED BY <2>1, <2>2, <2>3, <2>4, Zenon DEF Balanced
<1> QED BY <1>4, <1>5, <1>6, <1>7, <1>8, <1>9, <1>10, <1>11, <1>12 DEF IInv

(* No step puts another queue into channels.                               *)
LEMMA WarmStep == IInv /\ Warm /\ [Next]_vars => Warm' /\ UNCHANGED channels
<1> SUFFICES ASSUME IInv, Warm, [Next]_vars PROVE Warm' /\ UNCHANGED channels
  OBVIOUS
<1>1. ASSUME NEW c \in Conn, Apart(c), UNCHANGED channels,
             pc'[c] \notin {"putChannel", "putSubID"}
      PROVE  Warm' /\ UNCHANGED channels
  BY <1>1 DEF Warm, Apart
<1>2. CASE UNCHANGED vars
  BY <1>2 DEF vars, subscriptions, Warm
<1>3. CASE Next
  <2>1. PICK c \in Conn : \/ Accept(c) \/ Hangup(c) \/ Process(c)
                          \/ \E f \in Script[c] : Receive(c, f)
    BY <1>3 DEF Next
  <2>2. CASE \E f \in Script[c] : Receive(c, f)
    <3>1. PICK f \in Script[c] : Receive(c, f)
      BY <2>2
    <3>2. f \in Frame
      BY ScriptAssumption
    <3>3. FirstStep(f) \notin {"putChannel", "putSubID"}
      BY <3>2, FirstStepFits
    <3> DEFINE e == [call[c] EXCEPT !.frame = f]
               l == FirstStep(f)
    <3>4. Goto(c, l) /\ call' = [call EXCEPT ![c] = e] /\ UNCHANGED channels
      BY <3>1 DEF Receive, subscriptions
    <3> HIDE DEF l, e
    <3>5. Apart(c) /\ pc'[c] = l
      BY <3>4, GotoApart DEF IInv
    <3> QED BY <1>1, <3>3, <3>4, <3>5 DEF l
  <2>3. CASE \/ Accept(c) \/ Hangup(c) \/ HandleConnect(c) \/ HandleSend(c)
             \/ HandleDisconnect(c) \/ HandleOther(c)
    BY <1>1, <2>3, OutsideDoes DEF subscriptions, Changing, InSubscribe
  <2>4. CASE Dropped(c)
    BY <1>1, <2>4 DEF Dropped, subscriptions, Resting
  <2>5. CASE HandleSub(c) /\ ~Dropped(c)
    <3>1. CASE Subscribe(c)
      <4>1. /\ Apart(c) /\ UNCHANGED <<subscriptions, todo, live>>
            /\ call[c].frame.dest # Nil
            /\ pc'[c] = IF channels[call[c].frame.dest] = Nil THEN "putChannel"
                        ELSE "joinSubID"
        BY <2>5, <3>1, SubscribeDoes
      <4>2. call[c].frame.dest \in Channel
        BY <3>1, <4>1, FrameParts DEF Subscribe, InSubscribe
      <4> QED BY <1>1, <4>1, <4>2 DEF Warm, subscriptions
    <3>2. CASE PutChannel(c)
      BY <3>2 DEF PutChannel, Warm
    <3>3. CASE PutSubID(c)
      BY <1>1, <2>5, <3>3, PutSubIDDoes
    <3>4. CASE AddUser(c)
      BY <1>1, <3>4, AddUserDoes
    <3>5. CASE PutIDchannel(c)
      BY <1>1, <3>5, PutIDchannelDoes DEF Resting
    <3> QED BY <2>5, <3>1, <3>2, <3>3, <3>4, <3>5 DEF HandleSub
  <2>6. CASE HandleUnsub(c) /\ ~Dropped(c)
    <3>1. CASE Unsubscribe(c)
      BY <1>1, <2>6, <3>1, UnsubscribeDoes DEF subscriptions
    <3>2. CASE ReadSubID(c)
      BY <1>1, <2>6, <3>2, ReadSubIDDoes DEF subscriptions
    <3>3. CASE RemoveUser(c)
      BY <1>1, <2>6, <3>3, RemoveUserDoes
    <3>4. CASE RemoveSubID(c)
      BY <1>1, <3>4, RemoveSubIDDoes
    <3>5. CASE RemoveIDchannel(c)
      BY <1>1, <3>5, RemoveIDchannelDoes DEF Resting
    <3> QED BY <2>6, <3>1, <3>2, <3>3, <3>4, <3>5 DEF HandleUnsub
  <2> QED BY <2>1, <2>2, <2>3, <2>4, <2>5, <2>6 DEF Process
<1> QED BY <1>2, <1>3

-----------------------------------------------------------------------------
(* The balance of the queues and the subscriptions.                        *)

LEMMA EntriesCounted ==
  ASSUME Balanced, NEW d, NEW u
  PROVE  /\ IsFiniteSet(Entries(d, u)) /\ Cardinality(Entries(d, u)) \in Nat
         /\ IsFiniteSet(Joining(d, u)) /\ Cardinality(Joining(d, u)) \in Nat
<1>1. Entries(d, u) \subseteq live /\ Joining(d, u) \subseteq Busy
  BY DEF Entries, Joining, Busy, Resting
<1>2. IsFiniteSet(Entries(d, u)) /\ IsFiniteSet(Joining(d, u))
  BY <1>1, FS_Subset DEF Balanced
<1> QED BY <1>2, FS_CardinalityType

LEMMA BusyFinite ==
  ASSUME Balanced, NEW c \in Conn, Apart(c) PROVE IsFiniteSet(Busy')
<1>1. Busy' \subseteq Busy \cup {c}
  BY DEF Busy, Apart
<1>2. IsFiniteSet(Busy \cup {c})
  BY FS_AddElement DEF Balanced
<1> QED BY <1>1, <1>2, FS_Subset

(* A step of c that neither joins, nor enters or leaves the removal.       *)
LEMMA LeavingKept ==
  ASSUME IRecorded, NEW c \in Conn, Apart(c),
         pc[c] \in {"removeSubID", "removeIDchannel"}
           <=> pc'[c] \in {"removeSubID", "removeIDchannel"},
         pc[c] \in {"removeSubID", "removeIDchannel"} => call'[c] = call[c]
  PROVE  \A s \in live : Leaving(s)' <=> Leaving(s)
BY DEF IRecorded, Kept, Subscription, Apart, Leaving

LEMMA JoiningKept ==
  ASSUME NEW c \in Conn, Apart(c), pc[c] # "putIDchannel", pc'[c] # "putIDchannel"
  PROVE  \A d, u : Joining(d, u)' = Joining(d, u)
BY DEF Apart, Joining

LEMMA BalancedKept ==
  ASSUME Balanced, IRecorded, NEW c \in Conn, Apart(c), UNCHANGED <<queues, channels, live>>,
         pc[c] # "putIDchannel", pc'[c] # "putIDchannel",
         pc[c] \in {"removeSubID", "removeIDchannel"}
           <=> pc'[c] \in {"removeSubID", "removeIDchannel"},
         pc[c] \in {"removeSubID", "removeIDchannel"} => call'[c] = call[c]
  PROVE  Balanced'
<1>1. \A s \in live : Leaving(s)' <=> Leaving(s)
  BY LeavingKept
<1>2. \A d, u : Joining(d, u)' = Joining(d, u)
  BY JoiningKept
<1>3. \A d, u : Entries(d, u)' = Entries(d, u)
  BY <1>1 DEF Entries
<1>4. IsFiniteSet(Busy') /\ IsFiniteSet(live')
  BY BusyFinite DEF Balanced
<1>5. \A d \in Channel, u \in Login :
        queues'[channels'[d]][u]
          = Cardinality(Entries(d, u)') + Cardinality(Joining(d, u)')
  BY <1>2, <1>3 DEF Balanced
<1> QED BY <1>4, <1>5 DEF Balanced

(* One count of the queue of one channel changes.                          *)
LEMMA QueueChange ==
  ASSUME IInv, Warm, NEW d \in Channel, NEW u \in Login, NEW n \in Nat,
         queues' = [queues EXCEPT ![channels[d]][u] = n]
  PROVE  /\ queues'[channels[d]][u] = n
         /\ \A e \in Channel, v \in Login : e # d \/ v # u =>
              queues'[channels[e]][v] = queues[channels[e]][v]
<1>1. \A e \in Channel : channels[e] \in QueueRef
  BY DEF Warm, IInv, TypeOK
<1>2. queues \in [QueueRef -> [Login -> Nat]]
  BY DEF IInv, TypeOK
<1>3. PICK q \in QueueRef : q = channels[d]
  BY <1>1
<1>4. queues' = [queues EXCEPT ![q][u] = n]
  BY <1>3
<1>5. /\ queues'[q][u] = n
      /\ \A x \in QueueRef : \A y \in Login : x # q \/ y # u => queues'[x][y] = queues[x][y]
  BY <1>2, <1>4, EntryChange
<1> QED BY <1>1, <1>3, <1>5 DEF Warm

LEMMA AddUserBalanced ==
  ASSUME IInv, IRecorded, Warm, Balanced, NEW c \in Conn, AddUser(c) PROVE Balanced'
<1>1. PICK d, u : d = call[c].dest /\ u = call[c].name
  OBVIOUS
<1>2. /\ Apart(c) /\ pc[c] = "addUser" /\ pc'[c] = "putIDchannel" /\ call'[c] = call[c]
      /\ queues' = [queues EXCEPT ![channels[d]][u] = @ + 1]
      /\ UNCHANGED <<channels, live>>
  BY <1>1, AddUserDoes DEF AddUser
<1>3. d \in Channel /\ u \in Login
  BY <1>1, <1>2, FrameParts
<1>4. PICK m \in Nat : m = queues[channels[d]][u]
  BY <1>3 DEF IInv, TypeOK, Warm
<1>5. m + 1 \in Nat /\ queues' = [queues EXCEPT ![channels[d]][u] = m + 1]
  BY <1>2, <1>4
<1>6. /\ queues'[channels[d]][u] = m + 1
      /\ \A e \in Channel, v \in Login : e # d \/ v # u =>
           queues'[channels[e]][v] = queues[channels[e]][v]
  BY <1>3, <1>5, QueueChange
<1>7. \A e, v : Entries(e, v)' = Entries(e, v)
  BY <1>2, LeavingKept DEF Entries
<1>8. /\ c \notin Joining(d, u) /\ Joining(d, u)' = Joining(d, u) \cup {c}
      /\ \A e, v : e # d \/ v # u => Joining(e, v)' = Joining(e, v)
  BY <1>1, <1>2 DEF Joining, Apart
<1>9. Cardinality(Joining(d, u)') = Cardinality(Joining(d, u)) + 1
  BY <1>8, EntriesCounted, FS_AddElement
<1>10. ASSUME NEW e \in Channel, NEW v \in Login
       PROVE  queues'[channels'[e]][v]
                = Cardinality(Entries(e, v)') + Cardinality(Joining(e, v)')
  <2>1. CASE e # d \/ v # u
    BY <1>2, <1>6, <1>7, <1>8, <2>1 DEF Balanced
  <2>2. CASE e = d /\ v = u
    <3>1. \A a, b, k \in Nat : k = a + b => k + 1 = a + (b + 1)
      OBVIOUS
    <3>2. m = Cardinality(Entries(d, u)) + Cardinality(Joining(d, u))
      BY <1>3, <1>4 DEF Balanced
    <3>3. m + 1 = Cardinality(Entries(d, u)) + (Cardinality(Joining(d, u)) + 1)
      BY <3>1, <3>2, EntriesCounted
    <3> QED BY <1>2, <1>6, <1>7, <1>9, <2>2, <3>3
  <2> QED BY <2>1, <2>2
<1>11. IsFiniteSet(Busy') /\ IsFiniteSet(live')
  BY <1>2, BusyFinite DEF Balanced
<1> QED BY <1>10, <1>11 DEF Balanced

LEMMA PutIDchannelBalanced ==
  ASSUME IInv, IRecorded, Warm, Balanced, NEW c \in Conn, PutIDchannel(c) PROVE Balanced'
<1>1. PICK i, d, u : i = call[c].frame.id /\ d = call[c].dest /\ u = call[c].name
  OBVIOUS
<1>2. PICK new : new = [conn |-> c, id |-> i, user |-> u, channel |-> d]
  OBVIOUS
<1>3. /\ Apart(c) /\ pc[c] = "putIDchannel" /\ pc'[c] \in Resting
      /\ live' = live \cup {new} /\ UNCHANGED <<channels, queues>>
  BY <1>1, <1>2, PutIDchannelDoes DEF PutIDchannel
<1>4. d \in Channel /\ u \in Login
  BY <1>1, <1>3, FrameParts
<1>5. new \notin live
  BY <1>1, <1>2, <1>3 DEF IRecorded, Minded, InSubscribe, Holds
<1>6. \A s \in live : Leaving(s)' <=> Leaving(s)
  BY <1>3, LeavingKept DEF Resting
<1>7. ~Leaving(new)' /\ new.user = u /\ new.channel = d
  BY <1>2, <1>3 DEF Leaving, Resting
<1>8. /\ Entries(d, u)' = Entries(d, u) \cup {new} /\ new \notin Entries(d, u)
      /\ \A e, v : e # d \/ v # u => Entries(e, v)' = Entries(e, v)
  BY <1>3, <1>5, <1>6, <1>7 DEF Entries
<1>9. /\ c \in Joining(d, u) /\ Joining(d, u)' = Joining(d, u) \ {c}
      /\ \A e, v : e # d \/ v # u => Joining(e, v)' = Joining(e, v)
  BY <1>1, <1>3 DEF Joining, Apart, Resting
<1>10. PICK a \in Nat, b \in Nat :
         a = Cardinality(Entries(d, u)) /\ b = Cardinality(Joining(d, u))
  BY EntriesCounted
<1>11. Cardinality(Entries(d, u)') = a + 1
  <2>1. IsFiniteSet(Entries(d, u))
    BY EntriesCounted
  <2>2. Cardinality(Entries(d, u) \cup {new}) = Cardinality(Entries(d, u)) + 1
    BY <1>8, <2>1, FS_AddElement
  <2> QED BY <1>8, <1>10, <2>2
<1>12. Cardinality(Joining(d, u)') = b - 1 /\ b # 0
  BY <1>9, <1>10, EntriesCounted, FS_RemoveElement, FS_EmptySet
<1>13. ASSUME NEW e \in Channel, NEW v \in Login
       PROVE  queues'[channels'[e]][v]
                = Cardinality(Entries(e, v)') + Cardinality(Joining(e, v)')
  <2>1. CASE e # d \/ v # u
    BY <1>3, <1>8, <1>9, <2>1 DEF Balanced
  <2>2. CASE e = d /\ v = u
    <3>1. queues[channels[d]][u] = a + b
      BY <1>4, <1>10 DEF Balanced
    <3>2. a + b = (a + 1) + (b - 1)
      BY <1>10, <1>12
    <3> QED BY <1>3, <1>11, <1>12, <2>2, <3>1, <3>2
  <2> QED BY <2>1, <2>2
<1>14. IsFiniteSet(Busy') /\ IsFiniteSet(live')
  BY <1>3, BusyFinite, FS_AddElement DEF Balanced
<1> QED BY <1>13, <1>14 DEF Balanced

(* UNSUBSCRIBE finds the subscription that the client holds.               *)
LEMMA RemoveUserFinds ==
  ASSUME IInv, IRecorded, Warm, NEW c \in Conn, RemoveUser(c)
  PROVE  /\ pc[c] = "removeUser"
         /\ call[c].dest \in Channel /\ call[c].name \in Login
         /\ channels[call[c].dest] # Nil /\ call[c].dest # Nil
         /\ \E s \in live :
              /\ s.conn = c /\ s.id = call[c].frame.id /\ ~Leaving(s)
              /\ s.channel = call[c].dest /\ s.user = call[c].name
              /\ \A r \in live : r.id = s.id => r = s
<1>1. PICK i, d, u : i = call[c].frame.id /\ d = call[c].dest /\ u = call[c].name
  OBVIOUS
<1>2. pc[c] = "removeUser" /\ c \in Minded
  BY DEF RemoveUser, IRecorded
<1>3. Holds(c, i) /\ d = IDchannel[i] /\ u = SubID[i]
  BY <1>1, <1>2 DEF Minded, InUnsubscribe
<1>4. PICK s \in live : s.conn = c /\ s.id = i
  BY <1>3 DEF Holds
<1>5. /\ s.channel = d /\ s.user = u /\ s \in Subscription
      /\ \A r \in live : r.id = i => r = s
  BY <1>2, <1>3, <1>4 DEF IRecorded, Kept
<1>6. d \in Channel /\ u \in Login /\ channels[d] # Nil /\ d # Nil
  BY <1>5, NilAssumption DEF Subscription, Warm
<1>7. ~Leaving(s)
  BY <1>2, <1>4 DEF Leaving
<1> QED BY <1>1, <1>2, <1>4, <1>5, <1>6, <1>7

LEMMA RemoveUserBalanced ==
  ASSUME IInv, IRecorded, Warm, Balanced, NEW c \in Conn, RemoveUser(c) PROVE Balanced'
<1>1. PICK i, d, u : i = call[c].frame.id /\ d = call[c].dest /\ u = call[c].name
  OBVIOUS
<1>2. /\ pc[c] = "removeUser"
      /\ d \in Channel /\ u \in Login /\ channels[d] # Nil /\ d # Nil
  BY <1>1, RemoveUserFinds
<1>3. PICK s \in live : /\ s.conn = c /\ s.id = i /\ ~Leaving(s)
                        /\ s.channel = d /\ s.user = u
                        /\ \A r \in live : r.id = i => r = s
  BY <1>1, RemoveUserFinds
<1>4. /\ Apart(c) /\ pc'[c] = "removeSubID" /\ call'[c] = call[c]
      /\ queues' = [queues EXCEPT ![channels[d]][u] = OneLess(@)]
      /\ UNCHANGED <<channels, live>>
  BY <1>1, <1>2, RemoveUserDoes
<1>5. \A r \in live : Leaving(r)' <=> Leaving(r) \/ r = s
  <2>1. ASSUME NEW r \in live PROVE r.conn \in Conn
    BY DEF IRecorded, Kept, Subscription
  <2>2. ASSUME NEW r \in live, r.conn # c PROVE Leaving(r)' <=> Leaving(r) \/ r = s
    BY <1>3, <1>4, <2>1, <2>2 DEF Leaving, Apart
  <2>3. ASSUME NEW r \in live, r.conn = c PROVE Leaving(r)' <=> r = s
    BY <1>1, <1>3, <1>4, <2>3 DEF Leaving
  <2>4. ASSUME NEW r \in live, r.conn = c PROVE ~Leaving(r)
    BY <1>2, <2>4 DEF Leaving
  <2> QED BY <2>2, <2>3, <2>4
<1>6. /\ s \in Entries(d, u) /\ Entries(d, u)' = Entries(d, u) \ {s}
       /\ \A e, v : e # d \/ v # u => Entries(e, v)' = Entries(e, v)
  BY <1>3, <1>4, <1>5 DEF Entries
<1>7. \A e, v : Joining(e, v)' = Joining(e, v)
  BY <1>2, <1>4, JoiningKept
<1>8. PICK a \in Nat, b \in Nat :
         a = Cardinality(Entries(d, u)) /\ b = Cardinality(Joining(d, u))
  BY EntriesCounted
<1>9. Cardinality(Entries(d, u)') = a - 1 /\ a # 0
  BY <1>6, <1>8, EntriesCounted, FS_RemoveElement, FS_EmptySet
<1>10. queues[channels[d]][u] = a + b
  BY <1>2, <1>8 DEF Balanced
<1>11. OneLess(a + b) = a + b - 1 /\ a + b - 1 \in Nat /\ a + b - 1 = (a - 1) + b
  BY <1>8, <1>9 DEF OneLess
<1>12. queues' = [queues EXCEPT ![channels[d]][u] = a + b - 1]
  BY <1>4, <1>10, <1>11
<1>13. /\ queues'[channels[d]][u] = a + b - 1
       /\ \A e \in Channel, v \in Login : e # d \/ v # u =>
            queues'[channels[e]][v] = queues[channels[e]][v]
  BY <1>2, <1>11, <1>12, QueueChange
<1>14. ASSUME NEW e \in Channel, NEW v \in Login
       PROVE  queues'[channels'[e]][v]
                = Cardinality(Entries(e, v)') + Cardinality(Joining(e, v)')
  <2>1. CASE e # d \/ v # u
    BY <1>4, <1>6, <1>7, <1>13, <2>1 DEF Balanced
  <2>2. CASE e = d /\ v = u
    BY <1>4, <1>7, <1>8, <1>9, <1>11, <1>13, <2>2
  <2> QED BY <2>1, <2>2
<1>15. IsFiniteSet(Busy') /\ IsFiniteSet(live')
  BY <1>4, BusyFinite DEF Balanced
<1> QED BY <1>14, <1>15 DEF Balanced

LEMMA RemoveIDchannelBalanced ==
  ASSUME IInv, IRecorded, Warm, Balanced, NEW c \in Conn, RemoveIDchannel(c)
  PROVE  Balanced'
<1>1. PICK i : i = call[c].frame.id
  OBVIOUS
<1>2. /\ Apart(c) /\ pc[c] = "removeIDchannel" /\ pc'[c] \in Resting
      /\ live' = {s \in live : s.conn # c \/ s.id # i} /\ UNCHANGED <<channels, queues>>
  BY <1>1, RemoveIDchannelDoes DEF RemoveIDchannel
<1>3. ASSUME NEW s \in live PROVE s \in live' /\ ~Leaving(s)' <=> ~Leaving(s)
  <2>1. s.conn \in Conn
    BY DEF IRecorded, Kept, Subscription
  <2>2. CASE s.conn = c
    BY <1>1, <1>2, <2>2 DEF Leaving, Resting
  <2>3. CASE s.conn # c
    BY <1>2, <2>1, <2>3 DEF Leaving, Apart
  <2> QED BY <2>2, <2>3
<1>4. \A e, v : Entries(e, v)' = Entries(e, v)
  BY <1>2, <1>3 DEF Entries
<1>5. \A e, v : Joining(e, v)' = Joining(e, v)
  BY <1>2, JoiningKept DEF Resting
<1>6. IsFiniteSet(Busy') /\ IsFiniteSet(live')
  BY <1>2, BusyFinite, FS_Subset DEF Balanced
<1>7. \A e \in Channel, v \in Login :
        queues'[channels'[e]][v]
          = Cardinality(Entries(e, v)') + Cardinality(Joining(e, v)')
  BY <1>2, <1>4, <1>5 DEF Balanced
<1> QED BY <1>6, <1>7 DEF Balanced

LEMMA BalancedStep ==
  IInv /\ IRecorded /\ Warm /\ Balanced /\ [CarefulNext]_vars => Balanced'
<1> SUFFICES ASSUME IInv, IRecorded, Warm, Balanced, [CarefulNext]_vars PROVE Balanced'
  OBVIOUS
<1>1. CASE UNCHANGED vars
  <2>1. UNCHANGED <<queues, channels, live, pc, call>>
    BY <1>1 DEF vars, subscriptions, history
  <2> QED BY <2>1 DEF Balanced, Entries, Joining, Leaving, Busy
<1>2. CASE CarefulNext
  <2>1. PICK c \in Conn : CarefulStep(c)
    BY <1>2, CarefulSteps
  <2>0. ASSUME Apart(c), UNCHANGED <<subscriptions, live>>,
               pc[c] \notin {"putIDchannel", "removeSubID", "removeIDchannel"},
               pc'[c] \notin {"putIDchannel", "removeSubID", "removeIDchannel"}
        PROVE  Balanced'
    BY <2>0, BalancedKept DEF subscriptions
  <2>2. CASE \E f \in Script[c] : Careful(c, f) /\ Receive(c, f)
    <3>1. PICK f \in Script[c] : Receive(c, f)
      BY <2>2
    <3>2. f \in Frame
      BY ScriptAssumption
    <3>3. FirstStep(f) \notin {"putIDchannel", "removeSubID", "removeIDchannel"}
      BY <3>2, FirstStepFits
    <3> DEFINE e == [call[c] EXCEPT !.frame = f]
               l == FirstStep(f)
    <3>4. /\ Goto(c, l) /\ call' = [call EXCEPT ![c] = e] /\ UNCHANGED <<subscriptions, live>>
          /\ pc[c] = "idle"
      BY <3>1 DEF Receive, history
    <3> HIDE DEF l, e
    <3>5. Apart(c) /\ pc'[c] = l
      BY <3>4, GotoApart DEF IInv
    <3> QED BY <2>0, <3>3, <3>4, <3>5 DEF l
  <2>3. CASE \/ Accept(c) \/ Hangup(c) \/ HandleConnect(c) \/ HandleSend(c)
             \/ HandleDisconnect(c) \/ HandleOther(c)
    BY <2>0, <2>3, OutsideDoes DEF Changing, InSubscribe, InUnsubscribe
  <2>4. CASE Dropped(c) /\ pc[c] \notin {"putIDchannel", "removeSubID", "removeIDchannel"}
    BY <2>0, <2>4 DEF Dropped, Resting
  <2>5. CASE Subscribe(c) \/ PutSubID(c)
    <3>1. CASE Subscribe(c) /\ ~Dropped(c)
      <4>1. /\ Apart(c) /\ UNCHANGED <<subscriptions, live>>
            /\ pc'[c] \notin {"putIDchannel", "removeSubID", "removeIDchannel"}
            /\ pc[c] = "subscribe"
        BY <3>1, SubscribeDoes DEF Subscribe
      <4> QED BY <2>0, <4>1
    <3>2. CASE PutSubID(c) /\ ~Dropped(c)
      <4>1. /\ Apart(c) /\ UNCHANGED <<queues, channels, live>>
            /\ pc[c] \in {"putSubID", "joinSubID"} /\ pc[c] # "putSubID"
            /\ pc'[c] = "addUser"
        BY <3>2, PutSubIDDoes DEF PutSubID, Warm
      <4> QED BY <4>1, BalancedKept
    <3> QED BY <2>4, <2>5, <3>1, <3>2 DEF Subscribe, PutSubID
  <2>6. CASE PutChannel(c)
    BY <2>6 DEF PutChannel, Warm
  <2>7. CASE Unsubscribe(c) \/ ReadSubID(c)
    <3>1. Dropped(c) \/ (Apart(c) /\ UNCHANGED <<subscriptions, live>>
                         /\ pc'[c] \in {"readSubID", "removeUser"})
      BY <2>7, UnsubscribeDoes, ReadSubIDDoes
    <3>2. pc[c] \in {"unsubscribe", "readSubID"}
      BY <2>7 DEF Unsubscribe, ReadSubID
    <3> QED BY <2>0, <2>4, <3>1, <3>2
  <2>8. CASE RemoveSubID(c)
    <3>1. pc[c] = "removeSubID"
      BY <2>8 DEF RemoveSubID
    <3> QED BY <2>8, <3>1, RemoveSubIDDoes, BalancedKept
  <2>9. CASE AddUser(c) \/ PutIDchannel(c) \/ RemoveUser(c) \/ RemoveIDchannel(c)
    BY <2>9, AddUserBalanced, PutIDchannelBalanced, RemoveUserBalanced,
       RemoveIDchannelBalanced
  <2> QED BY <2>1, <2>2, <2>3, <2>5, <2>6, <2>7, <2>8, <2>9
          DEF CarefulStep, Process, HandleSub, HandleUnsub
<1> QED BY <1>1, <1>2

-----------------------------------------------------------------------------
(* What the balance says to the outside.                                   *)

InWarm == IInv /\ IRecorded /\ Warm /\ Balanced

LEMMA InWarmStep == OwnIds /\ InWarm /\ [CarefulNext]_vars => InWarm'
<1>1. [CarefulNext]_vars => [Next]_vars
  BY CarefulSteps
<1> QED BY <1>1, CarefulInv, RecordedStep, WarmStep, BalancedStep DEF InWarm

(* The acknowledged subscriptions to d of u that are being taken back, one *)
(* for each connection that takes one back.                                *)
LEMMA LeavingCounted ==
  ASSUME InWarm, NEW d \in Channel, NEW u \in Login,
         NEW L, L = {s \in live : s.user = u /\ s.channel = d /\ Leaving(s)}
  PROVE  Cardinality(L) = Cardinality(Doing({"removeSubID", "removeIDchannel"}, d, u))
<1>0. PICK D : D = Doing({"removeSubID", "removeIDchannel"}, d, u)
  OBVIOUS
<1>1. ASSUME NEW c \in Conn, pc[c] \in {"removeSubID", "removeIDchannel"}
      PROVE  \E s \in live : /\ s.conn = c /\ Leaving(s)
                             /\ s.user = call[c].name /\ s.channel = call[c].dest
  <2>1. PICK i : i = call[c].frame.id
    OBVIOUS
  <2>2. /\ c \in Minded /\ pc[c] \in InUnsubscribe /\ pc[c] # "unsubscribe"
    BY <1>1 DEF InWarm, IRecorded, InUnsubscribe
  <2>3. Holds(c, i) /\ call[c].dest = IDchannel[i]
    BY <2>1, <2>2 DEF Minded
  <2>4. PICK s \in live : s.conn = c /\ s.id = i
    BY <2>3 DEF Holds
  <2>5. s.channel = call[c].dest
    BY <2>3, <2>4 DEF InWarm, IRecorded, Kept
  <2>6. CASE pc[c] = "removeSubID"
    <3>1. call[c].name = SubID[i]
      BY <2>1, <2>2, <2>6 DEF Minded
    <3>2. SubID[i] = s.user
      BY <2>4, <2>6 DEF InWarm, IRecorded, Kept
    <3> QED BY <1>1, <2>1, <2>4, <2>5, <3>1, <3>2 DEF Leaving
  <2>7. CASE pc[c] = "removeIDchannel"
    <3>1. call[c].name = s.user
      BY <2>1, <2>2, <2>4, <2>7 DEF Minded
    <3> QED BY <1>1, <2>1, <2>4, <2>5, <3>1 DEF Leaving
  <2> QED BY <1>1, <2>6, <2>7
<1>2. \A s \in live : s.conn \in Conn /\ \A r \in live : r.id = s.id => r = s
  BY DEF InWarm, IRecorded, Kept, Subscription
<1>3. \A r, s \in L : r.conn = s.conn => r = s
  BY <1>2 DEF Leaving
<1>4. \A s \in L : s.conn \in D
  <2>1. ASSUME NEW s \in L PROVE s.conn \in D
    <3>1. s \in live /\ s.user = u /\ s.channel = d /\ Leaving(s) /\ s.conn \in Conn
      BY <1>2
    <3>2. PICK r \in live : /\ r.conn = s.conn /\ Leaving(r)
                            /\ r.user = call[s.conn].name /\ r.channel = call[s.conn].dest
      BY <1>1, <3>1 DEF Leaving
    <3>3. r.id = s.id
      BY <3>1, <3>2 DEF Leaving
    <3>4. r = s
      BY <1>2, <3>3
    <3> QED BY <1>0, <3>1, <3>2, <3>4 DEF Leaving, Doing
  <2> QED BY <2>1
<1>5. \A c \in D : \E s \in L : s.conn = c
  BY <1>0, <1>1 DEF Doing
<1>6. IsFiniteSet(L)
  BY FS_Subset DEF InWarm, Balanced
<1> DEFINE f == [s \in L |-> s.conn]
<1>7. f \in [L -> D]
  BY <1>4
<1>8. f \in Bijection(L, D)
  BY <1>3, <1>5, <1>7, Fun_IsBij
<1>9. ExistsBijection(L, D)
  BY <1>8 DEF ExistsBijection
<1> QED BY <1>0, <1>6, <1>9, FS_Bijection

LEMMA Matches == InWarm => QueueMatchesSubscriptions
<1> SUFFICES ASSUME InWarm, NEW d \in Channel, NEW u \in Login
             PROVE  queues[channels[d]][u]
                      + Cardinality(Doing({"removeSubID", "removeIDchannel"}, d, u))
                    = Cardinality({s \in live : s.user = u /\ s.channel = d})
                      + Cardinality(Doing({"putSubID", "putIDchannel"}, d, u))
  BY DEF QueueMatchesSubscriptions
<1>1. PICK L : L = {s \in live : s.user = u /\ s.channel = d /\ Leaving(s)}
  OBVIOUS
<1>2. Cardinality(L) = Cardinality(Doing({"removeSubID", "removeIDchannel"}, d, u))
  BY <1>1, LeavingCounted
<1>3. Doing({"putSubID", "putIDchannel"}, d, u) = Joining(d, u)
  BY DEF Doing, Joining, InWarm, Warm
<1>4. /\ {s \in live : s.user = u /\ s.channel = d} = Entries(d, u) \cup L
      /\ Entries(d, u) \cap L = {}
  BY <1>1 DEF Entries
<1>5. IsFiniteSet(L) /\ IsFiniteSet(Entries(d, u))
  BY <1>1, FS_Subset, EntriesCounted DEF InWarm, Balanced
<1>6. PICK a \in Nat, b \in Nat, n \in Nat :
        /\ a = Cardinality(Entries(d, u)) /\ b = Cardinality(Joining(d, u))
        /\ n = Cardinality(L)
  BY <1>5, EntriesCounted, FS_CardinalityType DEF InWarm
<1>7. Cardinality(Entries(d, u) \cup L) = a + n
  <2>1. Cardinality({}) = 0
    BY FS_EmptySet
  <2>2. Cardinality(Entries(d, u) \cup L)
          = Cardinality(Entries(d, u)) + Cardinality(L) - Cardinality(Entries(d, u) \cap L)
    BY <1>5, FS_Union
  <2>3. a + n - 0 = a + n
    OBVIOUS
  <2> QED BY <1>4, <1>6, <2>1, <2>2, <2>3
<1>8. queues[channels[d]][u] = a + b
  BY <1>6 DEF InWarm, Balanced
<1>9. (a + b) + n = (a + n) + b
  OBVIOUS
<1> QED BY <1>2, <1>3, <1>4, <1>6, <1>7, <1>8, <1>9, Zenon

LEMMA WarmListed == InWarm => SubscribersListed
<1> SUFFICES ASSUME InWarm, NEW s \in live, pc[s.conn] \notin InUnsubscribe
             PROVE  queues[channels[s.channel]][s.user] > 0
  BY DEF SubscribersListed
<1>1. s.channel \in Channel /\ s.user \in Login
  BY DEF InWarm, IRecorded, Kept, Subscription
<1>2. s \in Entries(s.channel, s.user)
  BY DEF Entries, Leaving, InUnsubscribe
<1>3. PICK a \in Nat, b \in Nat : /\ a = Cardinality(Entries(s.channel, s.user))
                                  /\ b = Cardinality(Joining(s.channel, s.user))
  BY EntriesCounted DEF InWarm
<1>4. a # 0
  BY <1>2, <1>3, EntriesCounted, FS_EmptySet DEF InWarm
<1>5. queues[channels[s.channel]][s.user] = a + b
  BY <1>1, <1>3 DEF InWarm, Balanced
<1>6. a + b > 0
  BY <1>4
<1> QED BY <1>5, <1>6

(* The clients of these theorems: ids of their own, and a user behind      *)
(* every login.                                                            *)
LEMMA WarmInvariant ==
  ASSUME OwnIds, NEW own \in [Conn -> Login], \A u \in Login : \E c \in Conn : own[c] = u,
         NEW creator \in Conn, NEW passcode \in Pass
  PROVE  WarmInit(own, creator, passcode) /\ [][CarefulNext]_vars => []InWarm
<1>1. WarmInit(own, creator, passcode) => InWarm
  BY WarmStart DEF InWarm
<1>2. InWarm /\ [CarefulNext]_vars => InWarm'
  BY InWarmStep
<1> QED BY <1>1, <1>2, PTL

(* Once every login is known and every channel has its queue, a queue      *)
(* lists a login exactly as often as careful clients have been told it is  *)
(* subscribed, give or take the frames in progress, whatever the number of *)
(* clients that subscribe, unsubscribe and leave at the same time.         *)
THEOREM QueuesMatch ==
  ASSUME OwnIds, NEW own \in [Conn -> Login], \A u \in Login : \E c \in Conn : own[c] = u,
         NEW creator \in Conn, NEW passcode \in Pass
  PROVE  WarmInit(own, creator, passcode) /\ [][CarefulNext]_vars
           => []QueueMatchesSubscriptions
BY Matches, WarmInvariant, PTL

(* Then no acknowledged subscriber is missing from the queue, which it may *)
(* be when two clients create the channel at the same time.                *)
THEOREM WarmSubscribersListed ==
  ASSUME OwnIds, NEW own \in [Conn -> Login], \A u \in Login : \E c \in Conn : own[c] = u,
         NEW creator \in Conn, NEW passcode \in Pass
  PROVE  WarmInit(own, creator, passcode) /\ [][CarefulNext]_vars => []SubscribersListed
BY WarmListed, WarmInvariant, PTL

-----------------------------------------------------------------------------
(* The order of the messages.                                              *)

(* What the broadcasts of a channel rely on: the queue one of them locks   *)
(* is the one that all of them lock.                                       *)
Locked == \A c \in Conn :
  pc[c] \in Broadcasting \cup {"acquire"} => call[c].lock = channels[call[c].frame.dest]

Msg == [channel : Channel, from : Conn, n : Nat, copy : {"broadcast", "response"}]

(* Where the thread of a connection may be once its message was handed     *)
(* over: in the broadcast, or past it.                                     *)
Past == Broadcasting \cup {"respond"} \cup Resting

(* A message in an outbox is one its publisher has sent so far.            *)
Numbered ==
  /\ outbox \in [Conn -> Seq(Msg)]
  /\ \A k \in Conn : \A a \in DOMAIN outbox[k] :
       /\ outbox[k][a].n <= sent[outbox[k][a].from]
       /\ outbox[k][a].n = sent[outbox[k][a].from] =>
            pc[outbox[k][a].from] \in Past

(* No other broadcast's copy follows the message of a broadcast under way  *)
(* on its channel.                                                         *)
Last ==
  \A c \in Conn : pc[c] \in Broadcasting =>
    \A k \in Conn : \A a, b \in DOMAIN outbox[k] :
      /\ a < b /\ outbox[k][a] = Message(c) /\ outbox[k][b].copy = "broadcast"
      /\ outbox[k][b].channel = call[c].frame.dest
      => outbox[k][b] = Message(c)

IOrder == Locked /\ Numbered /\ Last /\ OrderAgreement

(* The steps outside of the broadcast of a message.                        *)
LEMMA ElsewhereDoes ==
  ASSUME IInv, NEW c \in Conn,
         \/ Accept(c) \/ Hangup(c) \/ HandleConnect(c) \/ HandleSub(c) \/ HandleUnsub(c)
         \/ HandleDisconnect(c) \/ HandleOther(c)
  PROVE  /\ Apart(c) /\ UNCHANGED <<sent, outbox>>
         /\ pc[c] \notin Broadcasting \cup {"respond"}
         /\ pc[c] \in Resting => pc'[c] \in Resting
         /\ pc'[c] \notin Broadcasting \cup {"acquire"}
<1>1. CASE Accept(c) \/ Hangup(c)
  BY <1>1, StepApart DEF Accept, Hangup, history, Broadcasting, Resting, IInv
<1>2. CASE HandleDisconnect(c) \/ HandleOther(c)
  <2>1. Rests(c) /\ UNCHANGED <<sent, outbox>> /\ pc[c] \in {"disconnect", "other"}
    BY <1>2, ReturnRests, ThrowRests, DisconnectKeeps
    DEF HandleDisconnect, HandleOther, history, IInv
  <2> QED BY <2>1, RestsApart DEF Broadcasting, Resting, IInv
<1>3. CASE HandleConnect(c)
  <2>1. pc[c] \in InConnect /\ UNCHANGED <<sent, outbox>>
    BY <1>3 DEF HandleConnect, Connect, PutUser, PutUserID, PutLoginID, InConnect, history
  <2>2. Rests(c) \/ \E l \in {"putUser", "putUserID", "putLoginID"} : Step(c, l)
    BY <1>3, ReturnRests, DisconnectKeeps
    DEF HandleConnect, Connect, PutUser, PutUserID, PutLoginID, IInv
  <2>3. Apart(c) /\ pc'[c] \in Resting \cup InConnect
    BY <2>2, RestsApart, StepApart DEF InConnect, IInv
  <2> QED BY <2>1, <2>3 DEF Broadcasting, Resting, InConnect
<1>4. CASE HandleSub(c)
  <2>1. pc[c] \in InSubscribe /\ UNCHANGED <<sent, outbox>>
    BY <1>4 DEF HandleSub, Subscribe, PutChannel, PutSubID, AddUser, PutIDchannel, InSubscribe
  <2>2. Apart(c) /\ pc'[c] \in Resting \cup InSubscribe
    BY <1>4, SubscribeDoes, PutChannelDoes, PutSubIDDoes, AddUserDoes, PutIDchannelDoes
    DEF HandleSub, Dropped, InSubscribe
  <2> QED BY <2>1, <2>2 DEF Broadcasting, Resting, InSubscribe
<1>5. CASE HandleUnsub(c)
  <2>1. pc[c] \in InUnsubscribe /\ UNCHANGED <<sent, outbox>>
    BY <1>5 DEF HandleUnsub, Unsubscribe, ReadSubID, RemoveUser, RemoveSubID, RemoveIDchannel,
                InUnsubscribe
  <2>2. Apart(c) /\ pc'[c] \in Resting \cup InUnsubscribe
    BY <1>5, UnsubscribeDoes, ReadSubIDDoes, RemoveUserDoes, RemoveSubIDDoes,
       RemoveIDchannelDoes
    DEF HandleUnsub, Dropped, InUnsubscribe
  <2> QED BY <2>1, <2>2 DEF Broadcasting, Resting, InUnsubscribe
<1> QED BY <1>1, <1>2, <1>3, <1>4, <1>5

(* The steps of a broadcast: from the first reading of channels on, frame  *)
(* and lock stay.                                                          *)
LEMMA SendDoes ==
  ASSUME IInv, NEW c \in Conn, HandleSend(c)
  PROVE  /\ Apart(c) /\ UNCHANGED <<subscriptions, sent>>
         /\ \/ /\ pc[c] \in Broadcasting \cup {"send", "respond"}
               /\ pc'[c] \in Resting \cup {"respond"}
            \/ /\ pc[c] = "send" /\ pc'[c] = "acquire"
               /\ call'[c].frame = call[c].frame
               /\ call'[c].lock = channels[call[c].frame.dest]
            \/ /\ pc[c] \in Broadcasting \cup {"acquire"} /\ pc'[c] \in Broadcasting
               /\ call'[c].frame = call[c].frame /\ call'[c].lock = call[c].lock
<1> USE DEF IInv
<1>0. UNCHANGED <<subscriptions, sent>> /\ call[c] \in Call
  BY DEF HandleSend, TypeOK
<1>1. CASE Send(c)
  <2> DEFINE e == [call[c] EXCEPT !.lock = channels[call[c].frame.dest]]
  <2>1. /\ pc[c] = "send"
        /\ \/ DisconnectAndReturn(c) \/ Throw(c)
           \/ call' = [call EXCEPT ![c] = e] /\ Goto(c, "acquire")
    BY <1>1 DEF Send
  <2>2. e.frame = call[c].frame /\ e.lock = channels[call[c].frame.dest]
    BY <1>0 DEF Call
  <2> HIDE DEF e
  <2>3. \/ Apart(c) /\ pc'[c] \in Resting
        \/ Apart(c) /\ pc'[c] = "acquire" /\ call'[c] = e
    BY <2>1, ThrowRests, DisconnectKeeps, RestsApart, GotoApart
  <2> QED BY <1>0, <2>1, <2>2, <2>3
<1>2. CASE Acquire(c)
  <2> DEFINE e == [call[c] EXCEPT !.iter = channels[call[c].frame.dest]]
  <2>1. call' = [call EXCEPT ![c] = e] /\ Goto(c, "next") /\ pc[c] = "acquire"
    BY <1>2 DEF Acquire
  <2>2. e.frame = call[c].frame /\ e.lock = call[c].lock
    BY <1>0 DEF Call
  <2> HIDE DEF e
  <2>3. Apart(c) /\ pc'[c] = "next" /\ call'[c] = e
    BY <2>1, GotoApart
  <2> QED BY <1>0, <2>1, <2>2, <2>3 DEF Broadcasting
<1>3. CASE Visit(c)
  <2>1. PICK u \in Login :
          \/ Step(c, "next")
          \/ call' = [call EXCEPT ![c].target = u] /\ Goto(c, "route")
    BY <1>3 DEF Visit
  <2> DEFINE e == [call[c] EXCEPT !.target = u]
  <2>2. Step(c, "next") \/ (call' = [call EXCEPT ![c] = e] /\ Goto(c, "route"))
    BY <2>1
  <2>3. e.frame = call[c].frame /\ e.lock = call[c].lock
    BY <1>0 DEF Call
  <2> HIDE DEF e
  <2>4. \/ Apart(c) /\ pc'[c] = "next" /\ call'[c] = call[c]
        \/ Apart(c) /\ pc'[c] = "route" /\ call'[c] = e
    BY <2>2, StepApart, GotoApart
  <2>5. pc[c] = "next"
    BY <1>3 DEF Visit
  <2> QED BY <1>0, <2>3, <2>4, <2>5 DEF Broadcasting
<1>4. CASE Route(c)
  <2> DEFINE e == [call[c] EXCEPT !.target = userID[call[c].target]]
  <2>1. /\ pc[c] = "route"
        /\ Throw(c) \/ (call' = [call EXCEPT ![c] = e] /\ Goto(c, "lookup"))
    BY <1>4 DEF Route
  <2>2. e.frame = call[c].frame /\ e.lock = call[c].lock
    BY <1>0 DEF Call
  <2> HIDE DEF e
  <2>3. \/ Apart(c) /\ pc'[c] \in Resting
        \/ Apart(c) /\ pc'[c] = "lookup" /\ call'[c] = e
    BY <2>1, ThrowRests, RestsApart, GotoApart
  <2> QED BY <1>0, <2>1, <2>2, <2>3 DEF Broadcasting
<1>5. CASE Lookup(c) \/ Deliver(c)
  <2>1. pc[c] \in Broadcasting /\ \E l \in {"deliver", "next"} : Step(c, l)
    BY <1>5 DEF Lookup, Deliver, Broadcasting
  <2> QED BY <1>0, <2>1, StepApart DEF Broadcasting
<1>6. CASE EndBroadcast(c)
  <2> DEFINE e == [call[c] EXCEPT !.lock = Nil, !.iter = Nil, !.target = Nil]
  <2>1. /\ call' = [call EXCEPT ![c] = e] /\ Goto(c, "respond")
        /\ pc[c] \in Broadcasting
    BY <1>6 DEF EndBroadcast, Broadcasting
  <2> HIDE DEF e
  <2> QED BY <1>0, <2>1, GotoApart
<1>7. CASE Respond(c)
  <2>1. Rests(c) /\ pc[c] = "respond"
    BY <1>7, ReturnRests DEF Respond
  <2> QED BY <1>0, <2>1, RestsApart
<1> QED BY <1>1, <1>2, <1>3, <1>4, <1>5, <1>6, <1>7 DEF HandleSend

(* A step of c that adds nothing to an outbox.                             *)
LEMMA OrderKept ==
  ASSUME IInv, Warm, IOrder, NEW c \in Conn, Apart(c), UNCHANGED <<channels, sent, outbox>>,
         pc[c] \in Past => pc'[c] \in Past,
         pc'[c] \in Broadcasting \cup {"acquire"} =>
           call'[c].lock = channels[call'[c].frame.dest],
         pc'[c] \in Broadcasting =>
           pc[c] \in Broadcasting \cup {"acquire"} /\ call'[c].frame = call[c].frame
  PROVE  IOrder'
<1>1. Locked'
  BY DEF IOrder, Locked, Apart
<1>2. \A k \in Conn : \A a \in DOMAIN outbox[k] : outbox[k][a].from \in Conn
  <2>1. \A k \in Conn : outbox[k] \in Seq(Msg)
    BY DEF IOrder, Numbered
  <2>2. \A k \in Conn : \A a \in DOMAIN outbox[k] : outbox[k][a] \in Msg
    BY <2>1
  <2> QED BY <2>2 DEF Msg
<1>3. Numbered'
  BY <1>2 DEF IOrder, Numbered, Apart
<1>4. Last'
  <2>1. ASSUME NEW k \in Conn, pc'[k] \in Broadcasting, NEW j \in Conn,
               NEW a \in DOMAIN outbox[j], NEW b \in DOMAIN outbox[j],
               a < b, outbox[j][a] = Message(k)', outbox[j][b].copy = "broadcast",
               outbox[j][b].channel = call'[k].frame.dest
        PROVE  outbox[j][b] = Message(k)'
    <3>1. Message(k)' = Message(k) /\ call'[k].frame = call[k].frame
      BY <2>1 DEF Message, Copy, Apart
    <3>2. CASE pc[k] \in Broadcasting
      BY <2>1, <3>1, <3>2 DEF IOrder, Last
    <3>3. CASE pc[k] \notin Broadcasting
      <4>1. k = c /\ pc[c] = "acquire"
        BY <2>1, <3>3 DEF Apart
      <4>2. outbox[j][a].from = c /\ outbox[j][a].n = sent[c]
        BY <2>1, <3>1, <4>1 DEF Message, Copy
      <4>3. pc[c] \in Past
        BY <4>2 DEF IOrder, Numbered
      <4> QED BY <4>1, <4>3 DEF Past, Broadcasting, Resting
    <3> QED BY <3>2, <3>3
  <2> QED BY <2>1 DEF Last
<1>5. OrderAgreement'
  BY DEF IOrder, OrderAgreement
<1> QED BY <1>1, <1>3, <1>4, <1>5 DEF IOrder

(* A new frame: what its connection has broadcast so far is older.         *)
LEMMA ReceiveOrder ==
  ASSUME IInv, Warm, IOrder, NEW c \in Conn, NEW f \in Script[c], Receive(c, f)
  PROVE  IOrder'
<1>1. f \in Frame
  BY ScriptAssumption
<1> DEFINE l == FirstStep(f)
           e == [call[c] EXCEPT !.frame = f]
<1>2. l \notin Broadcasting \cup {"acquire"}
  BY <1>1, FirstStepFits DEF Broadcasting
<1>3. /\ Goto(c, l) /\ call' = [call EXCEPT ![c] = e]
      /\ UNCHANGED <<channels, outbox>> /\ sent' = [sent EXCEPT ![c] = @ + 1]
  BY DEF Receive, subscriptions, history
<1> HIDE DEF l, e
<1>4. Apart(c) /\ pc'[c] = l
  BY <1>3, GotoApart DEF IInv
<1>5. /\ \A k \in Conn : sent[k] \in Nat
      /\ \A k \in Conn \ {c} : sent'[k] = sent[k]
      /\ sent'[c] = sent[c] + 1
  BY <1>3 DEF IInv, TypeOK
<1>6. Locked'
  BY <1>2, <1>3, <1>4 DEF IOrder, Locked, Apart
<1>7. Numbered'
  <2>1. ASSUME NEW k \in Conn, NEW a \in DOMAIN outbox[k], NEW m, m = outbox[k][a]
        PROVE  /\ m.n <= sent'[m.from]
               /\ m.n = sent'[m.from] => pc'[m.from] \in Past
    <3>1. m \in Msg
      BY <2>1 DEF IOrder, Numbered
    <3>2. m.from \in Conn /\ m.n \in Nat
      BY <3>1 DEF Msg
    <3>3. /\ m.n <= sent[m.from]
          /\ m.n = sent[m.from] => pc[m.from] \in Past
      BY <2>1 DEF IOrder, Numbered
    <3>4. CASE m.from = c
      <4>1. \A x, y \in Nat : x <= y => x <= y + 1 /\ x # y + 1
        OBVIOUS
      <4> QED BY <1>5, <3>2, <3>3, <3>4, <4>1
    <3>5. CASE m.from # c
      BY <1>4, <1>5, <3>2, <3>3, <3>5 DEF Apart
    <3> QED BY <3>4, <3>5
  <2> QED BY <1>3, <2>1 DEF IOrder, Numbered
<1>8. Last'
  <2>1. ASSUME NEW k \in Conn, pc'[k] \in Broadcasting
        PROVE  /\ pc[k] \in Broadcasting /\ Message(k)' = Message(k)
               /\ call'[k].frame = call[k].frame
    BY <1>2, <1>4, <1>5, <2>1 DEF Message, Copy, Apart
  <2> QED BY <1>3, <2>1 DEF IOrder, Last
<1>9. OrderAgreement'
  BY <1>3 DEF IOrder, OrderAgreement
<1> QED BY <1>6, <1>7, <1>8, <1>9 DEF IOrder

(* Two broadcasts under way are on different channels.                     *)
LEMMA OneBroadcast ==
  ASSUME IInv, Warm, Locked, NEW c \in Conn, NEW k \in Conn,
         pc[c] \in Broadcasting, pc[k] \in Broadcasting,
         call[c].frame.dest = call[k].frame.dest
  PROVE  c = k
<1>1. call[c].lock = call[k].lock
  BY DEF Locked
<1>2. call[c].lock \in QueueRef
  <2>1. c \in Sound /\ call[c] \in Call
    BY DEF IInv, TypeOK
  <2> QED BY <2>1 DEF Sound, Call
<1> QED BY <1>1, <1>2 DEF IInv, MonitorHeldByBroadcast

(* One more message in an outbox: the others are where they were.          *)
LEMMA Appended ==
  ASSUME Numbered, NEW k \in Conn, NEW m \in Msg,
         outbox' = [outbox EXCEPT ![k] = Append(@, m)]
  PROVE  /\ outbox' \in [Conn -> Seq(Msg)]
         /\ \A j \in Conn : \A a \in DOMAIN outbox'[j] :
              \/ a \in DOMAIN outbox[j] /\ outbox'[j][a] = outbox[j][a]
              \/ outbox'[j][a] = m
         /\ \A j \in Conn : \A a, b \in DOMAIN outbox'[j] :
              a < b => a \in DOMAIN outbox[j] /\ outbox'[j][a] = outbox[j][a]
<1>0. PICK n \in Nat : n = Len(outbox[k])
  BY DEF Numbered
<1>1. /\ outbox' \in [Conn -> Seq(Msg)]
      /\ \A j \in Conn \ {k} : outbox'[j] = outbox[j]
      /\ DOMAIN outbox[k] = 1..n /\ DOMAIN outbox'[k] = 1..(n + 1)
      /\ \A a \in 1..n : outbox'[k][a] = outbox[k][a]
      /\ outbox'[k][n + 1] = m
  BY <1>0 DEF Numbered
<1>2. ASSUME NEW j \in Conn, NEW a \in DOMAIN outbox'[j], NEW b \in DOMAIN outbox'[j], a < b
      PROVE  a \in DOMAIN outbox[j] /\ outbox'[j][a] = outbox[j][a]
  <2>1. CASE j # k
    BY <1>1, <2>1
  <2>2. CASE j = k
    BY <1>1, <1>2, <2>2
  <2> QED BY <2>1, <2>2
<1>3. ASSUME NEW j \in Conn, NEW a \in DOMAIN outbox'[j]
      PROVE  \/ a \in DOMAIN outbox[j] /\ outbox'[j][a] = outbox[j][a]
             \/ outbox'[j][a] = m
  BY <1>1
<1> QED BY <1>1, <1>2, <1>3

(* The publisher gets its response, which no property of the broadcasts    *)
(* counts.                                                                 *)
LEMMA RespondOrder ==
  ASSUME IInv, Warm, IOrder, NEW c \in Conn, HandleSend(c), Respond(c)
  PROVE  IOrder'
<1> DEFINE m == Copy(c, "response")
<1>1. /\ pc[c] = "respond" /\ call[c].frame \in SendFrame
      /\ Apart(c) /\ pc'[c] \in Resting /\ UNCHANGED <<channels, sent>>
      /\ outbox' = [outbox EXCEPT ![c] = Append(@, m)]
  BY ReturnRests, RestsApart DEF Respond, HandleSend, subscriptions, IInv, Sound
<1>2. call[c].frame.dest \in Channel
  BY <1>1 DEF IInv, Sound, SendFrame
<1>3. m \in Msg /\ m.from = c /\ m.n = sent[c] /\ m.copy = "response"
  BY <1>2 DEF Copy, Msg, IInv, TypeOK
<1> HIDE DEF m
<1>4. outbox' \in [Conn -> Seq(Msg)]
  BY <1>1, <1>3, Appended DEF IOrder
<1>10. ASSUME NEW j \in Conn, NEW a \in DOMAIN outbox'[j]
       PROVE  \/ a \in DOMAIN outbox[j] /\ outbox'[j][a] = outbox[j][a]
              \/ outbox'[j][a] = m
  BY <1>1, <1>3, Appended DEF IOrder
<1>5. Locked'
  BY <1>1 DEF IOrder, Locked, Apart, Broadcasting, Resting
<1>6. Numbered'
  <2>1. ASSUME NEW j \in Conn, NEW a \in DOMAIN outbox'[j], NEW v, v = outbox'[j][a]
        PROVE  /\ v.n <= sent[v.from]
               /\ v.n = sent[v.from] => pc'[v.from] \in Past
    <3>1. CASE v = m
      BY <1>1, <1>3, <3>1 DEF Past, IInv, TypeOK
    <3>2. CASE a \in DOMAIN outbox[j] /\ v = outbox[j][a]
      <4>1. v \in Msg /\ v.n <= sent[v.from]
            /\ (v.n = sent[v.from] => pc[v.from] \in Past)
        BY <3>2 DEF IOrder, Numbered
      <4>2. v.from \in Conn
        BY <4>1 DEF Msg
      <4> QED BY <1>1, <4>1, <4>2 DEF Apart, Past
    <3> QED BY <1>10, <2>1, <3>1, <3>2
  <2> QED BY <1>1, <1>4, <2>1 DEF Numbered
<1>7. ASSUME NEW j \in Conn, NEW a \in DOMAIN outbox'[j],
             outbox'[j][a].copy = "broadcast"
      PROVE  a \in DOMAIN outbox[j] /\ outbox'[j][a] = outbox[j][a]
  BY <1>3, <1>10, <1>7
<1>8. Last'
  <2>1. ASSUME NEW h \in Conn, pc'[h] \in Broadcasting, NEW j \in Conn,
               NEW a \in DOMAIN outbox'[j], NEW b \in DOMAIN outbox'[j],
               a < b, outbox'[j][a] = Message(h)', outbox'[j][b].copy = "broadcast",
               outbox'[j][b].channel = call'[h].frame.dest
        PROVE  outbox'[j][b] = Message(h)'
    <3>1. /\ Message(h)' = Message(h) /\ call'[h].frame = call[h].frame
          /\ pc[h] \in Broadcasting
      BY <1>1, <2>1 DEF Message, Copy, Apart, Broadcasting, Resting
    <3>2. outbox'[j][a].copy = "broadcast"
      BY <2>1 DEF Message, Copy
    <3> QED BY <1>7, <2>1, <3>1, <3>2 DEF IOrder, Last
  <2> QED BY <2>1 DEF Last
<1>9. OrderAgreement'
  <2> SUFFICES ASSUME NEW i \in Conn, NEW j \in Conn,
                      NEW a \in DOMAIN outbox'[i], NEW b \in DOMAIN outbox'[i],
                      NEW x \in DOMAIN outbox'[j], NEW y \in DOMAIN outbox'[j],
                      a < b, x < y,
                      outbox'[i][a].copy = "broadcast", outbox'[i][b].copy = "broadcast",
                      outbox'[i][a].channel = outbox'[i][b].channel,
                      outbox'[i][a] # outbox'[i][b],
                      outbox'[j][y] = outbox'[i][a], outbox'[j][x] = outbox'[i][b]
               PROVE  FALSE
    BY DEF OrderAgreement
  <2>1. /\ a \in DOMAIN outbox[i] /\ outbox'[i][a] = outbox[i][a]
        /\ b \in DOMAIN outbox[i] /\ outbox'[i][b] = outbox[i][b]
        /\ x \in DOMAIN outbox[j] /\ outbox'[j][x] = outbox[j][x]
        /\ y \in DOMAIN outbox[j] /\ outbox'[j][y] = outbox[j][y]
    BY <1>7
  <2> QED BY <2>1 DEF IOrder, OrderAgreement
<1> QED BY <1>5, <1>6, <1>8, <1>9 DEF IOrder

(* A message is handed to a client.                                        *)
LEMMA DeliverOrder ==
  ASSUME IInv, Warm, IOrder, NEW c \in Conn, HandleSend(c), Deliver(c)
  PROVE  IOrder'
<1>0. PICK m, k : m = Message(c) /\ k = call[c].target
  OBVIOUS
<1>1. /\ c \in Sound /\ pc[c] = "deliver" /\ k \in Conn
      /\ call[c].frame \in SendFrame /\ call[c].frame.dest \in Channel
  BY <1>0 DEF IInv, Deliver, Sound, Broadcasting, SendFrame
<1>2. /\ Apart(c) /\ pc'[c] = "next" /\ call'[c] = call[c]
      /\ UNCHANGED <<channels, sent>>
  BY StepApart DEF Deliver, HandleSend, subscriptions, IInv
<1>3. m \in Msg /\ m.from = c /\ m.n = sent[c] /\ m.channel = call[c].frame.dest
  BY <1>0, <1>1 DEF Message, Copy, Msg, IInv, TypeOK
<1>4. CASE UNCHANGED outbox
  <2>1. pc'[c] \in Broadcasting /\ pc[c] \in Broadcasting
    BY <1>1, <1>2 DEF Broadcasting
  <2> QED BY <1>2, <1>4, <2>1, OrderKept DEF IOrder, Locked, Past
<1>5. CASE outbox' = [outbox EXCEPT ![k] = Append(@, m)]
  <2>1. outbox' \in [Conn -> Seq(Msg)]
    BY <1>1, <1>3, <1>5, Appended DEF IOrder
  <2>2. ASSUME NEW j \in Conn, NEW a \in DOMAIN outbox'[j]
        PROVE  \/ a \in DOMAIN outbox[j] /\ outbox'[j][a] = outbox[j][a]
               \/ outbox'[j][a] = m
    BY <1>1, <1>3, <1>5, Appended DEF IOrder
  <2>3. ASSUME NEW j \in Conn, NEW a \in DOMAIN outbox'[j], NEW b \in DOMAIN outbox'[j], a < b
        PROVE  a \in DOMAIN outbox[j] /\ outbox'[j][a] = outbox[j][a]
    BY <1>1, <1>3, <1>5, <2>3, Appended DEF IOrder
  <2>4. Locked'
    BY <1>1, <1>2 DEF IOrder, Locked, Apart, Broadcasting
  <2>5. Numbered'
    <3>1. ASSUME NEW j \in Conn, NEW a \in DOMAIN outbox'[j], NEW v, v = outbox'[j][a]
          PROVE  /\ v.n <= sent[v.from]
                 /\ v.n = sent[v.from] => pc'[v.from] \in Past
      <4>1. CASE v = m
        BY <1>2, <1>3, <4>1 DEF Past, Broadcasting, IInv, TypeOK
      <4>2. CASE a \in DOMAIN outbox[j] /\ v = outbox[j][a]
        <5>1. v \in Msg /\ v.n <= sent[v.from]
              /\ (v.n = sent[v.from] => pc[v.from] \in Past)
          BY <4>2 DEF IOrder, Numbered
        <5>2. v.from \in Conn
          BY <5>1 DEF Msg
        <5> QED BY <1>2, <5>1, <5>2 DEF Apart, Past, Broadcasting
      <4> QED BY <2>2, <3>1, <4>1, <4>2
    <3> QED BY <1>2, <2>1, <3>1 DEF Numbered
  <2>6. Last'
    <3>1. ASSUME NEW h \in Conn, pc'[h] \in Broadcasting, NEW j \in Conn,
                 NEW a \in DOMAIN outbox'[j], NEW b \in DOMAIN outbox'[j],
                 a < b, outbox'[j][a] = Message(h)', outbox'[j][b].copy = "broadcast",
                 outbox'[j][b].channel = call'[h].frame.dest
          PROVE  outbox'[j][b] = Message(h)'
      <4>1. /\ Message(h)' = Message(h) /\ call'[h].frame = call[h].frame
            /\ pc[h] \in Broadcasting
        BY <1>1, <1>2, <3>1 DEF Message, Copy, Apart, Broadcasting
      <4>2. a \in DOMAIN outbox[j] /\ outbox'[j][a] = outbox[j][a]
        BY <2>3, <3>1
      <4>3. CASE b \in DOMAIN outbox[j] /\ outbox'[j][b] = outbox[j][b]
        BY <3>1, <4>1, <4>2, <4>3 DEF IOrder, Last
      <4>4. CASE outbox'[j][b] = m
        <5>1. h = c
          BY <1>1, <1>3, <3>1, <4>1, <4>4, OneBroadcast DEF IOrder, Broadcasting
        <5> QED BY <1>0, <4>1, <4>4, <5>1
      <4> QED BY <2>2, <3>1, <4>3, <4>4
    <3> QED BY <3>1 DEF Last
  <2>7. OrderAgreement'
    <3> SUFFICES ASSUME NEW i \in Conn, NEW j \in Conn,
                        NEW a \in DOMAIN outbox'[i], NEW b \in DOMAIN outbox'[i],
                        NEW x \in DOMAIN outbox'[j], NEW y \in DOMAIN outbox'[j],
                        a < b, x < y,
                        outbox'[i][a].copy = "broadcast", outbox'[i][b].copy = "broadcast",
                        outbox'[i][a].channel = outbox'[i][b].channel,
                        outbox'[i][a] # outbox'[i][b],
                        outbox'[j][y] = outbox'[i][a], outbox'[j][x] = outbox'[i][b]
                 PROVE  FALSE
      BY DEF OrderAgreement
    <3>0. m = Message(c)' /\ m.channel = call'[c].frame.dest /\ pc'[c] \in Broadcasting
      BY <1>0, <1>2, <1>3 DEF Message, Copy, Broadcasting
    <3>1. a \in DOMAIN outbox[i] /\ outbox'[i][a] = outbox[i][a]
      BY <2>3
    <3>2. x \in DOMAIN outbox[j] /\ outbox'[j][x] = outbox[j][x]
      BY <2>3
    <3>3. CASE outbox'[i][b] = m
      <4>1. /\ outbox'[j][x] = m /\ outbox'[j][y].channel = m.channel
            /\ outbox'[j][y].copy = "broadcast"
        BY <3>3
      <4>2. outbox'[j][y] = m
        BY <2>6, <3>0, <4>1 DEF Last
      <4> QED BY <3>3, <4>2
    <3>4. CASE outbox'[j][y] = m
      <4>1. /\ outbox'[i][a] = m /\ outbox'[i][b].channel = m.channel
            /\ outbox'[i][b].copy = "broadcast"
        BY <3>4
      <4>2. outbox'[i][b] = m
        BY <2>6, <3>0, <4>1 DEF Last
      <4> QED BY <3>4, <4>1, <4>2
    <3>5. CASE /\ b \in DOMAIN outbox[i] /\ outbox'[i][b] = outbox[i][b]
               /\ y \in DOMAIN outbox[j] /\ outbox'[j][y] = outbox[j][y]
      <4>1. ~ /\ a < b /\ x < y
              /\ outbox[i][a].copy = "broadcast" /\ outbox[i][b].copy = "broadcast"
              /\ outbox[i][a].channel = outbox[i][b].channel
              /\ outbox[i][a] # outbox[i][b]
              /\ outbox[j][y] = outbox[i][a] /\ outbox[j][x] = outbox[i][b]
        BY <3>1, <3>2, <3>5 DEF IOrder, OrderAgreement
      <4> QED BY <3>1, <3>2, <3>5, <4>1
    <3> QED BY <2>2, <3>3, <3>4, <3>5
  <2> QED BY <2>4, <2>5, <2>6, <2>7 DEF IOrder
<1> QED BY <1>0, <1>4, <1>5 DEF Deliver

LEMMA OrderStep == IInv /\ Warm /\ IOrder /\ [Next]_vars => IOrder'
<1> SUFFICES ASSUME IInv, Warm, IOrder, [Next]_vars PROVE IOrder'
  OBVIOUS
<1>0. UNCHANGED channels
  BY WarmStep
<1>1. CASE UNCHANGED vars
  <2>1. UNCHANGED <<channels, pc, call, sent, outbox>>
    BY <1>1 DEF vars, subscriptions, history
  <2>2. Locked' /\ Numbered' /\ OrderAgreement'
    BY <2>1 DEF IOrder, Locked, Numbered, OrderAgreement
  <2>3. Last'
    BY <2>1 DEF IOrder, Last, Message, Copy
  <2> QED BY <2>2, <2>3 DEF IOrder
<1>2. CASE Next
  <2>1. PICK c \in Conn : \/ Accept(c) \/ Hangup(c) \/ Process(c)
                          \/ \E f \in Script[c] : Receive(c, f)
    BY <1>2 DEF Next
  <2>2. CASE \/ Accept(c) \/ Hangup(c) \/ HandleConnect(c) \/ HandleSub(c) \/ HandleUnsub(c)
             \/ HandleDisconnect(c) \/ HandleOther(c)
    BY <1>0, <2>2, ElsewhereDoes, OrderKept DEF Past
  <2>3. CASE HandleSend(c) /\ ~Deliver(c) /\ ~Respond(c)
    <3>1. UNCHANGED outbox
      BY <2>3 DEF HandleSend, Send, Acquire, Visit, Route, Lookup, EndBroadcast
    <3>2. "acquire" \notin Past /\ "send" \notin Past
      BY DEF Past, Broadcasting, Resting
    <3>3. /\ Apart(c) /\ UNCHANGED sent
          /\ \/ /\ pc[c] \in Broadcasting \cup {"send", "respond"}
                /\ pc'[c] \in Resting \cup {"respond"}
             \/ /\ pc[c] = "send" /\ pc'[c] = "acquire"
                /\ call'[c].frame = call[c].frame
                /\ call'[c].lock = channels[call[c].frame.dest]
             \/ /\ pc[c] \in Broadcasting \cup {"acquire"} /\ pc'[c] \in Broadcasting
                /\ call'[c].frame = call[c].frame /\ call'[c].lock = call[c].lock
      BY <2>3, SendDoes
    <3>4. /\ "acquire" \notin Broadcasting \cup Resting \cup {"respond"}
          /\ Broadcasting \cap (Resting \cup {"respond"}) = {}
      BY DEF Broadcasting, Resting
    <3>5. pc'[c] \in Broadcasting \cup {"acquire"} =>
            call'[c].lock = channels[call'[c].frame.dest]
      BY <3>3, <3>4 DEF IOrder, Locked
    <3>6. /\ pc[c] \in Past => pc'[c] \in Past
          /\ pc'[c] \in Broadcasting =>
               pc[c] \in Broadcasting \cup {"acquire"} /\ call'[c].frame = call[c].frame
      BY <3>2, <3>3, <3>4 DEF Past
    <3> QED BY <1>0, <3>1, <3>3, <3>5, <3>6, OrderKept
  <2> QED BY <2>1, <2>2, <2>3, ReceiveOrder, DeliverOrder, RespondOrder DEF Process
<1> QED BY <1>1, <1>2

LEMMA OrderStart ==
  ASSUME NEW own \in [Conn -> Login], \A u \in Login : \E c \in Conn : own[c] = u,
         NEW creator \in Conn, NEW passcode \in Pass, WarmInit(own, creator, passcode)
  PROVE  IInv /\ Warm /\ IOrder
<1>1. /\ \A c \in Conn : pc[c] = "idle" /\ outbox[c] = << >>
      /\ outbox = [c \in Conn |-> << >>]
  BY DEF WarmInit
<1>2. outbox \in [Conn -> Seq(Msg)] /\ \A c \in Conn : DOMAIN outbox[c] = {}
  BY <1>1
<1>3. Numbered /\ OrderAgreement
  BY <1>2 DEF Numbered, OrderAgreement
<1>4. Locked /\ Last
  BY <1>1 DEF Locked, Last, Broadcasting
<1> QED BY <1>3, <1>4, WarmStart DEF IOrder

(* Once the channels have their queues, the monitor of the queue makes the *)
(* broadcasts of a channel follow one another, and whatever any client     *)
(* sends, two clients that receive two messages of the channel receive     *)
(* them in the same order.                                                 *)
THEOREM OrderAgreed ==
  ASSUME NEW own \in [Conn -> Login], \A u \in Login : \E c \in Conn : own[c] = u,
         NEW creator \in Conn, NEW passcode \in Pass
  PROVE  WarmInit(own, creator, passcode) /\ [][Next]_vars => []OrderAgreement
<1>1. WarmInit(own, creator, passcode) => IInv /\ Warm /\ IOrder
  BY OrderStart
<1>2. IInv /\ Warm /\ IOrder /\ [Next]_vars => (IInv /\ Warm /\ IOrder)'
  BY NextInv, WarmStep, OrderStep
<1>3. IOrder => OrderAgreement
  BY DEF IOrder
<1> QED BY <1>1, <1>2, <1>3, PTL
=============================================================================
