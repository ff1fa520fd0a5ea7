-------------------------- MODULE StompBrokerProofs --------------------------
(***************************************************************************)
(* Proofs about StompBroker, for any connections, logins, channels, ids,   *)
(* scripts and numbers of frames, and for both kinds of server: the type   *)
(* invariant and the four safety invariants of the maps and the monitors.  *)
(*                                                                         *)
(* The maps users, userID and channels only grow: no entry of them ever    *)
(* becomes null.  That is what the locals of a handler rely on when they   *)
(* are used after other connections have run.                              *)
(***************************************************************************)
EXTENDS StompBrokerProps, TLAPS

(* The connections whose locals fit the step their thread is at.           *)
Sound == {c \in Conn :
  /\ pc[c] \in InConnect => call[c].frame \in ConnectFrame
  /\ pc[c] \in InConnect \ {"connect"} =>
       call[c].frame.login # Nil /\ call[c].frame.passcode # Nil
  /\ pc[c] \in {"putUserID", "putLoginID"} => users[call[c].frame.login] # Nil
  /\ pc[c] = "putLoginID" => userID[call[c].frame.login] # Nil
  /\ pc[c] \in InSubscribe => call[c].frame \in SubscribeFrame
  /\ pc[c] \in InSubscribe \ {"subscribe"} =>
       call[c].dest # Nil /\ (call[c].name # Nil => userID[call[c].name] # Nil)
  /\ pc[c] \in InSubscribe \ {"subscribe", "putChannel"} => channels[call[c].dest] # Nil
  /\ pc[c] \in {"addUser", "putIDchannel"} =>
       call[c].name # Nil /\ call[c].frame.id # Nil
  /\ pc[c] \in InUnsubscribe => call[c].frame \in UnsubscribeFrame
  /\ pc[c] \in InUnsubscribe \ {"unsubscribe"} => call[c].frame.id # Nil
  /\ pc[c] \in {"removeUser", "removeSubID"} => call[c].name # Nil
  /\ pc[c] \in Broadcasting \cup {"send", "acquire", "respond"} =>
       call[c].frame \in SendFrame
  /\ pc[c] \in Broadcasting \cup {"acquire", "respond"} =>
       call[c].frame.dest # Nil /\ channels[call[c].frame.dest] # Nil
  /\ pc[c] \in Broadcasting \cup {"acquire"} => call[c].lock # Nil
  /\ pc[c] = "route" => call[c].target \in Login /\ userID[call[c].target] # Nil
  /\ pc[c] \in {"lookup", "deliver"} => call[c].target \in Conn
  /\ pc[c] = "disconnect" => call[c].frame \in DisconnectFrame}

ListedRouted == \A u \in Listed : userID[u] # Nil

IInv == /\ TypeOK
        /\ Sound = Conn
        /\ LoginBacked
        /\ ListedRouted
        /\ IDchannelHasQueue
        /\ MonitorHeldByBroadcast

-----------------------------------------------------------------------------
(* Only the thread of c moves, and users, userID and channels only grow.   *)
Moved(c) == /\ \A k \in Conn \ {c} : pc'[k] = pc[k] /\ call'[k] = call[k]
            /\ \A u \in Login : users[u] # Nil => users'[u] # Nil
            /\ \A u \in Login : userID[u] # Nil => userID'[u] # Nil
            /\ \A d \in Channel : channels[d] # Nil => channels'[d] # Nil

LEMMA OthersSound ==
  ASSUME TypeOK, Sound = Conn, NEW c \in Conn, Moved(c), NEW k \in Conn, k # c
  PROVE  k \in Sound'
<1> DEFINE f == call[k].frame
<1>1. k \in Sound /\ pc'[k] = pc[k] /\ call'[k] = call[k]
  BY DEF Moved
<1>2. /\ call[k].name \in Login \cup {Nil} /\ call[k].dest \in Channel \cup {Nil}
      /\ call[k].target \in Login \cup Conn \cup {Nil}
  BY DEF TypeOK, Call
<1>3. /\ f \in ConnectFrame => f.login \in Login \cup {Nil}
      /\ f \in SendFrame => f.dest \in Channel \cup {Nil}
  BY DEF ConnectFrame, SendFrame
<1> QED BY <1>1, <1>2, <1>3, NilAssumption
        DEF Sound, Moved, Resting, InConnect, InSubscribe, InUnsubscribe, Broadcasting

LEMMA InitInv == Init => IInv
<1> SUFFICES ASSUME Init PROVE IInv
  OBVIOUS
<1> USE NilAssumption DEF Init
<1>1. TypeOK
  BY DEF TypeOK, Call, NoCall, Label, Resting, Empty
<1>2. Sound = Conn
  BY DEF Sound, InConnect, InSubscribe, InUnsubscribe, Broadcasting
<1>3. LoginBacked /\ IDchannelHasQueue
  BY DEF LoginBacked, IDchannelHasQueue
<1>4. ListedRouted
  BY DEF ListedRouted, Listed, Empty
<1>5. MonitorHeldByBroadcast
  BY DEF MonitorHeldByBroadcast, Broadcasting
<1> QED BY <1>1, <1>2, <1>3, <1>4, <1>5 DEF IInv

-----------------------------------------------------------------------------
(* A handler returns or throws.                                            *)
Rests(c) == /\ pc' = [pc EXCEPT ![c] = pc'[c]] /\ pc'[c] \in Resting \ {"new"}
            /\ call' = [call EXCEPT ![c] = NoCall]

LEMMA ReturnRests == ASSUME TypeOK, NEW c \in Conn, Return(c) PROVE Rests(c)
BY DEF TypeOK, Return, Goto, Rests, Resting

LEMMA ThrowRests == ASSUME TypeOK, NEW c \in Conn, Throw(c) PROVE Rests(c)
BY DEF TypeOK, Throw, Goto, Rests, Resting

(* disconnect removes a handler or throws: its two-argument removes, which *)
(* take a connection for a login and a login for a connection, do nothing. *)
LEMMA DisconnectKeeps ==
  ASSUME TypeOK, NEW c \in Conn, DisconnectAndReturn(c)
  PROVE  /\ Rests(c) /\ activeClients' \in SUBSET Conn
         /\ UNCHANGED <<users, userID, loginID>>
<1>1. Rests(c)
  BY ReturnRests, ThrowRests DEF DisconnectAndReturn
<1>2. activeClients' \in SUBSET Conn /\ users' = users
  BY DEF DisconnectAndReturn, TypeOK
<1>3. CASE DisconnectThrows(c) \/ c \notin activeClients
  BY <1>1, <1>2, <1>3 DEF DisconnectAndReturn
<1>4. CASE ~DisconnectThrows(c) /\ c \in activeClients
  <2>1. loginID[c] \in Login
    BY <1>4 DEF DisconnectThrows, TypeOK
  <2>2. /\ userID' = RemoveEntry(userID, c, loginID[c])
        /\ loginID' = RemoveEntry(loginID, loginID[c], c)
    BY <1>4 DEF DisconnectAndReturn
  <2>3. RemoveEntry(userID, c, loginID[c]) = userID
    BY KeyAssumption DEF RemoveEntry, TypeOK
  <2>4. RemoveEntry(loginID, loginID[c], c) = loginID
    BY <2>1, KeyAssumption DEF RemoveEntry, TypeOK
  <2> QED BY <1>1, <1>2, <2>2, <2>3, <2>4
<1> QED BY <1>3, <1>4

LEMMA RestsSound ==
  ASSUME TypeOK, NEW c \in Conn, Rests(c)
  PROVE  /\ c \in Sound' /\ pc'[c] \notin Broadcasting
         /\ pc' \in [Conn -> Label] /\ call' \in [Conn -> Call]
         /\ \A k \in Conn \ {c} : pc'[k] = pc[k] /\ call'[k] = call[k]
<1>1. NoCall \in Call
  BY DEF NoCall, Call
<1>2. pc'[c] \in {"new", "idle", "closed"}
  BY DEF Rests, Resting
<1>3. /\ pc' \in [Conn -> Label] /\ call' \in [Conn -> Call]
      /\ \A k \in Conn \ {c} : pc'[k] = pc[k] /\ call'[k] = call[k]
  BY <1>1, <1>2 DEF Rests, TypeOK, Label, Resting
<1>4. pc'[c] \notin Broadcasting
  BY <1>2 DEF Broadcasting
<1>5. c \in Sound'
  BY <1>2 DEF Sound, InConnect, InSubscribe, InUnsubscribe, Broadcasting
<1> QED BY <1>3, <1>4, <1>5

(* A thread moves to label l and changes its locals to e.                  *)
LEMMA StepTypes ==
  ASSUME TypeOK, NEW c \in Conn, NEW l \in Label, NEW e \in Call,
         pc' = [pc EXCEPT ![c] = l], call' = [call EXCEPT ![c] = e]
  PROVE  /\ pc' \in [Conn -> Label] /\ call' \in [Conn -> Call]
         /\ pc'[c] = l /\ call'[c] = e
         /\ \A k \in Conn \ {c} : pc'[k] = pc[k] /\ call'[k] = call[k]
BY DEF TypeOK

(* A step of c that leaves the maps, the queues and the monitors alone.    *)
LEMMA Quiet ==
  ASSUME IInv, NEW c \in Conn,
         pc' \in [Conn -> Label], call' \in [Conn -> Call],
         activeClients' \in SUBSET Conn, terminate' \in [Conn -> BOOLEAN],
         sent' \in [Conn -> Nat],
         \A k \in Conn \ {c} : pc'[k] = pc[k] /\ call'[k] = call[k],
         UNCHANGED <<logins, subscriptions, todo, monitor>>,
         c \in Sound',
         pc'[c] \in Broadcasting <=> pc[c] \in Broadcasting,
         pc[c] \in Broadcasting => call'[c].lock = call[c].lock
  PROVE  IInv'
<1> USE DEF IInv, logins, subscriptions
<1>1. TypeOK'
  BY DEF TypeOK
<1>2. Sound' = Conn
  <2>1. Moved(c)
    BY DEF Moved
  <2>2. \A k \in Conn \ {c} : k \in Sound'
    BY <2>1, OthersSound
  <2>3. Sound' \subseteq Conn
    BY DEF Sound
  <2> QED BY <2>2, <2>3
<1>3. LoginBacked' /\ IDchannelHasQueue'
  BY DEF LoginBacked, IDchannelHasQueue
<1>4. ListedRouted'
  BY DEF ListedRouted, Listed
<1>5. MonitorHeldByBroadcast'
  BY DEF MonitorHeldByBroadcast
<1> QED BY <1>1, <1>2, <1>3, <1>4, <1>5

LEMMA RestInv ==
  ASSUME IInv, NEW c \in Conn, Rests(c), pc[c] \notin Broadcasting,
         activeClients' \in SUBSET Conn, terminate' \in [Conn -> BOOLEAN],
         UNCHANGED <<logins, subscriptions, todo, monitor, sent>>
  PROVE  IInv'
<1>1. /\ c \in Sound' /\ pc'[c] \notin Broadcasting
      /\ pc' \in [Conn -> Label] /\ call' \in [Conn -> Call]
      /\ \A k \in Conn \ {c} : pc'[k] = pc[k] /\ call'[k] = call[k]
  BY RestsSound DEF IInv
<1>2. sent' \in [Conn -> Nat]
  BY DEF IInv, TypeOK
<1> QED BY <1>1, <1>2, Quiet

(* Step(c, l): the locals stay.                                            *)
LEMMA StepMoves ==
  ASSUME TypeOK, NEW c \in Conn, NEW l \in Label, Step(c, l)
  PROVE  /\ pc' \in [Conn -> Label] /\ call' \in [Conn -> Call]
         /\ pc'[c] = l /\ call' = call /\ call'[c] = call[c]
         /\ \A k \in Conn \ {c} : pc'[k] = pc[k] /\ call'[k] = call[k]
BY DEF TypeOK, Step, Goto

LEMMA AcceptInv == ASSUME IInv, NEW c \in Conn, Accept(c) PROVE IInv'
<1> USE DEF IInv, Accept, history
<1>1. Step(c, "idle") /\ "idle" \in Label
  BY DEF Label, Resting
<1>2. /\ pc' \in [Conn -> Label] /\ call' \in [Conn -> Call] /\ pc'[c] = "idle"
      /\ \A k \in Conn \ {c} : pc'[k] = pc[k] /\ call'[k] = call[k]
  BY <1>1, StepMoves
<1>3. pc'[c] \notin Broadcasting /\ pc[c] \notin Broadcasting
  BY <1>2 DEF Broadcasting
<1>4. c \in Sound'
  BY <1>2 DEF Sound, InConnect, InSubscribe, InUnsubscribe, Broadcasting
<1>5. /\ activeClients' \in SUBSET Conn /\ terminate' \in [Conn -> BOOLEAN]
      /\ sent' \in [Conn -> Nat]
  BY DEF TypeOK
<1> QED BY <1>2, <1>3, <1>4, <1>5, Quiet

LEMMA HangupInv == ASSUME IInv, NEW c \in Conn, Hangup(c) PROVE IInv'
<1> USE DEF IInv, Hangup, history
<1>1. Step(c, "closed") /\ "closed" \in Label
  BY DEF Label, Resting
<1>2. /\ pc' \in [Conn -> Label] /\ call' \in [Conn -> Call] /\ pc'[c] = "closed"
      /\ \A k \in Conn \ {c} : pc'[k] = pc[k] /\ call'[k] = call[k]
  BY <1>1, StepMoves
<1>3. pc'[c] \notin Broadcasting /\ pc[c] \notin Broadcasting
  BY <1>2 DEF Broadcasting
<1>4. c \in Sound'
  BY <1>2 DEF Sound, InConnect, InSubscribe, InUnsubscribe, Broadcasting
<1>5. /\ activeClients' \in SUBSET Conn /\ terminate' \in [Conn -> BOOLEAN]
      /\ sent' \in [Conn -> Nat]
  BY DEF TypeOK
<1> QED BY <1>2, <1>3, <1>4, <1>5, Quiet

(* The first step of a handler fits the frame.                             *)
LEMMA FirstStepFits ==
  ASSUME NEW f \in Frame
  PROVE  /\ FirstStep(f) \in {"connect", "subscribe", "unsubscribe", "send",
                              "disconnect", "other"}
         /\ FirstStep(f) = "connect" => f \in ConnectFrame
         /\ FirstStep(f) = "subscribe" => f \in SubscribeFrame
         /\ FirstStep(f) = "unsubscribe" => f \in UnsubscribeFrame
         /\ FirstStep(f) = "send" => f \in SendFrame
         /\ FirstStep(f) = "disconnect" => f \in DisconnectFrame
<1>1. CASE f \in ConnectFrame
  <2>1. f.cmd = "CONNECT"
    BY <1>1 DEF ConnectFrame
  <2> QED BY <1>1, <2>1 DEF FirstStep
<1>2. CASE f \in SubscribeFrame
  <2>1. f.cmd = "SUBSCRIBE"
    BY <1>2 DEF SubscribeFrame
  <2> QED BY <1>2, <2>1 DEF FirstStep
<1>3. CASE f \in UnsubscribeFrame
  <2>1. f.cmd = "UNSUBSCRIBE"
    BY <1>3 DEF UnsubscribeFrame
  <2> QED BY <1>3, <2>1 DEF FirstStep
<1>4. CASE f \in SendFrame
  <2>1. f.cmd = "SEND"
    BY <1>4 DEF SendFrame
  <2> QED BY <1>4, <2>1 DEF FirstStep
<1>5. CASE f \in DisconnectFrame
  <2>1. f.cmd = "DISCONNECT"
    BY <1>5 DEF DisconnectFrame
  <2> QED BY <1>5, <2>1 DEF FirstStep
<1>6. CASE f \in OtherFrame
  <2>1. f.cmd = "OTHER"
    BY <1>6 DEF OtherFrame
  <2> QED BY <2>1 DEF FirstStep
<1> QED BY <1>1, <1>2, <1>3, <1>4, <1>5, <1>6 DEF Frame

LEMMA ReceiveInv ==
  ASSUME IInv, NEW c \in Conn, NEW f \in Script[c], Receive(c, f) PROVE IInv'
<1> USE DEF IInv, Receive, history
<1>0. f \in Frame
  BY ScriptAssumption
<1> DEFINE l == FirstStep(f)
           e == [call[c] EXCEPT !.frame = f]
<1>1. /\ l \in {"connect", "subscribe", "unsubscribe", "send", "disconnect", "other"}
      /\ l = "connect" => f \in ConnectFrame
      /\ l = "subscribe" => f \in SubscribeFrame
      /\ l = "unsubscribe" => f \in UnsubscribeFrame
      /\ l = "send" => f \in SendFrame
      /\ l = "disconnect" => f \in DisconnectFrame
  BY <1>0, FirstStepFits
<1>2. /\ e \in Call /\ e.frame = f /\ l \in Label
      /\ call' = [call EXCEPT ![c] = e] /\ pc' = [pc EXCEPT ![c] = l]
  <2>1. call[c] \in Call
    BY DEF TypeOK
  <2>2. e \in Call /\ e.frame = f
    BY <1>0, <2>1 DEF Call
  <2>3. call' = [call EXCEPT ![c] = e]
    OBVIOUS
  <2>4. pc' = [pc EXCEPT ![c] = l]
    BY DEF Goto
  <2>5. l \in Label
    BY <1>1 DEF Label, InConnect, InSubscribe, InUnsubscribe
  <2> QED BY <2>2, <2>3, <2>4, <2>5
<1> HIDE DEF e, l
<1>3. /\ pc' \in [Conn -> Label] /\ call' \in [Conn -> Call]
      /\ pc'[c] = l /\ call'[c] = e
      /\ \A k \in Conn \ {c} : pc'[k] = pc[k] /\ call'[k] = call[k]
  BY <1>2, StepTypes
<1>4. c \in Sound'
  BY <1>1, <1>2, <1>3
  DEF Sound, InConnect, InSubscribe, InUnsubscribe, Broadcasting
<1>5. pc'[c] \notin Broadcasting /\ pc[c] \notin Broadcasting
  BY <1>1, <1>3 DEF Broadcasting
<1>6. /\ activeClients' \in SUBSET Conn /\ terminate' \in [Conn -> BOOLEAN]
      /\ sent' \in [Conn -> Nat]
  BY DEF TypeOK
<1> QED BY <1>3, <1>4, <1>5, <1>6, Quiet

LEMMA DisconnectInv == ASSUME IInv, NEW c \in Conn, HandleDisconnect(c) PROVE IInv'
<1> USE DEF IInv, HandleDisconnect
<1>1. Rests(c) /\ activeClients' \in SUBSET Conn /\ UNCHANGED logins
  <2>1. CASE DisconnectAndReturn(c)
    BY <2>1, DisconnectKeeps DEF logins
  <2>2. CASE ~DisconnectAndReturn(c)
    BY <2>2, ReturnRests, ThrowRests DEF TypeOK
  <2> QED BY <2>1, <2>2
<1>2. terminate' \in [Conn -> BOOLEAN] /\ pc[c] \notin Broadcasting
  BY DEF TypeOK, Broadcasting
<1> QED BY <1>1, <1>2, RestInv

LEMMA OtherInv == ASSUME IInv, NEW c \in Conn, HandleOther(c) PROVE IInv'
<1> USE DEF IInv, HandleOther
<1>1. Rests(c)
  BY ReturnRests, ThrowRests
<1>2. /\ activeClients' \in SUBSET Conn /\ terminate' \in [Conn -> BOOLEAN]
      /\ pc[c] \notin Broadcasting
  BY DEF TypeOK, Broadcasting
<1> QED BY <1>1, <1>2, RestInv

-----------------------------------------------------------------------------
(* A step of c that writes the maps, part by part.                         *)
LEMMA Combine ==
  ASSUME IInv, NEW c \in Conn, TypeOK', Moved(c), c \in Sound', LoginBacked',
         ListedRouted', IDchannelHasQueue', MonitorHeldByBroadcast'
  PROVE  IInv'
<1>1. \A k \in Conn \ {c} : k \in Sound'
  BY OthersSound DEF IInv
<1>2. Sound' \subseteq Conn
  BY DEF Sound
<1> QED BY <1>1, <1>2 DEF IInv

LEMMA MonitorKept ==
  ASSUME MonitorHeldByBroadcast, NEW c \in Conn, monitor' = monitor,
         \A k \in Conn \ {c} : pc'[k] = pc[k] /\ call'[k] = call[k],
         pc'[c] \in Broadcasting <=> pc[c] \in Broadcasting,
         pc[c] \in Broadcasting => call'[c].lock = call[c].lock
  PROVE  MonitorHeldByBroadcast'
BY DEF MonitorHeldByBroadcast

LEMMA ConnectInv == ASSUME IInv, NEW c \in Conn, HandleConnect(c) PROVE IInv'
<1> DEFINE f == call[c].frame
<1> USE DEF IInv, HandleConnect, history
<1>0. /\ pc[c] \in InConnect /\ pc[c] \notin Broadcasting /\ f \in ConnectFrame
      /\ f.login \in Login \cup {Nil} /\ f.passcode \in Pass \cup {Nil}
  <2>1. pc[c] \in InConnect
    BY DEF Connect, PutUser, PutUserID, PutLoginID, InConnect
  <2>2. f \in ConnectFrame /\ pc[c] \notin Broadcasting
    BY <2>1 DEF Sound, InConnect, Broadcasting
  <2> QED BY <2>1, <2>2 DEF ConnectFrame
<1>1. CASE Connect(c)
  <2>1. CASE f.valid /\ f.login # Nil /\ f.passcode # Nil
    <3>1. PICK l \in {"putUser", "putUserID"} :
            /\ Step(c, l)
            /\ l = "putUserID" => users[f.login] # Nil
            /\ UNCHANGED <<activeClients, logins>>
      BY <1>1, <2>1 DEF Connect
    <3>2. l \in Label
      BY DEF Label, InConnect
    <3>3. /\ pc' \in [Conn -> Label] /\ call' \in [Conn -> Call]
          /\ pc'[c] = l /\ call' = call /\ call'[c] = call[c]
          /\ \A k \in Conn \ {c} : pc'[k] = pc[k] /\ call'[k] = call[k]
      BY <3>1, <3>2, StepMoves
    <3>4. c \in Sound'
      BY <1>0, <2>1, <3>1, <3>3
      DEF Sound, InConnect, InSubscribe, InUnsubscribe, Broadcasting, logins
    <3>5. pc'[c] \notin Broadcasting
      BY <3>3 DEF Broadcasting
    <3>6. /\ activeClients' \in SUBSET Conn /\ terminate' \in [Conn -> BOOLEAN]
          /\ sent' \in [Conn -> Nat]
      BY <3>1 DEF TypeOK
    <3> QED BY <1>0, <3>1, <3>3, <3>4, <3>5, <3>6, Quiet
  <2>2. CASE ~(f.valid /\ f.login # Nil /\ f.passcode # Nil)
    <3>1. DisconnectAndReturn(c)
      BY <1>1, <2>2 DEF Connect
    <3>2. /\ Rests(c) /\ activeClients' \in SUBSET Conn /\ UNCHANGED logins
          /\ terminate' \in [Conn -> BOOLEAN]
      BY <3>1, DisconnectKeeps DEF logins, TypeOK
    <3> QED BY <1>0, <3>2, RestInv
  <2> QED BY <2>1, <2>2
<1>2. CASE PutUser(c) \/ PutUserID(c) \/ PutLoginID(c)
  <2>1. /\ f.login \in Login /\ f.passcode \in Pass
        /\ PutUserID(c) \/ PutLoginID(c) => users[f.login] # Nil
        /\ PutLoginID(c) => userID[f.login] # Nil
    BY <1>0, <1>2 DEF Sound, PutUser, PutUserID, PutLoginID, InConnect
  <2>2. /\ pc' \in [Conn -> Label] /\ call' \in [Conn -> Call]
        /\ pc'[c] \in {"putUserID", "putLoginID", "new", "idle", "closed"}
        /\ pc'[c] = "putUserID" <=> PutUser(c)
        /\ pc'[c] = "putLoginID" <=> PutUserID(c)
        /\ pc'[c] \in {"putUserID", "putLoginID"} => call'[c] = call[c]
        /\ \A k \in Conn \ {c} : pc'[k] = pc[k] /\ call'[k] = call[k]
    <3>1. CASE PutUser(c)
      <4>1. Step(c, "putUserID") /\ "putUserID" \in Label
        BY <3>1 DEF PutUser, Label, InConnect
      <4> QED BY <3>1, <4>1, StepMoves DEF PutUser, PutUserID
    <3>2. CASE PutUserID(c)
      <4>1. Step(c, "putLoginID") /\ "putLoginID" \in Label
        BY <3>2 DEF PutUserID, Label, InConnect
      <4> QED BY <3>2, <4>1, StepMoves DEF PutUser, PutUserID
    <3>3. CASE PutLoginID(c)
      <4>1. Rests(c)
        BY <3>3, ReturnRests DEF PutLoginID
      <4>2. pc'[c] \in {"new", "idle", "closed"}
        BY <4>1 DEF Rests, Resting
      <4> QED
        BY <3>3, <4>1, <4>2, RestsSound DEF PutUser, PutUserID, PutLoginID
    <3> QED BY <1>2, <3>1, <3>2, <3>3
  <2>3. /\ users' \in [Login -> Pass \cup {Nil}]
        /\ userID' \in [Login -> Conn \cup {Nil}]
        /\ loginID' \in [Conn -> Login \cup {Nil}]
        /\ \A u \in Login : users[u] # Nil => users'[u] # Nil
        /\ \A u \in Login : userID[u] # Nil => userID'[u] # Nil
        /\ PutUser(c) => users'[f.login] # Nil
        /\ PutUserID(c) => userID'[f.login] # Nil /\ users'[f.login] # Nil
        /\ \A k \in Conn : loginID'[k] = loginID[k]
                          \/ (loginID'[k] = f.login /\ PutLoginID(c))
        /\ activeClients' = activeClients
    <3>1. CASE PutUser(c)
      BY <2>1, <3>1, NilAssumption DEF PutUser, PutUserID, PutLoginID, TypeOK
    <3>2. CASE PutUserID(c)
      BY <2>1, <3>2, NilAssumption DEF PutUser, PutUserID, PutLoginID, TypeOK
    <3>3. CASE PutLoginID(c)
      BY <2>1, <3>3, NilAssumption DEF PutUser, PutUserID, PutLoginID, TypeOK
    <3> QED BY <1>2, <3>1, <3>2, <3>3
  <2>4. TypeOK'
    BY <2>2, <2>3 DEF TypeOK, subscriptions
  <2>5. Moved(c)
    BY <2>2, <2>3 DEF Moved, subscriptions
  <2>6. c \in Sound'
    BY <1>0, <2>1, <2>2, <2>3, NilAssumption
    DEF Sound, InConnect, InSubscribe, InUnsubscribe, Broadcasting
  <2>7. LoginBacked'
    BY <2>1, <2>3 DEF LoginBacked, TypeOK
  <2>8. ListedRouted' /\ IDchannelHasQueue'
    BY <2>3 DEF ListedRouted, Listed, IDchannelHasQueue, subscriptions
  <2>9. pc'[c] \notin Broadcasting
    BY <2>2 DEF Broadcasting
  <2>10. MonitorHeldByBroadcast'
    BY <1>0, <2>2, <2>9, MonitorKept
  <2> QED BY <2>4, <2>5, <2>6, <2>7, <2>8, <2>10, Combine
<1> QED BY <1>1, <1>2

-----------------------------------------------------------------------------
(* One entry of a table of counts changes.                                 *)
LEMMA EntryChange ==
  ASSUME NEW A, NEW B, NEW h \in [A -> [B -> Nat]], NEW a \in A, NEW b \in B,
         NEW n \in Nat, NEW k, k = [h EXCEPT ![a][b] = n]
  PROVE  /\ k \in [A -> [B -> Nat]] /\ k[a][b] = n
         /\ \A x \in A : \A y \in B : x # a \/ y # b => k[x][y] = h[x][y]
<1> DEFINE g == [h[a] EXCEPT ![b] = n]
<1>1. g \in [B -> Nat] /\ g[b] = n /\ \A y \in B : y # b => g[y] = h[a][y]
  OBVIOUS
<1>2. k = [h EXCEPT ![a] = g]
  OBVIOUS
<1> HIDE DEF g
<1> QED BY <1>1, <1>2

(* The counts of todo after an iterator saw one entry of u come or go.     *)
LEMMA Reflected ==
  ASSUME TypeOK, NEW S, NEW u \in Login, NEW n \in [Conn -> Nat],
         todo' = [t \in Conn |-> IF t \in S THEN [todo[t] EXCEPT ![u] = n[t]]
                                            ELSE todo[t]]
  PROVE  /\ todo' \in [Conn -> [Login -> Nat]]
         /\ \A t \in Conn : \A v \in Login :
              todo'[t][v] = todo[t][v] \/ (v = u /\ todo'[t][v] = n[t])
BY DEF TypeOK

LEMMA AddedTodo ==
  ASSUME TypeOK, NEW q, NEW u \in Login, MayReflect(q, u, OneMore)
  PROVE  /\ todo' \in [Conn -> [Login -> Nat]]
         /\ \A t \in Conn : \A v \in Login : todo'[t][v] > 0 => todo[t][v] > 0 \/ v = u
<1> DEFINE n == [t \in Conn |-> todo[t][u] + 1]
<1>1. PICK S : todo' = [t \in Conn |-> IF t \in S THEN [todo[t] EXCEPT ![u] = n[t]]
                                                   ELSE todo[t]]
  BY DEF MayReflect, OneMore
<1>2. n \in [Conn -> Nat]
  BY DEF TypeOK
<1> QED BY <1>1, <1>2, Reflected, ZenonT(40)

LEMMA LessIsLess == \A m \in Nat : /\ OneLess(m) \in Nat
                                   /\ OneLess(m) > 0 => m > 0
<1>1. ASSUME NEW m \in Nat PROVE OneLess(m) \in Nat /\ (OneLess(m) > 0 => m > 0)
  <2>1. CASE m = 0
    BY <2>1 DEF OneLess
  <2>2. CASE m # 0
    <3>1. OneLess(m) = m - 1
      BY <2>2 DEF OneLess
    <3> QED BY <2>2, <3>1
  <2> QED BY <2>1, <2>2
<1> QED BY <1>1

LEMMA RemovedTodo ==
  ASSUME TypeOK, NEW q, NEW u \in Login, MayReflect(q, u, OneLess)
  PROVE  /\ todo' \in [Conn -> [Login -> Nat]]
         /\ \A t \in Conn : \A v \in Login : todo'[t][v] > 0 => todo[t][v] > 0
<1> DEFINE n == [t \in Conn |-> OneLess(todo[t][u])]
<1>1. PICK S : todo' = [t \in Conn |-> IF t \in S THEN [todo[t] EXCEPT ![u] = n[t]]
                                                   ELSE todo[t]]
  BY DEF MayReflect
<1>2. n \in [Conn -> Nat] /\ \A t \in Conn : n[t] > 0 => todo[t][u] > 0
  <2>1. \A t \in Conn : todo[t][u] \in Nat
    BY DEF TypeOK
  <2> QED BY <2>1, LessIsLess
<1> HIDE DEF n
<1> QED BY <1>1, <1>2, Reflected, ZenonT(40)

LEMMA SubscribeInv == ASSUME IInv, NEW c \in Conn, HandleSub(c) PROVE IInv'
<1> DEFINE f == call[c].frame
           u == call[c].name
           d == call[c].dest
<1> USE DEF IInv, HandleSub
<1>0. /\ pc[c] \in InSubscribe /\ pc[c] \notin Broadcasting /\ f \in SubscribeFrame
      /\ f.dest \in Channel \cup {Nil} /\ f.id \in SubId \cup {Nil}
      /\ u \in Login \cup {Nil} /\ d \in Channel \cup {Nil} /\ call[c] \in Call
  <2>1. pc[c] \in InSubscribe
    BY DEF Subscribe, PutChannel, PutSubID, AddUser, PutIDchannel, InSubscribe
  <2>2. f \in SubscribeFrame /\ pc[c] \notin Broadcasting
    BY <2>1 DEF Sound, InSubscribe, Broadcasting
  <2>3. call[c] \in Call
    BY DEF TypeOK
  <2> QED BY <2>1, <2>2, <2>3 DEF SubscribeFrame, Call
<1>1. /\ activeClients' \in SUBSET Conn /\ terminate' \in [Conn -> BOOLEAN]
      /\ sent' \in [Conn -> Nat]
  BY DEF TypeOK
<1>2. ASSUME Throw(c), UNCHANGED <<subscriptions, todo>> PROVE IInv'
  BY <1>0, <1>1, <1>2, ThrowRests, RestInv
<1>3. CASE Subscribe(c)
  <2>1. CASE f.dest = Nil
    BY <1>2, <1>3, <2>1 DEF Subscribe
  <2>2. CASE f.dest # Nil
    <3> DEFINE e == [call[c] EXCEPT !.name = loginID[c], !.dest = f.dest]
    <3>1. PICK l \in {"putChannel", "joinSubID"} :
            /\ call' = [call EXCEPT ![c] = e]
            /\ pc' = [pc EXCEPT ![c] = l]
            /\ l = "joinSubID" => channels[f.dest] # Nil
            /\ UNCHANGED <<subscriptions, todo>>
      BY <1>3, <2>2 DEF Subscribe, Goto
    <3>2. loginID[c] \in Login \cup {Nil} /\ (loginID[c] # Nil => userID[loginID[c]] # Nil)
      BY DEF TypeOK, LoginBacked
    <3>3. /\ e \in Call /\ e.frame = f /\ e.name = loginID[c] /\ e.dest = f.dest
          /\ l \in Label
      BY <1>0, <3>2, ZenonT(40) DEF Call, Label, InSubscribe
    <3> HIDE DEF e
    <3>4. /\ pc' \in [Conn -> Label] /\ call' \in [Conn -> Call]
          /\ pc'[c] = l /\ call'[c] = e
          /\ \A k \in Conn \ {c} : pc'[k] = pc[k] /\ call'[k] = call[k]
      BY <3>1, <3>3, StepTypes
    <3>5. c \in Sound'
      BY <1>0, <2>2, <3>1, <3>2, <3>3, <3>4
      DEF Sound, InConnect, InSubscribe, InUnsubscribe, Broadcasting, logins,
          subscriptions
    <3>6. pc'[c] \notin Broadcasting
      BY <3>4 DEF Broadcasting
    <3> QED BY <1>0, <1>1, <3>1, <3>4, <3>5, <3>6, Quiet
  <2> QED BY <2>1, <2>2
<1>4. CASE PutChannel(c)
  <2>1. CASE u = Nil
    BY <1>2, <1>4, <2>1 DEF PutChannel, subscriptions
  <2>2. CASE u # Nil
    <3>1. u \in Login /\ userID[u] # Nil /\ d \in Channel
      BY <1>0, <1>4, <2>2 DEF PutChannel, Sound, InSubscribe
    <3>2. Step(c, "putSubID") /\ "putSubID" \in Label
      BY <1>4, <2>2 DEF PutChannel, Label, InSubscribe
    <3>3. /\ pc' \in [Conn -> Label] /\ call' \in [Conn -> Call]
          /\ pc'[c] = "putSubID" /\ call'[c] = call[c]
          /\ \A k \in Conn \ {c} : pc'[k] = pc[k] /\ call'[k] = call[k]
      BY <3>2, StepMoves
    <3>4. /\ queues' = [queues EXCEPT ![<<c, d>>] = [Empty EXCEPT ![u] = 1]]
          /\ channels' = [channels EXCEPT ![d] = <<c, d>>]
          /\ UNCHANGED <<SubID, IDchannel, todo, logins, monitor>>
      BY <1>4, <2>2 DEF PutChannel
    <3>5. <<c, d>> \in QueueRef /\ <<c, d>> # Nil
      BY <3>1, NilAssumption DEF QueueRef
    <3>6. /\ channels' \in [Channel -> QueueRef \cup {Nil}]
          /\ channels'[d] # Nil
          /\ \A x \in Channel : channels[x] # Nil => channels'[x] # Nil
      BY <3>1, <3>4, <3>5 DEF TypeOK
    <3>7. /\ queues' \in [QueueRef -> [Login -> Nat]]
          /\ \A q \in QueueRef : \A v \in Login :
               queues'[q][v] > 0 => queues[q][v] > 0 \/ v = u
      BY <3>1, <3>4, <3>5 DEF TypeOK, Empty
    <3>8. TypeOK'
      BY <1>1, <3>3, <3>4, <3>6, <3>7 DEF TypeOK, logins
    <3>9. Moved(c)
      BY <3>3, <3>4, <3>6 DEF Moved, logins
    <3>10. c \in Sound'
      BY <1>0, <2>2, <3>1, <3>3, <3>4, <3>6, NilAssumption
      DEF Sound, InConnect, InSubscribe, InUnsubscribe, Broadcasting, logins
    <3>11. ListedRouted'
      BY <3>1, <3>4, <3>7 DEF ListedRouted, Listed, logins
    <3>12. LoginBacked' /\ IDchannelHasQueue'
      BY <3>4, <3>6 DEF LoginBacked, IDchannelHasQueue, TypeOK, logins
    <3>13. MonitorHeldByBroadcast'
      BY <1>0, <3>3, <3>4, MonitorKept DEF Broadcasting
    <3> QED BY <3>8, <3>9, <3>10, <3>11, <3>12, <3>13, Combine
  <2> QED BY <2>1, <2>2
<1>5. CASE PutSubID(c)
  <2>1. CASE f.id = Nil \/ u = Nil
    BY <1>2, <1>5, <2>1 DEF PutSubID, subscriptions
  <2>2. CASE f.id # Nil /\ u # Nil
    <3>1. PICK l \in {"putIDchannel", "addUser"} : Step(c, l)
      BY <1>5, <2>2 DEF PutSubID
    <3>2. l \in Label
      BY DEF Label, InSubscribe
    <3>3. /\ pc' \in [Conn -> Label] /\ call' \in [Conn -> Call]
          /\ pc'[c] = l /\ call'[c] = call[c]
          /\ \A k \in Conn \ {c} : pc'[k] = pc[k] /\ call'[k] = call[k]
      BY <3>1, <3>2, StepMoves
    <3>4. /\ SubID' = [SubID EXCEPT ![f.id] = u]
          /\ UNCHANGED <<IDchannel, channels, queues, todo, logins, monitor>>
      BY <1>5, <2>2 DEF PutSubID
    <3>5. SubID' \in [SubId -> Login \cup {Nil}]
      BY <1>0, <3>4 DEF TypeOK
    <3>6. TypeOK'
      BY <1>1, <3>3, <3>4, <3>5 DEF TypeOK, logins
    <3>7. Moved(c)
      BY <3>3, <3>4 DEF Moved, logins
    <3>8. c \in Sound'
      BY <1>0, <1>5, <2>2, <3>3, <3>4
      DEF PutSubID, Sound, InConnect, InSubscribe, InUnsubscribe, Broadcasting, logins
    <3>9. ListedRouted' /\ LoginBacked' /\ IDchannelHasQueue'
      BY <3>4 DEF ListedRouted, Listed, LoginBacked, IDchannelHasQueue, logins
    <3>10. MonitorHeldByBroadcast'
      BY <1>0, <3>3, <3>4, MonitorKept DEF Broadcasting
    <3> QED BY <3>6, <3>7, <3>8, <3>9, <3>10, Combine
  <2> QED BY <2>1, <2>2
<1>6. CASE AddUser(c)
  <2> DEFINE q == channels[d]
  <2>1. /\ u \in Login /\ userID[u] # Nil /\ d \in Channel /\ q # Nil
        /\ q \in QueueRef /\ f.id # Nil
    <3>1. pc[c] = "addUser" /\ c \in Sound
      BY <1>6 DEF AddUser
    <3>2. u # Nil /\ d # Nil /\ f.id # Nil /\ userID[u] # Nil /\ q # Nil
      BY <3>1 DEF Sound, InSubscribe
    <3>3. channels \in [Channel -> QueueRef \cup {Nil}]
      BY DEF TypeOK
    <3> QED BY <1>0, <3>2, <3>3
  <2>2. Step(c, "putIDchannel") /\ "putIDchannel" \in Label
    BY <1>6 DEF AddUser, Label, InSubscribe
  <2>3. /\ pc' \in [Conn -> Label] /\ call' \in [Conn -> Call]
        /\ pc'[c] = "putIDchannel" /\ call'[c] = call[c]
        /\ \A k \in Conn \ {c} : pc'[k] = pc[k] /\ call'[k] = call[k]
    BY <2>2, StepMoves
  <2>4. /\ queues' = [queues EXCEPT ![q][u] = @ + 1]
        /\ channels' = [channels EXCEPT ![d] = q]
        /\ MayReflect(q, u, OneMore)
        /\ UNCHANGED <<SubID, IDchannel, logins, monitor>>
    BY <1>6, <2>1 DEF AddUser
  <2>5. channels' = channels
    BY <2>1, <2>4 DEF TypeOK
  <2>6. /\ todo' \in [Conn -> [Login -> Nat]]
        /\ \A t \in Conn : \A v \in Login : todo'[t][v] > 0 => todo[t][v] > 0 \/ v = u
    BY <2>1, <2>4, AddedTodo
  <2>7. /\ queues' \in [QueueRef -> [Login -> Nat]]
        /\ \A r \in QueueRef : \A v \in Login :
             queues'[r][v] > 0 => queues[r][v] > 0 \/ v = u
    <3>1. queues \in [QueueRef -> [Login -> Nat]]
      BY DEF TypeOK
    <3>2. queues[q][u] + 1 \in Nat /\ queues' = [queues EXCEPT ![q][u] = queues[q][u] + 1]
      BY <2>1, <2>4, <3>1
    <3> HIDE DEF q, u
    <3> QED BY <2>1, <3>1, <3>2, EntryChange
  <2>8. TypeOK'
    BY <1>1, <2>3, <2>4, <2>5, <2>6, <2>7 DEF TypeOK, logins
  <2>9. Moved(c)
    BY <2>3, <2>4, <2>5 DEF Moved, logins
  <2>10. c \in Sound'
    <3>1. /\ pc'[c] = "putIDchannel" /\ call'[c].frame = f
          /\ call'[c].name = u /\ call'[c].dest = d
      BY <2>3
    <3>2. /\ f \in SubscribeFrame /\ u # Nil /\ d # Nil /\ f.id # Nil
          /\ userID'[u] # Nil /\ channels'[d] # Nil
      BY <1>0, <2>1, <2>4, <2>5, NilAssumption DEF logins
    <3> HIDE DEF f, u, d
    <3> QED BY <3>1, <3>2
        DEF Sound, InConnect, InSubscribe, InUnsubscribe, Broadcasting
  <2>11. ListedRouted'
    BY <2>1, <2>4, <2>6, <2>7 DEF ListedRouted, Listed, logins
  <2>12. LoginBacked' /\ IDchannelHasQueue'
    BY <2>4, <2>5 DEF LoginBacked, IDchannelHasQueue, logins
  <2>13. MonitorHeldByBroadcast'
    BY <1>0, <2>3, <2>4, MonitorKept DEF Broadcasting
  <2> QED BY <2>8, <2>9, <2>10, <2>11, <2>12, <2>13, Combine
<1>7. CASE PutIDchannel(c)
  <2>1. f.id \in SubId /\ d \in Channel /\ channels[d] # Nil
    BY <1>0, <1>7 DEF PutIDchannel, Sound, InSubscribe
  <2>2. Rests(c)
    BY <1>7, ReturnRests DEF PutIDchannel
  <2>3. /\ c \in Sound' /\ pc'[c] \notin Broadcasting
        /\ pc' \in [Conn -> Label] /\ call' \in [Conn -> Call]
        /\ \A k \in Conn \ {c} : pc'[k] = pc[k] /\ call'[k] = call[k]
    BY <2>2, RestsSound
  <2>4. /\ IDchannel' = [IDchannel EXCEPT ![f.id] = d]
        /\ UNCHANGED <<SubID, channels, queues, todo, logins, monitor>>
    BY <1>7 DEF PutIDchannel
  <2>5. TypeOK'
    BY <1>1, <2>1, <2>3, <2>4 DEF TypeOK, logins
  <2>6. Moved(c)
    BY <2>3, <2>4 DEF Moved, logins
  <2>7. IDchannelHasQueue'
    BY <2>1, <2>4 DEF IDchannelHasQueue, TypeOK
  <2>8. ListedRouted' /\ LoginBacked'
    BY <2>4 DEF ListedRouted, Listed, LoginBacked, logins
  <2>9. MonitorHeldByBroadcast'
    BY <1>0, <2>3, <2>4, MonitorKept
  <2> QED BY <2>3, <2>5, <2>6, <2>7, <2>8, <2>9, Combine
<1> QED BY <1>3, <1>4, <1>5, <1>6, <1>7

LEMMA UnsubscribeInv == ASSUME IInv, NEW c \in Conn, HandleUnsub(c) PROVE IInv'
<1> DEFINE f == call[c].frame
           u == call[c].name
           d == call[c].dest
<1> USE DEF IInv, HandleUnsub
<1>0. /\ pc[c] \in InUnsubscribe /\ pc[c] \notin Broadcasting
      /\ f \in UnsubscribeFrame /\ f.id \in SubId \cup {Nil}
      /\ u \in Login \cup {Nil} /\ d \in Channel \cup {Nil} /\ call[c] \in Call
  <2>1. pc[c] \in InUnsubscribe
    BY DEF Unsubscribe, ReadSubID, RemoveUser, RemoveSubID, RemoveIDchannel,
           InUnsubscribe
  <2>2. f \in UnsubscribeFrame /\ pc[c] \notin Broadcasting
    BY <2>1 DEF Sound, InUnsubscribe, Broadcasting
  <2>3. call[c] \in Call
    BY DEF TypeOK
  <2> QED BY <2>1, <2>2, <2>3 DEF UnsubscribeFrame, Call
<1>1. /\ activeClients \in SUBSET Conn /\ terminate' \in [Conn -> BOOLEAN]
      /\ sent' \in [Conn -> Nat]
  BY DEF TypeOK
<1>2. ASSUME Throw(c), UNCHANGED <<activeClients, logins, subscriptions, todo>>
      PROVE  IInv'
  BY <1>0, <1>1, <1>2, ThrowRests, RestInv
<1>3. CASE Unsubscribe(c)
  <2>1. CASE f.id = Nil
    BY <1>2, <1>3, <2>1 DEF Unsubscribe
  <2>2. CASE f.id # Nil
    <3> DEFINE e == [call[c] EXCEPT !.dest = IDchannel[f.id]]
    <3>1. /\ call' = [call EXCEPT ![c] = e]
          /\ pc' = [pc EXCEPT ![c] = "readSubID"]
          /\ UNCHANGED <<activeClients, logins, subscriptions, todo>>
      BY <1>3, <2>2 DEF Unsubscribe, Goto
    <3>2. /\ e \in Call /\ e.frame = f /\ "readSubID" \in Label
      <4>1. IDchannel[f.id] \in Channel \cup {Nil}
        BY <1>0, <2>2 DEF TypeOK
      <4> QED BY <1>0, <4>1 DEF Call, Label, InUnsubscribe
    <3> HIDE DEF e
    <3>3. /\ pc' \in [Conn -> Label] /\ call' \in [Conn -> Call]
          /\ pc'[c] = "readSubID" /\ call'[c] = e
          /\ \A k \in Conn \ {c} : pc'[k] = pc[k] /\ call'[k] = call[k]
      BY <3>1, <3>2, StepTypes
    <3>4. c \in Sound'
      BY <1>0, <2>2, <3>2, <3>3
      DEF Sound, InConnect, InSubscribe, InUnsubscribe, Broadcasting
    <3>5. pc'[c] \notin Broadcasting
      BY <3>3 DEF Broadcasting
    <3> QED BY <1>0, <1>1, <3>1, <3>3, <3>4, <3>5, Quiet
  <2> QED BY <2>1, <2>2
<1>4. CASE ReadSubID(c)
  <2> DEFINE v == SubID[f.id]
  <2>1. CASE v = Nil
    <3>1. DisconnectAndReturn(c) /\ UNCHANGED <<subscriptions, todo>>
      BY <1>4, <2>1 DEF ReadSubID
    <3>2. /\ Rests(c) /\ activeClients' \in SUBSET Conn /\ UNCHANGED logins
      BY <3>1, DisconnectKeeps DEF logins
    <3> QED BY <1>0, <1>1, <3>1, <3>2, RestInv
  <2>2. CASE v # Nil
    <3> DEFINE e == [call[c] EXCEPT !.name = v]
    <3>1. /\ call' = [call EXCEPT ![c] = e]
          /\ pc' = [pc EXCEPT ![c] = "removeUser"]
          /\ UNCHANGED <<activeClients, logins, subscriptions, todo>>
      BY <1>4, <2>2 DEF ReadSubID, Goto
    <3>2. f.id \in SubId
      BY <1>0, <1>4 DEF ReadSubID, Sound, InUnsubscribe
    <3>3. /\ e \in Call /\ e.frame = f /\ e.name = v /\ "removeUser" \in Label
      <4>1. v \in Login
        BY <2>2, <3>2 DEF TypeOK
      <4> QED BY <1>0, <4>1 DEF Call, Label, InUnsubscribe
    <3> HIDE DEF e
    <3>4. /\ pc' \in [Conn -> Label] /\ call' \in [Conn -> Call]
          /\ pc'[c] = "removeUser" /\ call'[c] = e
          /\ \A k \in Conn \ {c} : pc'[k] = pc[k] /\ call'[k] = call[k]
      BY <3>1, <3>3, StepTypes
    <3>5. c \in Sound'
      BY <1>0, <2>2, <3>2, <3>3, <3>4, NilAssumption
      DEF Sound, InConnect, InSubscribe, InUnsubscribe, Broadcasting
    <3>6. pc'[c] \notin Broadcasting
      BY <3>4 DEF Broadcasting
    <3> QED BY <1>0, <1>1, <3>1, <3>4, <3>5, <3>6, Quiet
  <2> QED BY <2>1, <2>2
<1>5. CASE RemoveUser(c)
  <2> DEFINE q == channels[d]
  <2>1. CASE d = Nil \/ q = Nil
    BY <1>2, <1>5, <2>1 DEF RemoveUser, subscriptions
  <2>2. CASE d # Nil /\ q # Nil
    <3>1. u \in Login /\ q \in QueueRef /\ f.id # Nil
      <4>1. pc[c] = "removeUser" /\ c \in Sound
        BY <1>5 DEF RemoveUser
      <4>2. u # Nil /\ f.id # Nil
        BY <4>1 DEF Sound, InUnsubscribe
      <4>3. channels \in [Channel -> QueueRef \cup {Nil}]
        BY DEF TypeOK
      <4> QED BY <1>0, <2>2, <4>2, <4>3
    <3>2. Step(c, "removeSubID") /\ "removeSubID" \in Label
      BY <1>5, <2>2 DEF RemoveUser, Label, InUnsubscribe
    <3>3. /\ pc' \in [Conn -> Label] /\ call' \in [Conn -> Call]
          /\ pc'[c] = "removeSubID" /\ call'[c] = call[c]
          /\ \A k \in Conn \ {c} : pc'[k] = pc[k] /\ call'[k] = call[k]
      BY <3>2, StepMoves
    <3>4. /\ queues' = [queues EXCEPT ![q][u] = OneLess(@)]
          /\ MayReflect(q, u, OneLess)
          /\ UNCHANGED <<activeClients, SubID, IDchannel, channels, logins, monitor>>
      BY <1>5, <2>2 DEF RemoveUser
    <3>5. /\ todo' \in [Conn -> [Login -> Nat]]
          /\ \A t \in Conn : \A v \in Login : todo'[t][v] > 0 => todo[t][v] > 0
      BY <3>1, <3>4, RemovedTodo
    <3>6. /\ queues' \in [QueueRef -> [Login -> Nat]]
          /\ \A r \in QueueRef : \A v \in Login : queues'[r][v] > 0 => queues[r][v] > 0
      <4>1. /\ queues[q][u] \in Nat /\ OneLess(queues[q][u]) \in Nat
            /\ OneLess(queues[q][u]) > 0 => queues[q][u] > 0
        BY <3>1, LessIsLess DEF TypeOK
      <4>2. /\ queues \in [QueueRef -> [Login -> Nat]]
            /\ queues' = [queues EXCEPT ![q][u] = OneLess(queues[q][u])]
        BY <3>4 DEF TypeOK
      <4> HIDE DEF q, u
      <4> QED BY <3>1, <4>1, <4>2, EntryChange
    <3>7. TypeOK'
      BY <1>1, <3>3, <3>4, <3>5, <3>6 DEF TypeOK, logins
    <3>8. Moved(c)
      BY <3>3, <3>4 DEF Moved, logins
    <3>9. c \in Sound'
      BY <1>0, <3>1, <3>3, NilAssumption
      DEF Sound, InConnect, InSubscribe, InUnsubscribe, Broadcasting
    <3>10. ListedRouted'
      BY <3>4, <3>5, <3>6 DEF ListedRouted, Listed, logins
    <3>11. LoginBacked' /\ IDchannelHasQueue'
      BY <3>4 DEF LoginBacked, IDchannelHasQueue, logins
    <3>12. MonitorHeldByBroadcast'
      BY <1>0, <3>3, <3>4, MonitorKept DEF Broadcasting
    <3> QED BY <3>7, <3>8, <3>9, <3>10, <3>11, <3>12, Combine
  <2> QED BY <2>1, <2>2
<1>6. CASE RemoveSubID(c)
  <2>1. f.id \in SubId /\ f.id # Nil
    BY <1>0, <1>6 DEF RemoveSubID, Sound, InUnsubscribe
  <2>2. Step(c, "removeIDchannel") /\ "removeIDchannel" \in Label
    BY <1>6 DEF RemoveSubID, Label, InUnsubscribe
  <2>3. /\ pc' \in [Conn -> Label] /\ call' \in [Conn -> Call]
        /\ pc'[c] = "removeIDchannel" /\ call'[c] = call[c]
        /\ \A k \in Conn \ {c} : pc'[k] = pc[k] /\ call'[k] = call[k]
    BY <2>2, StepMoves
  <2>4. /\ SubID' = [SubID EXCEPT ![f.id] = Nil]
        /\ UNCHANGED <<activeClients, IDchannel, channels, queues, todo, logins, monitor>>
    BY <1>6 DEF RemoveSubID
  <2>5. TypeOK'
    BY <1>1, <2>1, <2>3, <2>4 DEF TypeOK, logins
  <2>6. Moved(c)
    BY <2>3, <2>4 DEF Moved, logins
  <2>7. c \in Sound'
    BY <1>0, <2>1, <2>3
    DEF Sound, InConnect, InSubscribe, InUnsubscribe, Broadcasting
  <2>8. ListedRouted' /\ LoginBacked' /\ IDchannelHasQueue'
    BY <2>4 DEF ListedRouted, Listed, LoginBacked, IDchannelHasQueue, logins
  <2>9. MonitorHeldByBroadcast'
    BY <1>0, <2>3, <2>4, MonitorKept DEF Broadcasting
  <2> QED BY <2>5, <2>6, <2>7, <2>8, <2>9, Combine
<1>7. CASE RemoveIDchannel(c)
  <2>1. f.id \in SubId
    BY <1>0, <1>7 DEF RemoveIDchannel, Sound, InUnsubscribe
  <2>2. Rests(c)
    BY <1>7, ReturnRests DEF RemoveIDchannel
  <2>3. /\ c \in Sound' /\ pc'[c] \notin Broadcasting
        /\ pc' \in [Conn -> Label] /\ call' \in [Conn -> Call]
        /\ \A k \in Conn \ {c} : pc'[k] = pc[k] /\ call'[k] = call[k]
    BY <2>2, RestsSound
  <2>4. /\ IDchannel' = [IDchannel EXCEPT ![f.id] = Nil]
        /\ UNCHANGED <<activeClients, SubID, channels, queues, todo, logins, monitor>>
    BY <1>7 DEF RemoveIDchannel
  <2>5. TypeOK'
    BY <1>1, <2>1, <2>3, <2>4 DEF TypeOK, logins
  <2>6. Moved(c)
    BY <2>3, <2>4 DEF Moved, logins
  <2>7. IDchannelHasQueue'
    BY <2>1, <2>4 DEF IDchannelHasQueue, TypeOK
  <2>8. ListedRouted' /\ LoginBacked'
    BY <2>4 DEF ListedRouted, Listed, LoginBacked, logins
  <2>9. MonitorHeldByBroadcast'
    BY <1>0, <2>3, <2>4, MonitorKept
  <2> QED BY <2>3, <2>5, <2>6, <2>7, <2>8, <2>9, Combine
<1> QED BY <1>3, <1>4, <1>5, <1>6, <1>7

-----------------------------------------------------------------------------
LEMMA SendInv == ASSUME IInv, NEW c \in Conn, HandleSend(c) PROVE IInv'
<1> DEFINE f == call[c].frame
           q == call[c].lock
           m == call[c].target
<1> USE DEF IInv, HandleSend
<1>0. /\ pc[c] \in Broadcasting \cup {"send", "acquire", "respond"} /\ f \in SendFrame
      /\ f.dest \in Channel \cup {Nil} /\ q \in QueueRef \cup {Nil}
      /\ m \in Login \cup Conn \cup {Nil} /\ call[c] \in Call
  <2>1. pc[c] \in Broadcasting \cup {"send", "acquire", "respond"}
    BY DEF Send, Acquire, Visit, Route, Lookup, Deliver, EndBroadcast, Respond,
           Broadcasting
  <2>2. f \in SendFrame
    BY <2>1 DEF Sound
  <2>3. call[c] \in Call
    BY DEF TypeOK
  <2> QED BY <2>1, <2>2, <2>3 DEF SendFrame, Call
<1>1. /\ activeClients \in SUBSET Conn /\ terminate' \in [Conn -> BOOLEAN]
      /\ sent' \in [Conn -> Nat]
  BY DEF TypeOK
<1>2. pc[c] \in Broadcasting \cup {"acquire"} =>
        /\ f.dest \in Channel /\ channels[f.dest] \in QueueRef
        /\ q \in QueueRef /\ q # Nil
  <2>1. pc[c] \in Broadcasting \cup {"acquire"} =>
          f.dest # Nil /\ channels[f.dest] # Nil /\ q # Nil
    BY DEF Sound
  <2> QED BY <1>0, <2>1 DEF TypeOK
<1>3. CASE Send(c)
  <2>0. pc[c] \notin Broadcasting
    BY <1>3 DEF Send, Broadcasting
  <2>1. CASE f.dest # Nil /\ channels[f.dest] = Nil
    <3>1. DisconnectAndReturn(c) /\ UNCHANGED <<todo, monitor>>
      BY <1>3, <2>1 DEF Send
    <3>2. /\ Rests(c) /\ activeClients' \in SUBSET Conn /\ UNCHANGED logins
      BY <3>1, DisconnectKeeps DEF logins
    <3> QED BY <1>1, <2>0, <3>1, <3>2, RestInv
  <2>2. CASE f.dest = Nil
    <3>1. Throw(c) /\ UNCHANGED <<activeClients, logins, todo, monitor>>
      BY <1>3, <2>2 DEF Send
    <3> QED BY <1>1, <2>0, <3>1, ThrowRests, RestInv
  <2>3. CASE f.dest # Nil /\ channels[f.dest] # Nil
    <3> DEFINE e == [call[c] EXCEPT !.lock = channels[f.dest]]
    <3>1. /\ call' = [call EXCEPT ![c] = e]
          /\ pc' = [pc EXCEPT ![c] = "acquire"]
          /\ UNCHANGED <<activeClients, logins, todo, monitor>>
      BY <1>3, <2>3 DEF Send, Goto
    <3>2. /\ e \in Call /\ e.frame = f /\ e.lock = channels[f.dest]
          /\ "acquire" \in Label
      <4>1. channels[f.dest] \in QueueRef
        BY <1>0, <2>3 DEF TypeOK
      <4> QED BY <1>0, <4>1 DEF Call, Label
    <3> HIDE DEF e
    <3>3. /\ pc' \in [Conn -> Label] /\ call' \in [Conn -> Call]
          /\ pc'[c] = "acquire" /\ call'[c] = e
          /\ \A k \in Conn \ {c} : pc'[k] = pc[k] /\ call'[k] = call[k]
      BY <3>1, <3>2, StepTypes
    <3>4. c \in Sound'
      BY <1>0, <2>3, <3>2, <3>3
      DEF Sound, InConnect, InSubscribe, InUnsubscribe, Broadcasting, subscriptions
    <3>5. pc'[c] \notin Broadcasting
      BY <3>3 DEF Broadcasting
    <3> QED BY <1>1, <2>0, <3>1, <3>3, <3>4, <3>5, Quiet
  <2> QED BY <2>1, <2>2, <2>3
<1>4. CASE Acquire(c)
  <2> DEFINE r == channels[f.dest]
             e == [call[c] EXCEPT !.iter = r]
  <2>1. /\ q \in QueueRef /\ r \in QueueRef /\ r # Nil /\ f.dest \in Channel /\ q # Nil
    BY <1>2, <1>4, NilAssumption DEF Acquire, QueueRef
  <2>2. /\ call' = [call EXCEPT ![c] = e]
        /\ pc' = [pc EXCEPT ![c] = "next"]
        /\ todo' = [todo EXCEPT ![c] = queues[r]]
        /\ monitor' = [monitor EXCEPT ![q] = c] /\ monitor[q] = Nil
        /\ pc[c] = "acquire"
        /\ UNCHANGED <<activeClients, logins, subscriptions>>
    BY <1>4 DEF Acquire, Goto, Free
  <2>3. /\ e \in Call /\ e.frame = f /\ e.lock = q /\ "next" \in Label
    BY <1>0, <2>1 DEF Call, Label, Broadcasting
  <2> HIDE DEF e
  <2>4. /\ pc' \in [Conn -> Label] /\ call' \in [Conn -> Call]
        /\ pc'[c] = "next" /\ call'[c] = e
        /\ \A k \in Conn \ {c} : pc'[k] = pc[k] /\ call'[k] = call[k]
    BY <2>2, <2>3, StepTypes
  <2>5. /\ todo' \in [Conn -> [Login -> Nat]]
        /\ todo'[c] = queues[r] /\ \A k \in Conn \ {c} : todo'[k] = todo[k]
    BY <2>1, <2>2 DEF TypeOK
  <2>6. /\ monitor' \in [QueueRef -> Conn \cup {Nil}]
        /\ monitor'[q] = c /\ \A x \in QueueRef \ {q} : monitor'[x] = monitor[x]
    BY <2>1, <2>2 DEF TypeOK
  <2>7. TypeOK'
    BY <1>1, <2>2, <2>4, <2>5, <2>6 DEF TypeOK, logins, subscriptions
  <2>8. Moved(c)
    BY <2>2, <2>4 DEF Moved, logins, subscriptions
  <2>9. c \in Sound'
    BY <1>0, <2>1, <2>2, <2>3, <2>4, NilAssumption
    DEF Sound, InConnect, InSubscribe, InUnsubscribe, Broadcasting, subscriptions
  <2>10. ListedRouted'
    BY <2>1, <2>2, <2>5 DEF ListedRouted, Listed, logins, subscriptions
  <2>11. LoginBacked' /\ IDchannelHasQueue'
    BY <2>2 DEF LoginBacked, IDchannelHasQueue, logins, subscriptions
  <2>12. MonitorHeldByBroadcast'
    <3>1. pc'[c] \in Broadcasting /\ pc[c] \notin Broadcasting /\ call'[c].lock = q
      BY <2>2, <2>3, <2>4 DEF Broadcasting
    <3>2. \A x \in QueueRef : monitor[x] # c
      BY <3>1 DEF MonitorHeldByBroadcast
    <3>3. \A k \in Conn : ~(pc[k] \in Broadcasting /\ call[k].lock = q)
      BY <2>1, <2>2, NilAssumption DEF MonitorHeldByBroadcast
    <3> HIDE DEF q
    <3> QED BY <2>1, <2>4, <2>6, <3>1, <3>2, <3>3 DEF MonitorHeldByBroadcast
  <2> QED BY <2>7, <2>8, <2>9, <2>10, <2>11, <2>12, Combine
<1>5. CASE Visit(c)
  <2>1. PICK v \in Login :
          /\ todo[c][v] > 0
          /\ todo' = [todo EXCEPT ![c][v] = @ - 1]
          /\ IF userID[v] = Nil
             THEN Step(c, "next")
             ELSE call' = [call EXCEPT ![c].target = v] /\ Goto(c, "route")
    BY <1>5 DEF Visit
  <2>2. userID[v] # Nil
    BY <2>1 DEF ListedRouted, Listed
  <2> DEFINE e == [call[c] EXCEPT !.target = v]
  <2>3. /\ call' = [call EXCEPT ![c] = e]
        /\ pc' = [pc EXCEPT ![c] = "route"]
        /\ pc[c] = "next"
        /\ UNCHANGED <<activeClients, logins, subscriptions, monitor>>
    BY <1>5, <2>1, <2>2 DEF Visit, Goto
  <2>4. /\ e \in Call /\ e.frame = f /\ e.lock = q /\ e.target = v /\ "route" \in Label
    BY <1>0 DEF Call, Label, Broadcasting
  <2> HIDE DEF e
  <2>5. /\ pc' \in [Conn -> Label] /\ call' \in [Conn -> Call]
        /\ pc'[c] = "route" /\ call'[c] = e
        /\ \A k \in Conn \ {c} : pc'[k] = pc[k] /\ call'[k] = call[k]
    BY <2>3, <2>4, StepTypes
  <2>6. /\ todo' \in [Conn -> [Login -> Nat]]
        /\ \A k \in Conn : \A w \in Login : todo'[k][w] > 0 => todo[k][w] > 0
    <3>1. todo[c][v] \in Nat /\ todo[c][v] - 1 \in Nat
      BY <2>1 DEF TypeOK
    <3> QED BY <2>1, <3>1 DEF TypeOK
  <2>7. TypeOK'
    BY <1>1, <2>3, <2>5, <2>6 DEF TypeOK, logins, subscriptions
  <2>8. Moved(c)
    BY <2>3, <2>5 DEF Moved, logins, subscriptions
  <2>9. pc[c] \in Broadcasting /\ pc'[c] \in Broadcasting
    BY <2>3, <2>5 DEF Broadcasting
  <2>10. c \in Sound'
    BY <1>0, <1>2, <2>2, <2>3, <2>4, <2>5, <2>9, NilAssumption
    DEF Sound, InConnect, InSubscribe, InUnsubscribe, Broadcasting, subscriptions,
        logins
  <2>11. ListedRouted'
    BY <2>3, <2>6 DEF ListedRouted, Listed, logins, subscriptions
  <2>12. LoginBacked' /\ IDchannelHasQueue'
    BY <2>3 DEF LoginBacked, IDchannelHasQueue, logins, subscriptions
  <2>13. MonitorHeldByBroadcast'
    BY <2>3, <2>4, <2>5, <2>9, MonitorKept
  <2> QED BY <2>7, <2>8, <2>10, <2>11, <2>12, <2>13, Combine
<1>6. CASE Route(c)
  <2> DEFINE k == userID[m]
             e == [call[c] EXCEPT !.target = k]
  <2>1. k # Nil /\ m \in Login /\ pc[c] = "route"
    BY <1>6 DEF Route, Sound
  <2>2. /\ call' = [call EXCEPT ![c] = e]
        /\ pc' = [pc EXCEPT ![c] = "lookup"]
        /\ UNCHANGED <<activeClients, logins, monitor, todo>>
    BY <1>6, <2>1 DEF Route, Goto
  <2>3. k \in Conn
    BY <2>1 DEF TypeOK
  <2>4. /\ e \in Call /\ e.frame = f /\ e.lock = q /\ e.target = k /\ "lookup" \in Label
    BY <1>0, <2>3 DEF Call, Label, Broadcasting
  <2> HIDE DEF e
  <2>5. /\ pc' \in [Conn -> Label] /\ call' \in [Conn -> Call]
        /\ pc'[c] = "lookup" /\ call'[c] = e
        /\ \A j \in Conn \ {c} : pc'[j] = pc[j] /\ call'[j] = call[j]
    BY <2>2, <2>4, StepTypes
  <2>6. pc[c] \in Broadcasting /\ pc'[c] \in Broadcasting /\ call'[c].lock = q
    BY <2>1, <2>4, <2>5 DEF Broadcasting
  <2>7. c \in Sound'
    BY <1>0, <1>2, <2>3, <2>4, <2>5, <2>6, NilAssumption
    DEF Sound, InConnect, InSubscribe, InUnsubscribe, Broadcasting, subscriptions
  <2> QED BY <1>1, <2>2, <2>5, <2>6, <2>7, Quiet
<1>7. CASE Lookup(c) \/ Deliver(c)
  <2>1. PICK l \in {"deliver", "next"} :
          /\ Step(c, l)
          /\ l = "deliver" => pc[c] = "lookup"
    BY <1>7 DEF Lookup, Deliver
  <2>2. /\ pc[c] \in {"lookup", "deliver"}
        /\ UNCHANGED <<activeClients, logins, monitor, todo>>
    BY <1>7 DEF Lookup, Deliver
  <2>3. l \in Label
    BY DEF Label, Broadcasting
  <2>4. /\ pc' \in [Conn -> Label] /\ call' \in [Conn -> Call]
        /\ pc'[c] = l /\ call'[c] = call[c]
        /\ \A j \in Conn \ {c} : pc'[j] = pc[j] /\ call'[j] = call[j]
    BY <2>1, <2>3, StepMoves
  <2>5. pc[c] \in Broadcasting /\ pc'[c] \in Broadcasting /\ m \in Conn
    BY <2>2, <2>4 DEF Broadcasting, Sound
  <2>6. c \in Sound'
    BY <1>0, <1>2, <2>4, <2>5, NilAssumption
    DEF Sound, InConnect, InSubscribe, InUnsubscribe, Broadcasting, subscriptions
  <2> QED BY <1>1, <2>2, <2>4, <2>5, <2>6, Quiet
<1>8. CASE EndBroadcast(c)
  <2>1. /\ pc[c] = "next" /\ pc[c] \in Broadcasting /\ q \in QueueRef
        /\ monitor' = [monitor EXCEPT ![q] = Nil]
        /\ UNCHANGED <<activeClients, logins, subscriptions, todo>>
    BY <1>2, <1>8 DEF EndBroadcast, Release, Broadcasting
  <2> DEFINE e == [call[c] EXCEPT !.lock = Nil, !.iter = Nil, !.target = Nil]
  <2>2. call' = [call EXCEPT ![c] = e] /\ Goto(c, "respond") /\ "respond" \in Label
    BY <1>8 DEF EndBroadcast, Label
  <2>10. e \in Call /\ e.frame = f
    BY <1>0 DEF Call
  <2> HIDE DEF e
  <2>3. /\ pc' \in [Conn -> Label] /\ call' \in [Conn -> Call]
        /\ pc'[c] = "respond" /\ call'[c].frame = f
        /\ \A j \in Conn \ {c} : pc'[j] = pc[j] /\ call'[j] = call[j]
    BY <2>2, <2>10, StepTypes DEF Goto
  <2>4. c \in Sound' /\ pc'[c] \notin Broadcasting
    BY <1>0, <1>2, <2>1, <2>3, NilAssumption
    DEF Sound, InConnect, InSubscribe, InUnsubscribe, Broadcasting, subscriptions
  <2>5. /\ monitor' \in [QueueRef -> Conn \cup {Nil}]
        /\ monitor'[q] = Nil /\ \A x \in QueueRef \ {q} : monitor'[x] = monitor[x]
    BY <2>1 DEF TypeOK
  <2>6. TypeOK'
    BY <1>1, <2>1, <2>3, <2>5 DEF TypeOK, logins, subscriptions
  <2>7. Moved(c)
    BY <2>1, <2>3 DEF Moved, logins, subscriptions
  <2>8. ListedRouted' /\ LoginBacked' /\ IDchannelHasQueue'
    BY <2>1
    DEF ListedRouted, Listed, LoginBacked, IDchannelHasQueue, logins, subscriptions
  <2>9. MonitorHeldByBroadcast'
    <3>1. monitor[q] = c
      BY <2>1 DEF MonitorHeldByBroadcast
    <3>2. \A x \in QueueRef \ {q} : monitor[x] # c
      BY <2>1 DEF MonitorHeldByBroadcast
    <3>3. \A j \in Conn \ {c} : ~(pc[j] \in Broadcasting /\ call[j].lock = q)
      BY <2>1, <3>1 DEF MonitorHeldByBroadcast
    <3> HIDE DEF q
    <3> QED BY <2>1, <2>3, <2>4, <2>5, <3>1, <3>2, <3>3, NilAssumption
            DEF MonitorHeldByBroadcast
  <2> QED BY <2>4, <2>6, <2>7, <2>8, <2>9, Combine
<1>9. CASE Respond(c)
  <2>1. /\ Return(c) /\ pc[c] \notin Broadcasting
        /\ UNCHANGED <<activeClients, logins, subscriptions, todo, monitor>>
    BY <1>9 DEF Respond, Broadcasting
  <2> QED BY <1>1, <2>1, ReturnRests, RestInv
<1> QED BY <1>3, <1>4, <1>5, <1>6, <1>7, <1>8, <1>9

LEMMA NextInv == IInv /\ [Next]_vars => IInv'
<1>1. ASSUME IInv, Next PROVE IInv'
  <2>1. PICK c \in Conn :
          \/ Accept(c)
          \/ \E f \in Script[c] : Receive(c, f)
          \/ Hangup(c)
          \/ Process(c)
    BY <1>1 DEF Next
  <2> QED
    BY <1>1, <2>1, AcceptInv, ReceiveInv, HangupInv, ConnectInv, SubscribeInv,
       UnsubscribeInv, SendInv, DisconnectInv, OtherInv
    DEF Process
<1>2. ASSUME IInv, UNCHANGED vars PROVE IInv'
  <2> USE <1>2 DEF vars, logins, subscriptions, IInv
  <2>1. TypeOK'
    BY DEF TypeOK
  <2>2. Sound' = Sound
    BY DEF Sound
  <2>3. LoginBacked' /\ ListedRouted' /\ IDchannelHasQueue'
    BY DEF LoginBacked, ListedRouted, Listed, IDchannelHasQueue
  <2>4. MonitorHeldByBroadcast'
    BY DEF MonitorHeldByBroadcast
  <2> QED BY <2>1, <2>2, <2>3, <2>4
<1> QED BY <1>1, <1>2

-----------------------------------------------------------------------------
(* The strengthened invariant holds in every reachable state.              *)
THEOREM Invariant == Spec => []IInv
BY InitInv, NextInv, PTL DEF Spec

(* The shared maps, the queues and the locals keep their types, whatever   *)
(* frames the clients send and however their handlers interleave.          *)
THEOREM TypeCorrect == Spec => []TypeOK
<1>1. IInv => TypeOK
  BY DEF IInv
<1> QED BY <1>1, Invariant, PTL

(* A connection that has a login has a user and a route behind it.         *)
THEOREM LoginsBacked == Spec => []LoginBacked
<1>1. IInv => LoginBacked
  BY DEF IInv
<1> QED BY <1>1, Invariant, PTL

(* The unboxing of the second userID.get in a broadcast never throws.      *)
THEOREM RoutesExist == Spec => []RoutesNeverMissing
<1>1. IInv => RoutesNeverMissing
  BY DEF IInv, RoutesNeverMissing, ListedRouted, Sound
<1> QED BY <1>1, Invariant, PTL

(* Whatever IDchannel names has a queue in channels.                       *)
THEOREM QueuesExist == Spec => []IDchannelHasQueue
<1>1. IInv => IDchannelHasQueue
  BY DEF IInv
<1> QED BY <1>1, Invariant, PTL

(* A thread holds the monitor of a queue exactly while it broadcasts to    *)
(* it: every way out of the broadcast gives it back.                       *)
THEOREM MonitorsReleased == Spec => []MonitorHeldByBroadcast
<1>1. IInv => MonitorHeldByBroadcast
  BY DEF IInv
<1> QED BY <1>1, Invariant, PTL

=============================================================================
