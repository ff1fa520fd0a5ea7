---------------------------- MODULE MCStompBroker ----------------------------
(* Instances of the STOMP broker for TLC.                                  *)
EXTENDS StompBrokerProps, TLC

CONSTANTS c1, c2, c3, ann, bob, pw, d1, d2, i1, i2, i3

ConnectAs(u) == [cmd |-> "CONNECT", valid |-> TRUE, login |-> u, passcode |-> pw]
SubscribeTo(d, i) == [cmd |-> "SUBSCRIBE", dest |-> d, id |-> i]
UnsubscribeFrom(i) == [cmd |-> "UNSUBSCRIBE", id |-> i]
SendTo(d) == [cmd |-> "SEND", dest |-> d]
Bye(r) == [cmd |-> "DISCONNECT", receipt |-> r]

(* Every kind of frame, well formed or not, on two connections that share  *)
(* a login, the subscription ids and the channel.                          *)
AnyScript == [c \in Conn |->
  {ConnectAs(u) : u \in Login} \cup {[ConnectAs(ann) EXCEPT !.valid = FALSE]}
  \cup {SubscribeTo(d, i) : d \in Channel, i \in SubId \cup {Nil}}
  \cup {SubscribeTo(Nil, i1)}
  \cup {UnsubscribeFrom(i) : i \in SubId \cup {Nil}}
  \cup {SendTo(d) : d \in Channel \cup {Nil}}
  \cup {Bye(r) : r \in Receipt \cup {Nil}} \cup {[cmd |-> "OTHER", blank |-> b] : b \in BOOLEAN}]

AnyBound == (c1 :> 3) @@ (c2 :> 2)

(* Logged in clients with ids of their own.                                *)
OwnId == (c1 :> i1) @@ (c2 :> i2) @@ (c3 :> i3)
WarmScript == [c \in Conn |->
  {SubscribeTo(d1, OwnId[c]), UnsubscribeFrom(OwnId[c]), SendTo(d1), Bye("r")}]
Own == (c1 :> ann) @@ (c2 :> bob) @@ (c3 :> ann)
WarmBound == (c1 :> 2) @@ (c2 :> 2) @@ (c3 :> 1)
WarmSpec == WarmInit(Own, c1, pw) /\ [][CarefulNext]_vars

(* Two clients that log in and subscribe to a channel that is new, with    *)
(* ids of their own, or each with the first id a client chooses.           *)
FirstBound == [c \in Conn |-> 2]
RaceScript == [c \in Conn |-> {ConnectAs(Own[c]), SubscribeTo(d1, OwnId[c])}]
SharedIdScript == [c \in Conn |-> {ConnectAs(Own[c]), SubscribeTo(d1, i1)}]

=============================================================================
