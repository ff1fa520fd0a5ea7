------------------------------- MODULE PubSub -------------------------------
(***************************************************************************)
(* What a publish/subscribe service promises.  A publication on a channel  *)
(* owes one copy to every subscription of every member, as they are when   *)
(* it begins, and is over only when each copy was given to its member or   *)
(* was lost with one that is no longer attached; the publications of a     *)
(* channel follow one another.  A subscription that comes or goes during   *)
(* a publication may be served by it or not.                               *)
(***************************************************************************)
EXTENDS Naturals

CONSTANTS Member,     \* who subscribes
          Publisher,  \* who publishes
          Channel,
          None        \* not a publisher

VARIABLES subs,       \* subs[d][k]: how often k is subscribed to d
          attached,   \* the members that can be given something
          publisher,  \* who publishes on each channel now, or None
          left,       \* the copies of this publication still to be given
          given       \* the copies of it that were given

vars == <<subs, attached, publisher, left, given>>

Zero == [k \in Member |-> 0]

Init == /\ subs = [d \in Channel |-> Zero]
        /\ attached = Member
        /\ publisher = [d \in Channel |-> None]
        /\ left = [d \in Channel |-> Zero]
        /\ given = [d \in Channel |-> Zero]

Subscribe(k, d) ==
  /\ subs' = [subs EXCEPT ![d][k] = @ + 1]
  /\ \/ UNCHANGED left
     \/ publisher[d] # None /\ left' = [left EXCEPT ![d][k] = @ + 1]
  /\ UNCHANGED <<attached, publisher, given>>

Unsubscribe(k, d) ==
  /\ subs[d][k] > 0
  /\ subs' = [subs EXCEPT ![d][k] = @ - 1]
  /\ \/ UNCHANGED left
     \/ left[d][k] > 0 /\ left' = [left EXCEPT ![d][k] = @ - 1]
  /\ UNCHANGED <<attached, publisher, given>>

Detach(k) == /\ attached' = attached \ {k}
             /\ UNCHANGED <<subs, publisher, left, given>>

Begin(p, d) ==
  /\ publisher[d] = None
  /\ publisher' = [publisher EXCEPT ![d] = p]
  /\ left' = [left EXCEPT ![d] = subs[d]]
  /\ UNCHANGED <<subs, attached, given>>

Give(k, d) ==
  /\ left[d][k] > 0 /\ k \in attached
  /\ left' = [left EXCEPT ![d][k] = @ - 1]
  /\ given' = [given EXCEPT ![d][k] = @ + 1]
  /\ UNCHANGED <<subs, attached, publisher>>

(* The copy cannot be given: its member is not attached, from now on.      *)
Lose(k, d) ==
  /\ left[d][k] > 0
  /\ left' = [left EXCEPT ![d][k] = @ - 1]
  /\ attached' = attached \ {k}
  /\ UNCHANGED <<subs, publisher, given>>

End(d) ==
  /\ publisher[d] # None /\ left[d] = Zero
  /\ publisher' = [publisher EXCEPT ![d] = None]
  /\ given' = [given EXCEPT ![d] = Zero]
  /\ UNCHANGED <<subs, attached, left>>

Next == \/ \E d \in Channel : \/ \E k \in Member : \/ Subscribe(k, d)
                                                   \/ Unsubscribe(k, d)
                                                   \/ Give(k, d)
                                                   \/ Lose(k, d)
                              \/ \E p \in Publisher : Begin(p, d)
                              \/ End(d)
        \/ \E k \in Member : Detach(k)

Spec == Init /\ [][Next]_vars

=============================================================================
