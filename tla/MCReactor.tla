------------------------------ MODULE MCReactor ------------------------------
(* Two connections, whose tasks write to themselves and to each other.     *)
EXTENDS Reactor, TLC

CONSTANTS c1, c2

Reads == (c1 :> 1) @@ (c2 :> 1)

=============================================================================
