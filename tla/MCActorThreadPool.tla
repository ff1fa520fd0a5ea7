--------------------------- MODULE MCActorThreadPool ---------------------------
(* Two actors and two threads: the selector thread and both workers can    *)
(* meet at the monitor of one actor while the other actor is served.       *)
EXTENDS ActorThreadPool

CONSTANTS a1, a2, w1, w2

=============================================================================
