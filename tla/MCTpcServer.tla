----------------------------- MODULE MCTpcServer -----------------------------
(* Two publishers, of which one subscribes to the channel itself, and a    *)
(* subscriber that may leave at any time.                                  *)
EXTENDS TpcServer, TLC

CONSTANTS c1, c2, c3

Frames == (c1 :> <<"publish">>) @@ (c2 :> <<"login", "publish">>)
            @@ (c3 :> <<"login">>)

=============================================================================
