------------------------------ MODULE MCFraming ------------------------------
(* Messages of no byte to some, with the bytes that mean something to the  *)
(* decoder among them, and buffers they just fit into or just do not.      *)
EXTENDS Framing, TLC

Sample == [k \in Codec |->
  CASE k = "stomp"  -> {<<97>>, <<97, 97, 97>>, <<Caret>>}
    [] k = "ascii"  -> {<<97, Newline, Nul, Newline>>, <<97, Newline>>}
    [] k = "line"   -> {<< >>, <<97, 97, 97>>, <<Nul>>}
    [] k = "object" -> {<<1>>, <<0, 0, 2>>, <<9>>}]
Foreign == {<<9>>}
Sizes == [k \in Codec |-> CASE k = "stomp" -> 5 [] k = "line" -> 1 [] k = "object" -> 4
                            [] OTHER -> 0]

=============================================================================
