---------------------------- MODULE MCStompSession ----------------------------
(* Names of every kind: plain, ending with the byte that ends a frame, with *)
(* a command behind that byte, too long for the decoder's buffer, empty.   *)
EXTENDS StompSession

CONSTANTS plain, caret, leave, long, empty

Spelled ==
  [n \in {plain, caret, leave, long, empty} |->
     CASE n = plain -> <<"text">>
       [] n = caret -> <<"text", "^">>
       [] n = leave -> <<"text", "^", "unsubscribe">>
       [] n = long -> <<"long">>
       [] n = empty -> << >>]

PlainCredential == {<<plain, plain>>}

(* One that can be read, one that has too long a passcode for it, one that *)
(* the builder refuses, and a login of each other kind.                    *)
Credentials == PlainCredential \cup {<<plain, long>>, <<plain, empty>>}
                 \cup {<<l, plain>> : l \in {caret, leave, long}}

=============================================================================
