------------------------------- MODULE Framing -------------------------------
(***************************************************************************)
(* Bytes and messages: one direction of a connection.  A sender turns its  *)
(* messages into bytes and writes them, in as many parts as the socket     *)
(* makes of them; a receiver reads bytes in chunks of any size and feeds   *)
(* them one by one to a decoder.  codec says which pair it is:             *)
(*   "stomp"   sendLine of the C++ client to StompMessageEncoderDecoderImpl *)
(*   "ascii"   encode of the STOMP server to getLine of the C++ client     *)
(*   "line"    sendLine of the echo client to LineMessageEncoderDecoder    *)
(*   "object"  ObjectEncoderDecoder of the RCI example, both ends          *)
(* A message is the sequence of its bytes, as numbers.  What becomes of it *)
(* once it is decoded is left to the modules of the protocols, except that *)
(* process of the STOMP server may throw.                                  *)
(***************************************************************************)
EXTENDS Integers, Sequences, SequencesExt

CONSTANTS Messages,     \* Messages[k]: what may be sent with codec k
          Unknown,      \* the objects whose class the receiver does not have
          Room,         \* Room[k]: the bytes a new decoder has room for
          MaxMessages   \* bound: how many messages are sent

Nul == 0
Newline == 10
At == 64
Caret == 94

Codec == {"stomp", "ascii", "line", "object"}
Byte == 0..255
MaxInt == 2147483647

(* getline leaves out the line end, a serialized object begins with a      *)
(* header and fits into an array, and the buffer of a line may be doubled. *)
ASSUME FramingAssumption ==
  /\ Messages \in [Codec -> SUBSET Seq(Byte)] /\ Unknown \subseteq Messages["object"]
  /\ \A m \in Messages["line"] : \A i \in DOMAIN m : m[i] # Newline
  /\ \A m \in Messages["object"] : Len(m) \in 1..MaxInt
  /\ Room \in [Codec -> Nat] /\ Room["object"] = 4 /\ Room["line"] > 0
  /\ MaxMessages \in Nat

VARIABLES
  codec, threadPerClient,  \* never change: the two ends
  offered,         \* history: the messages given to send
  sent, failed,    \* history: how many of them it reported as sent; one failed
  calls, tmp,      \* the write calls of the current send, bytes of the first done
  written,         \* history: all bytes the socket has taken
  wire,            \* bytes under way
  broken,          \* the connection is closed or reset
  chunk,           \* bytes read and not decoded yet
  bytes, room,     \* the decoder's buffer and its length
  inObject,        \* objectBytes is not null: the length has been read
  decoded,         \* the messages decoded, or the lines read
  threw,           \* history: the decoder has thrown
  stopped,         \* the receiver reads no more
  got,             \* history: how many bytes have been read
  cut, since       \* history: how many had been, and how many messages been
                   \* decoded, when process last threw

setup == <<codec, threadPerClient>>
sender == <<offered, sent, failed, calls, tmp>>
net == <<written, wire, broken>>
decoder == <<bytes, room, inObject, decoded>>
place == <<got, cut, since>>
receiver == <<chunk, decoder, threw, stopped, place>>
vars == <<setup, sender, net, receiver>>

Init ==
  /\ codec \in Codec /\ threadPerClient \in BOOLEAN
  /\ offered = << >> /\ sent = 0 /\ failed = FALSE /\ calls = << >> /\ tmp = 0
  /\ written = << >> /\ wire = << >> /\ broken = FALSE
  /\ chunk = << >>
  /\ bytes = << >> /\ room = Room[codec] /\ inObject = FALSE /\ decoded = << >>
  /\ threw = FALSE /\ stopped = FALSE
  /\ got = 0 /\ cut = 0 /\ since = 0

-----------------------------------------------------------------------------
(* The sender                                                              *)

(* putInt and getInt of the length, in 4 bytes.                            *)
FourBytes(n) ==
  <<(n \div 16777216) % 256, (n \div 65536) % 256, (n \div 256) % 256, n % 256>>
Length(b) == ((b[1] * 256 + b[2]) * 256 + b[3]) * 256 + b[4]

(* What is passed to sendBytes or written: sendFrameAscii makes two calls, *)
(* and a frame of the STOMP client ends with ^, @ and a line end of its    *)
(* own.                                                                    *)
Calls(k, m) ==
  CASE k = "stomp"  -> <<m \o <<Caret, At, Newline>>, <<Newline>>>>
    [] k = "line"   -> <<m, <<Newline>>>>
    [] k = "ascii"  -> <<m \o <<Nul>>>>
    [] k = "object" -> <<FourBytes(Len(m)) \o m>>

Offer(m) ==
  /\ calls = << >> /\ Len(offered) < MaxMessages
  /\ offered' = Append(offered, m)
  /\ calls' = Calls(codec, m) /\ tmp' = 0
  /\ UNCHANGED <<setup, sent, failed, net, receiver>>

(* write_some of n more bytes from position from; a connection that is     *)
(* broken may still take them.                                             *)
Take(from, n) ==
  LET taken == SubSeq(calls[1], from + 1, from + n) IN
  /\ tmp' = tmp + n
  /\ written' = written \o taken
  /\ wire' = IF broken THEN wire ELSE wire \o taken
  /\ UNCHANGED <<setup, offered, sent, failed, calls, broken, receiver>>

(* Mutant: the rest of the bytes is taken from the beginning.              *)
WriteAgain ==
  /\ calls # << >> /\ \E n \in 1..(Len(calls[1]) - tmp) : Take(0, n)

WriteSome ==
  /\ calls # << >> /\ \E n \in 1..(Len(calls[1]) - tmp) : Take(tmp, n)

(* sendBytes returns true; after the last call so does sendFrameAscii.     *)
WriteDone ==
  /\ calls # << >> /\ tmp = Len(calls[1])
  /\ calls' = Tail(calls) /\ tmp' = 0
  /\ sent' = IF Len(calls) = 1 THEN sent + 1 ELSE sent
  /\ UNCHANGED <<setup, offered, failed, net, receiver>>

WriteFails ==
  /\ calls # << >> /\ tmp < Len(calls[1]) /\ broken
  /\ calls' = << >> /\ tmp' = 0
  /\ failed' = TRUE
  /\ UNCHANGED <<setup, offered, sent, net, receiver>>

(* The sender closes, or the connection is reset and bytes are lost.       *)
Break ==
  /\ ~broken
  /\ broken' = TRUE
  /\ \E n \in 0..Len(wire) : wire' = SubSeq(wire, 1, n)
  /\ UNCHANGED <<setup, sender, written, receiver>>

-----------------------------------------------------------------------------
(* The receiver                                                            *)

(* getBytes(&ch, 1) of the C++ client, or a read of the server.            *)
Read ==
  /\ ~stopped /\ chunk = << >>
  /\ \E n \in 1..Len(wire) :
       /\ codec = "ascii" => n = 1
       /\ chunk' = SubSeq(wire, 1, n)
       /\ wire' = SubSeq(wire, n + 1, Len(wire))
       /\ got' = got + n
  /\ UNCHANGED <<setup, sender, written, broken, decoder, threw, stopped, cut, since>>

(* Mutant: what was read before the end of the stream is a line.           *)
EndPartial ==
  /\ ~stopped /\ chunk = << >> /\ wire = << >> /\ broken
  /\ stopped' = TRUE
  /\ decoded' = IF bytes = << >> THEN decoded ELSE Append(decoded, bytes)
  /\ UNCHANGED <<setup, sender, net, chunk, bytes, room, inObject, threw, place>>

(* End of the stream: getFrameAscii returns false, the server closes.      *)
End ==
  /\ ~stopped /\ chunk = << >> /\ wire = << >> /\ broken
  /\ stopped' = TRUE
  /\ UNCHANGED <<setup, sender, net, chunk, decoder, threw, place>>

(* An exception ends the thread of the client, which closes the socket, or *)
(* the task of the reactor, with the rest of the chunk.                    *)
Unwind ==
  /\ chunk' = << >>
  /\ stopped' = threadPerClient
  /\ broken' = (broken \/ threadPerClient)
  /\ wire' = IF threadPerClient THEN << >> ELSE wire
Throw == Unwind /\ threw' = TRUE /\ UNCHANGED place

Ignored == << >>  \* mutant: a chunk is decoded up to its first message
Rest == Tail(chunk)

Consume == chunk' = Tail(chunk) /\ UNCHANGED <<wire, broken, threw, stopped, place>>
Keep(b) == Consume /\ bytes' = Append(bytes, b) /\ UNCHANGED decoded
Deliver(m) == decoded' = Append(decoded, m) /\ bytes' = << >>
Emit(m) == /\ chunk' = Rest
           /\ Deliver(m)
           /\ UNCHANGED <<wire, broken, threw, stopped, place>>

(* process throws on the message: the decoder, which has given it out,     *)
(* goes on with what is read next.                                         *)
ProcessThrows(m) ==
  /\ Unwind /\ Deliver(m)
  /\ cut' = got /\ since' = Len(decoded')
  /\ UNCHANGED <<threw, got>>

NearlyFull == Len(bytes) + 1 >= room  \* mutant: the last byte is not used
Full == Len(bytes) = room

(* ByteBuffer.put before the byte is looked at.                            *)
DecodeStomp(b) ==
  /\ codec = "stomp"
  /\ \/ Full /\ Throw /\ UNCHANGED <<bytes, decoded>>
     \/ ~Full /\ b = Caret /\ (Emit(bytes) \/ ProcessThrows(bytes))
     \/ ~Full /\ b # Caret /\ Keep(b)
  /\ UNCHANGED <<room, inObject>>

Same == room  \* mutant: the array is not made longer
Doubled == room * 2

DecodeLine(b) ==
  /\ codec = "line"
  /\ \/ b = Newline /\ Emit(bytes) /\ UNCHANGED room
     \/ b # Newline /\ Keep(b) /\ room' = IF Full THEN Doubled ELSE room
  /\ UNCHANGED inObject

(* The four bytes of the length, then those of the object.  One that       *)
(* cannot be deserialized stays in objectBytes, and every later byte is    *)
(* out of bounds.                                                          *)
DecodeObject(b) ==
  LET last == Len(bytes) + 1 = room
      m == Append(bytes, b)
  IN
  /\ codec = "object"
  /\ \/ ~inObject /\ ~last /\ Keep(b) /\ UNCHANGED <<room, inObject>>
     \/ /\ ~inObject /\ last
        /\ Consume /\ bytes' = << >> /\ UNCHANGED decoded
        /\ inObject' = TRUE /\ room' = Length(m)
     \/ /\ inObject /\ Full
        /\ Throw /\ UNCHANGED <<bytes, room, inObject, decoded>>
     \/ inObject /\ ~Full /\ ~last /\ Keep(b) /\ UNCHANGED <<room, inObject>>
     \/ /\ inObject /\ last
        /\ IF m \in Unknown
           THEN Throw /\ bytes' = m /\ UNCHANGED <<room, inObject, decoded>>
           ELSE Emit(m) /\ inObject' = FALSE /\ room' = 4

(* getFrameAscii leaves out every NUL and keeps the line end.              *)
GetFrameAscii(b) ==
  /\ codec = "ascii"
  /\ \/ b = Nul /\ Consume /\ UNCHANGED <<bytes, decoded>>
     \/ b = Newline /\ Emit(Append(bytes, b))
     \/ b \notin {Nul, Newline} /\ Keep(b)
  /\ UNCHANGED <<room, inObject>>

Decode ==
  /\ chunk # << >>
  /\ LET b == Head(chunk) IN
       DecodeStomp(b) \/ DecodeLine(b) \/ DecodeObject(b) \/ GetFrameAscii(b)
  /\ UNCHANGED <<setup, sender, written>>

-----------------------------------------------------------------------------
Receiver == Read \/ End \/ Decode

Next == \/ \E m \in Messages[codec] : Offer(m)
        \/ WriteSome \/ WriteDone \/ WriteFails \/ Break
        \/ Receiver

(* The receiver's thread runs.                                             *)
Spec == Init /\ [][Next]_vars /\ WF_vars(Receiver)

-----------------------------------------------------------------------------
(* The bytes are bytes, a write call is not overrun, and the decoder never *)
(* has more in its buffer than the buffer has room for.                    *)
TypeOK ==
  /\ codec \in Codec /\ threadPerClient \in BOOLEAN
  /\ offered \in Seq(Messages[codec]) /\ sent \in 0..Len(offered)
  /\ failed \in BOOLEAN
  /\ calls \in Seq(Seq(Byte)) /\ tmp \in Nat
  /\ (calls # << >> => tmp <= Len(calls[1]))
  /\ written \in Seq(Byte) /\ wire \in Seq(Byte) /\ chunk \in Seq(Byte)
  /\ broken \in BOOLEAN /\ threw \in BOOLEAN /\ stopped \in BOOLEAN
  /\ bytes \in Seq(Byte) /\ inObject \in BOOLEAN /\ decoded \in Seq(Seq(Byte))
  /\ room \in Nat /\ (codec # "ascii" => Len(bytes) <= room)
  /\ got \in Nat /\ cut \in 0..got /\ since \in 0..Len(decoded)

(* What is written for the messages ms.                                    *)
Stream(k, ms) == FlattenSeq([i \in 1..Len(ms) |-> FlattenSeq(Calls(k, ms[i]))])

(* The bytes a receiver takes for a message, and what it sees of bytes s.  *)
Taken(k, m) ==
  CASE k = "stomp"  -> Append(m, Caret)
    [] k = "line"   -> Append(m, Newline)
    [] k = "ascii"  -> m
    [] k = "object" -> FourBytes(Len(m)) \o m
AllTaken(k, ms) == FlattenSeq([i \in 1..Len(ms) |-> Taken(k, ms[i])])
Seen(k, s) ==
  IF k # "ascii" THEN s
  ELSE FlattenSeq([i \in 1..Len(s) |-> IF s[i] = Nul THEN << >> ELSE <<s[i]>>])

(* One message: it has no delimiter but the line end that getLine keeps.   *)
Whole(k, m) ==
  /\ k = "ascii" => m # << >>
  /\ \A i \in 1..Len(m) :
       /\ k = "stomp" => m[i] # Caret
       /\ k = "line"  => m[i] # Newline
       /\ k = "ascii" => (m[i] = Newline <=> i = Len(m))

After(s, n) == SubSeq(s, n + 1, Len(s))

(* However the stream is cut into writes and reads, and wherever it breaks, *)
(* the receiver cuts it after each delimiter or length and nowhere else, so *)
(* that no message is torn, joined, doubled or made up of a part; lines and *)
(* objects are those that were sent, in order and up to some point.  Where  *)
(* process throws, the rest of the chunk is left out, and the cut goes on   *)
(* with the byte that is read next, in the middle of a message perhaps.    *)
DecodesStream ==
  /\ IsPrefix(AllTaken(codec, After(decoded, since)), Seen(codec, After(written, cut)))
  /\ \A i \in 1..Len(decoded) : Whole(codec, decoded[i])
  /\ codec \in {"line", "object"} => IsPrefix(decoded, offered)

(* What sendFrameAscii reports as sent has been taken by the socket whole, *)
(* once and before anything of the next message.                           *)
SentWhole ==
  ~failed => /\ IsPrefix(Stream(codec, SubSeq(offered, 1, sent)), written)
             /\ IsPrefix(written, Stream(codec, offered))

(* The decoder throws only on a message that with its ^ has more bytes     *)
(* than the buffer, or an object that cannot be deserialized.              *)
ThrowsOnlyOn ==
  threw =>
    \/ /\ codec = "stomp"
       /\ \E i \in 1..(Len(written) - Room["stomp"]) :
            \A j \in i..(i + Room["stomp"] - 1) : written[j] # Caret
    \/ codec = "object" /\ \E i \in DOMAIN offered : offered[i] \in Unknown

(* What was reported as sent is decoded in the end, unless the connection  *)
(* breaks or the decoder or process throws.                                *)
Arrives ==
  \A n \in 1..MaxMessages :
    sent >= n ~> (Len(decoded) >= n \/ broken \/ threw \/ since > 0)

=============================================================================
