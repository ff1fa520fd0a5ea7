-------------------------- MODULE StompSessionProofs --------------------------
(***************************************************************************)
(* Proofs about StompSession, for any names and their spelling, number of  *)
(* commands and broadcasts, server and answer to the CONNECT: the types,   *)
(* that a connected client is logged in, that the server recognizes of its *)
(* frames the first CONNECT alone as long as nothing is dropped, and that  *)
(* topics joined and left in an orderly way have different ids.            *)
(***************************************************************************)
EXTENDS StompSession, SequenceTheorems, FiniteSetTheorems, TLAPS

Joined == {t \in Topic : Subscribed(t)}

(* The number of subscriptions is a number.                                *)
IType == TypeOK /\ IsFiniteSet(Joined)

(* A line that says CONNECTED is sent after loginID has the connection,    *)
(* and the threads of the client start when one is read.                   *)
Greeted ==
  /\ Has(down, "CONNECTED") \/ Has(response, "CONNECTED") => loggedIn
  /\ isConnected \/ input \notin {"none", "done"} => loggedIn
  /\ loggedIn => heard # << >>

(* What the client sends once it is logged in.                             *)
Later == Own \ {"CONNECT"}

(* Nothing of it is on its way before.                                     *)
LaterSent ==
  ~loggedIn => /\ \A i \in DOMAIN up : up[i] \notin Later
               /\ \A i \in DOMAIN buffer : buffer[i] \notin Later

(* While nothing was dropped: the first message starts with the CONNECT,   *)
(* no message after it with a command of the client, for each of those has *)
(* an @ before it.                                                         *)
Begins ==
  IF buffer # << >> THEN buffer[1] = "CONNECT" ELSE up # << >> => up[1] = "CONNECT"
GoesOn ==
  IF buffer # << >> THEN buffer[1] \notin Own ELSE up # << >> /\ up[1] \notin Own
Framed ==
  /\ up # << >> => up[Len(up)] = "@"
  /\ \A i \in DOMAIN up : i # 1 /\ up[i] \in Own => up[i - 1] = "@"
InStep == /\ IF heard = << >> THEN Begins ELSE GoesOn
          /\ Framed

IHeard == /\ Greeted /\ LaterSent /\ OnlyFirstHeard
          /\ ~torn /\ ~overflown => InStep

(* The ids of an orderly user are those up to the number of topics.        *)
Numbered ==
  orderly => \A t \in Joined : /\ subscriptionIds[t] <= Size
                               /\ \A u \in Joined :
                                    subscriptionIds[t] = subscriptionIds[u] => t = u

-----------------------------------------------------------------------------
(* Pieces that start no frame.                                             *)
Filler == Piece \ Own

LEMMA FillerPieces ==
  /\ Filler = NamePiece \cup {"passcode", "id", "nl", "@"}
  /\ Own \subseteq Piece /\ Filler \subseteq Piece /\ Filler \cap Own = {}
  /\ Later \subseteq Own /\ "CONNECT" \in Own /\ "CONNECT" \notin Later
  /\ Own \cap Words = {}
BY DEF Filler, Piece, NamePiece, Words, Own, Later

(* A command followed by fillers stays one when fillers are added.         *)
Starts(s, verb) == /\ s \in Seq(Piece) /\ Len(s) >= 1 /\ s[1] = verb
                   /\ \A i \in 2..Len(s) : s[i] \in Filler

LEMMA StartsOn ==
  ASSUME NEW verb, NEW s, Starts(s, verb), NEW r \in Seq(Filler)
  PROVE  /\ Starts(s \o r, verb) /\ Len(s \o r) = Len(s) + Len(r)
         /\ Len(r) >= 1 => (s \o r)[Len(s \o r)] = r[Len(r)]
<1>1. r \in Seq(Piece)
  BY FillerPieces, SeqMonotonic
<1>2. s \in Seq(Piece) /\ Len(s) \in Nat /\ Len(r) \in Nat /\ Len(s) >= 1
  BY <1>1, LenProperties DEF Starts
<1>3. /\ s \o r \in Seq(Piece) /\ Len(s \o r) = Len(s) + Len(r)
      /\ \A i \in 1..Len(s) + Len(r) :
           (s \o r)[i] = IF i <= Len(s) THEN s[i] ELSE r[i - Len(s)]
  BY <1>1, <1>2, ConcatProperties
<1>4. \A i \in 1..Len(r) : r[i] \in Filler
  BY ElementOfSeq
<1>5. (s \o r)[1] = verb
  BY <1>2, <1>3 DEF Starts
<1>6. ASSUME NEW i \in 2..Len(s \o r) PROVE (s \o r)[i] \in Filler
  <2>1. CASE i <= Len(s)
    BY <1>2, <1>3, <2>1 DEF Starts
  <2>2. CASE i > Len(s)
    <3>1. i - Len(s) \in 1..Len(r) /\ i \in 1..Len(s) + Len(r) /\ ~(i <= Len(s))
      BY <1>2, <1>3, <2>2
    <3> QED BY <1>3, <1>4, <3>1
  <2> QED BY <1>2, <1>3, <2>1, <2>2
<1>7. ASSUME Len(r) >= 1 PROVE (s \o r)[Len(s \o r)] = r[Len(r)]
  <2>1. /\ Len(s) + Len(r) \in 1..Len(s) + Len(r) /\ ~(Len(s) + Len(r) <= Len(s))
        /\ Len(s) + Len(r) - Len(s) = Len(r)
    BY <1>2, <1>7
  <2> QED BY <1>3, <2>1
<1> QED BY <1>2, <1>3, <1>5, <1>6, <1>7 DEF Starts

(* What a frame looks like on the wire.                                    *)
LEMMA FillerConcat ==
  ASSUME NEW r \in Seq(Filler), NEW s \in Seq(Filler)
  PROVE  r \o s \in Seq(Filler)
BY ConcatProperties

LEMMA BodyShape ==
  ASSUME credential \in Credential, NEW verb \in Own,
         NEW t, verb \in {"SUBSCRIBE", "SEND"} => t \in Topic
  PROVE  Body(verb, t) \in Seq(Filler)
<1>1. ASSUME NEW n \in Named PROVE Spelling[n] \in Seq(Filler)
  <2>1. Spelling[n] \in Seq(NamePiece) /\ NamePiece \subseteq Filler
    BY SessionAssumption, FillerPieces
  <2> QED BY <2>1, SeqMonotonic
<1>2. <<"passcode">> \in Seq(Filler) /\ <<"id">> \in Seq(Filler) /\ <<"nl">> \in Seq(Filler)
      /\ << >> \in Seq(Filler)
  <2>1. "passcode" \in Filler /\ "id" \in Filler /\ "nl" \in Filler
    BY FillerPieces
  <2> QED BY <2>1
<1>3. Login \in Named /\ Passcode \in Named
  BY DEF Login, Passcode, Named
<1>4. CASE verb = "CONNECT"
  <2>1. Spelling[Login] \in Seq(Filler) /\ Spelling[Passcode] \in Seq(Filler)
    BY <1>1, <1>3
  <2> DEFINE l == Spelling[Login]
             p == Spelling[Passcode]
             x == <<"passcode">>
             y == <<"nl">>
  <2>2. Body(verb, t) = l \o x \o p \o y
    BY <1>4 DEF Body
  <2>3. l \in Seq(Filler) /\ p \in Seq(Filler) /\ x \in Seq(Filler) /\ y \in Seq(Filler)
    BY <1>2, <2>1
  <2> HIDE DEF l, p, x, y
  <2> QED BY <2>2, <2>3, FillerConcat
<1>5. CASE verb \in {"SUBSCRIBE", "SEND"}
  <2> DEFINE n == Spelling[t]
             x == <<"id">>
             y == <<"nl">>
  <2>1. t \in Named
    BY <1>5 DEF Named
  <2>2. n \in Seq(Filler) /\ x \in Seq(Filler) /\ y \in Seq(Filler)
    BY <1>1, <1>2, <2>1
  <2>3. Body(verb, t) = n \o x \/ Body(verb, t) = n \o y \o n \o y
    BY <1>5 DEF Body
  <2> HIDE DEF n, x, y
  <2>4. n \o x \in Seq(Filler) /\ n \o y \in Seq(Filler)
    BY <2>2, FillerConcat
  <2>5. n \o y \o n \in Seq(Filler)
    BY <2>2, <2>4, FillerConcat
  <2>6. n \o y \o n \o y \in Seq(Filler)
    BY <2>2, <2>5, FillerConcat
  <2> QED BY <2>3, <2>4, <2>6
<1>6. CASE verb \notin {"CONNECT", "SUBSCRIBE", "SEND"}
  BY <1>2, <1>6 DEF Body
<1> QED BY <1>4, <1>5, <1>6

LEMMA FrameShape ==
  ASSUME credential \in Credential, NEW verb \in Own,
         NEW t, verb \in {"SUBSCRIBE", "SEND"} => t \in Topic
  PROVE  Starts(Frame(verb, t), verb) /\ Frame(verb, t)[Len(Frame(verb, t))] = "@"
<1> DEFINE b == Body(verb, t)
           a == <<verb>> \o b
           e == <<"^", "@">>
<1>1. b \in Seq(Filler)
  BY BodyShape
<1>2. e \in Seq(Filler) /\ Len(e) = 2 /\ e[Len(e)] = "@"
  <2>1. "^" \in Filler /\ "@" \in Filler
    BY FillerPieces DEF NamePiece
  <2> QED BY <2>1
<1>3. Starts(<<verb>>, verb)
  <2>1. <<verb>> \in Seq(Piece) /\ Len(<<verb>>) = 1 /\ <<verb>>[1] = verb
    BY FillerPieces
  <2> QED BY <2>1 DEF Starts
<1>4. Frame(verb, t) = a \o e
  BY DEF Frame
<1> HIDE DEF b, e
<1>5. Starts(a, verb)
  BY <1>1, <1>3, StartsOn
<1> HIDE DEF a
<1>6. Len(e) >= 1
  BY <1>2
<1>7. Starts(a \o e, verb) /\ (a \o e)[Len(a \o e)] = "@"
  BY <1>2, <1>5, <1>6, StartsOn
<1> QED BY <1>4, <1>7

(* Reading a piece takes the first one off.                                *)
LEMMA Front ==
  ASSUME TypeOK, up # << >>
  PROVE  /\ up \in Seq(Piece) /\ Len(up) \in Nat \ {0} /\ DOMAIN up = 1..Len(up)
         /\ Head(up) = up[1] /\ Head(up) \in Piece
         /\ Tail(up) \in Seq(Piece) /\ Len(Tail(up)) = Len(up) - 1
         /\ \A i \in DOMAIN Tail(up) : /\ i \in 1..(Len(up) - 1) /\ i + 1 \in DOMAIN up
                                       /\ Tail(up)[i] = up[i + 1]
<1>1. up \in Seq(Piece)
  BY DEF TypeOK
<1>2. Len(up) \in Nat \ {0} /\ DOMAIN up = 1..Len(up)
  BY <1>1, LenProperties, EmptySeq
<1>3. /\ Head(up) = up[1] /\ Head(up) \in Piece
      /\ Tail(up) \in Seq(Piece) /\ Len(Tail(up)) = Len(up) - 1
      /\ \A i \in 1..Len(Tail(up)) : Tail(up)[i] = up[i + 1]
  BY <1>1, HeadTailProperties
<1>4. DOMAIN Tail(up) = 1..Len(Tail(up))
  BY <1>3, LenProperties
<1> QED BY <1>1, <1>2, <1>3, <1>4

(* What is left of a piece starts no frame.                                *)
LEMMA TailsFill == ASSUME NEW p PROVE Tails(p) \subseteq Filler
<1>1. /\ Words \subseteq Filler
      /\ \A q \in {"connect", "subscribe", "text", "long", "nl"} : q \in Filler
  BY DEF Filler, Piece, NamePiece, Words, Own
<1>2. Tails(p) \subseteq Words \cup {"connect", "subscribe", "text", "long", "nl"}
  BY Zenon DEF Tails
<1> QED BY <1>1, <1>2

(* An exception leaves pieces that were sent, or what no frame starts with. *)
LEMMA Thrown ==
  ASSUME TypeOK, Throws, up # << >>
  PROVE  /\ up' \in Seq(Piece) /\ served' \in BOOLEAN /\ torn' \in BOOLEAN
         /\ \A i \in DOMAIN up' : up'[i] \in Own => \E j \in DOMAIN up : up'[i] = up[j]
         /\ torn => torn'
         /\ ~torn' => up' = Tail(up)
<1>1. up \in Seq(Piece) /\ Len(up) \in Nat /\ DOMAIN up = 1..Len(up)
  BY LenProperties DEF TypeOK
<1>2. /\ served' \in BOOLEAN /\ torn' \in BOOLEAN
      /\ torn => torn'
      /\ ~torn' => up' = Tail(up)
  BY DEF Throws, TypeOK
<1>3. CASE up' = << >>
  BY <1>2, <1>3
<1>4. CASE \E n \in 1..Len(up) : up' \in After(n)
  <2>1. PICK n \in 1..Len(up) : up' \in After(n)
    BY <1>4
  <2> DEFINE rest == SubSeq(up, n + 1, Len(up))
  <2>2. \A i \in n + 1..Len(up) : i \in 1..Len(up) /\ up[i] \in Piece
    BY <1>1, ElementOfSeq
  <2>3. /\ rest \in Seq(Piece)
        /\ Len(rest) = IF n + 1 <= Len(up) THEN Len(up) - (n + 1) + 1 ELSE 0
        /\ \A i \in 1..Len(up) - (n + 1) + 1 : rest[i] = up[n + 1 + i - 1]
    BY <1>1, <2>2, SubSeqProperties
  <2>6. \/ up' = rest
        \/ rest # << >> /\ \E p \in Tails(Head(rest)) : up' = <<p>> \o Tail(rest)
    BY <2>1 DEF After
  <2> HIDE DEF rest
  <2>4. DOMAIN rest = 1..Len(rest) /\ Len(rest) \in Nat
    BY <2>3, LenProperties
  <2>5. ASSUME NEW i \in DOMAIN rest PROVE i + n \in DOMAIN up /\ rest[i] = up[i + n]
    <3>1. n \in Nat /\ n <= Len(up) /\ i \in Nat /\ 1 <= i /\ i <= Len(rest)
      BY <1>1, <2>4
    <3>2. n + 1 <= Len(up)
      BY <2>3, <3>1
    <3>3. Len(rest) = Len(up) - (n + 1) + 1
      BY <2>3, <3>2
    <3>4. /\ i \in 1..Len(up) - (n + 1) + 1 /\ n + 1 + i - 1 = i + n
          /\ i + n \in 1..Len(up)
      BY <1>1, <3>1, <3>3
    <3> QED BY <1>1, <2>3, <3>4
  <2>7. CASE up' = rest
    <3>1. \A i \in DOMAIN up' : \E j \in DOMAIN up : up'[i] = up[j]
      BY <2>5, <2>7
    <3> QED BY <1>2, <2>3, <2>7, <3>1
  <2>8. CASE rest # << >> /\ \E p \in Tails(Head(rest)) : up' = <<p>> \o Tail(rest)
    <3>1. PICK p \in Tails(Head(rest)) : up' = <<p>> \o Tail(rest)
      BY <2>8
    <3>2. p \in Filler /\ p \in Piece
      BY TailsFill, FillerPieces
    <3> DEFINE r == Tail(rest)
    <3>3. /\ r \in Seq(Piece) /\ Len(r) = Len(rest) - 1
          /\ \A i \in 1..Len(r) : r[i] = rest[i + 1]
      BY <2>3, <2>8, HeadTailProperties
    <3>4. <<p>> \in Seq(Piece) /\ Len(<<p>>) = 1 /\ <<p>>[1] = p /\ Len(r) \in Nat
      BY <3>2, <3>3, LenProperties
    <3> DEFINE q == <<p>>
    <3>5. up' = q \o r /\ q \in Seq(Piece) /\ Len(q) = 1 /\ q[1] = p
      BY <3>1, <3>4
    <3> HIDE DEF q, r
    <3>6. /\ up' \in Seq(Piece) /\ Len(up') = 1 + Len(r)
          /\ \A i \in 1..1 + Len(r) : up'[i] = IF i <= 1 THEN q[i] ELSE r[i - 1]
      <4>1. /\ q \o r \in Seq(Piece) /\ Len(q \o r) = Len(q) + Len(r)
            /\ \A i \in 1..Len(q) + Len(r) :
                 (q \o r)[i] = IF i <= Len(q) THEN q[i] ELSE r[i - Len(q)]
        <5>1. q \in Seq(Piece) /\ r \in Seq(Piece)
          BY <3>3, <3>5
        <5> QED BY <5>1, ConcatProperties
      <4> QED BY <3>5, <4>1
    <3>7. DOMAIN up' = 1..1 + Len(r)
      BY <3>6, LenProperties
    <3>8. ASSUME NEW i \in DOMAIN up', up'[i] \in Own
          PROVE  \E j \in DOMAIN up : up'[i] = up[j]
      <4>1. CASE i = 1
        <5>1. up'[i] = p
          BY <3>4, <3>5, <3>6, <3>7, <4>1
        <5> QED BY <3>2, <3>8, <5>1, FillerPieces
      <4>2. CASE i # 1
        <5>1. i \in 1..1 + Len(r) /\ ~(i <= 1) /\ i - 1 \in 1..Len(r) /\ i - 1 + 1 = i
              /\ i \in 1..Len(rest)
          BY <2>4, <3>3, <3>4, <3>7, <4>2
        <5>2. up'[i] = rest[i]
          BY <3>3, <3>6, <5>1
        <5> QED BY <2>4, <2>5, <5>1, <5>2
      <4> QED BY <4>1, <4>2
    <3> QED BY <1>2, <3>6, <3>8
  <2> QED BY <2>6, <2>7, <2>8
<1> QED BY <1>3, <1>4 DEF Throws

-----------------------------------------------------------------------------
(* The types, thread by thread.                                            *)

LEMMA TypeInit == Init => IType
<1> SUFFICES ASSUME Init PROVE IType
  OBVIOUS
<1>1. Joined = {}
  BY DEF Init, Joined, Subscribed
<1>2. IsFiniteSet(Joined)
  BY <1>1, FS_EmptySet
<1>3. << >> \in Seq(Piece) /\ << >> \in Seq(Line) /\ << >> \in Seq(Own \cup Words)
  OBVIOUS
<1>4. typed \in 0..MaxCommands /\ broadcasts \in 0..MaxBroadcasts
  BY SessionAssumption DEF Init
<1>5. TypeOK
  BY <1>3, <1>4 DEF Init, TypeOK
<1> QED BY <1>2, <1>5 DEF IType

(* A step that leaves the subscriptions alone leaves their number alone.   *)
LEMMA KeepsJoined ==
  ASSUME IType, TypeOK', UNCHANGED subscriptionIds
  PROVE  IType'
<1>1. Joined' = Joined
  BY DEF Joined, Subscribed
<1> QED BY <1>1 DEF IType

(* The lines of the server's frames are lines.                             *)
LEMMA ReplyLines ==
  /\ \A m \in Messages : m \in Seq(Line)
  /\ \A message : \A lines \in Replies(message) : lines \in Seq(Line)
  /\ <<"other">> \in Seq(Line)
<1>1. /\ <<"other">> \in Seq(Line) /\ << >> \in Seq(Line)
      /\ <<"CONNECTED", "other">> \in Seq(Line)
  BY DEF Line
<1>2. ASSUME NEW m \in Messages PROVE m \in Seq(Line)
  <2>1. PICK l \in Line : m = <<"other", l, "other">>
    BY DEF Messages
  <2>2. "other" \in Line
    BY DEF Line
  <2> QED BY <2>1, <2>2
<1>3. ASSUME NEW m \in Messages PROVE m \o m \in Seq(Line)
  BY <1>2, <1>3, ConcatProperties
<1>4. ASSUME NEW message, NEW lines \in Replies(message) PROVE lines \in Seq(Line)
  <2>1. \/ lines \in {<<"CONNECTED", "other">>, <<"other">>, << >>}
        \/ lines \in Messages
        \/ \E m \in Messages : lines = m \o m
    BY Zenon DEF Replies
  <2> QED BY <1>1, <1>2, <1>3, <2>1
<1> QED BY <1>1, <1>2, <1>4

(* process leaves the streams and the commands it heard well typed.        *)
LEMMA ProcessTypes ==
  ASSUME TypeOK, up # << >>, NEW message \in Seq(Piece), Process(message)
  PROVE  /\ up' \in Seq(Piece) /\ response' \in Seq(Line)
         /\ served' \in BOOLEAN /\ active' \in BOOLEAN /\ loggedIn' \in BOOLEAN
         /\ heard' \in Seq(Own \cup Words) /\ torn' \in BOOLEAN
<1>1. Heard(message) \in Seq(Own \cup Words)
  <2>1. ASSUME NEW S, NEW x \in S PROVE <<x>> \in Seq(S) /\ << >> \in Seq(S)
    OBVIOUS
  <2>2. CASE message # << >> /\ Head(message) \in Own \cup Words
    <3>1. Heard(message) = <<Head(message)>>
      BY <2>2 DEF Heard
    <3> QED BY <2>1, <2>2, <3>1
  <2>3. CASE ~(message # << >> /\ Head(message) \in Own \cup Words)
    <3>1. Heard(message) = << >>
      BY <2>3 DEF Heard
    <3> QED BY <3>1
  <2> QED BY <2>2, <2>3
<1>2. heard' \in Seq(Own \cup Words)
  BY <1>1, ConcatProperties DEF Process, TypeOK
<1>3. loggedIn' \in BOOLEAN
  BY Zenon DEF Process, LoggedIn, TypeOK, Accepted
<1>4. ASSUME NEW lines \in Seq(Line), Goes(lines)
      PROVE  /\ up' \in Seq(Piece) /\ response' \in Seq(Line)
             /\ served' \in BOOLEAN /\ torn' \in BOOLEAN
  BY <1>4, Front DEF Goes, ReadsOn, TypeOK
<1>5. CASE \E lines \in Replies(message) : Goes(lines) /\ UNCHANGED active
  BY <1>2, <1>3, <1>4, <1>5, ReplyLines DEF TypeOK
<1>6. CASE Goes(<<"other">>) /\ active' = FALSE
  BY <1>2, <1>3, <1>4, <1>6, ReplyLines
<1>7. CASE Throws /\ UNCHANGED <<active, response>>
  BY <1>2, <1>3, <1>7, Thrown DEF TypeOK
<1> QED BY <1>5, <1>6, <1>7 DEF Process

LEMMA DecodeTypes == ASSUME IType, Decode, UNCHANGED setup PROVE IType'
<1>0. TypeOK /\ up # << >> /\ Head(up) \in Piece
  BY Front DEF IType, Decode
<1>1. UNCHANGED <<setup, down, broadcasts, threads, keyboard, protocolMutex, protocol,
                  terminateProgram>>
  BY DEF Decode, client
<1>2. /\ up' \in Seq(Piece) /\ response' \in Seq(Line) /\ buffer' \in Seq(Piece)
      /\ served' \in BOOLEAN /\ active' \in BOOLEAN /\ loggedIn' \in BOOLEAN
      /\ overflown' \in BOOLEAN /\ heard' \in Seq(Own \cup Words) /\ torn' \in BOOLEAN
  <2>1. CASE /\ overflown' = TRUE /\ Throws
             /\ UNCHANGED <<buffer, active, loggedIn, heard, response>>
    BY <1>0, <2>1, Thrown DEF TypeOK
  <2>2. CASE Process(buffer) /\ buffer' = << >> /\ UNCHANGED overflown
    BY <1>0, <2>2, ProcessTypes DEF TypeOK
  <2>3. CASE /\ up' = Tail(up) /\ buffer' = Append(buffer, Head(up))
             /\ UNCHANGED <<served, torn, overflown, active, loggedIn, heard, response>>
    BY <1>0, <2>3, Front, AppendProperties DEF TypeOK
  <2> QED BY <2>1, <2>2, <2>3 DEF Decode
<1>3. TypeOK'
  BY <1>0, <1>1, <1>2 DEF TypeOK, setup, threads, keyboard, protocol
<1> QED BY <1>1, <1>3, KeepsJoined DEF protocol

LEMMA ServerTypes == ASSUME IType, Server \/ Broadcast, UNCHANGED setup PROVE IType'
<1>0. TypeOK
  BY DEF IType
<1>1. CASE Respond
  <2>1. down' \in Seq(Line) /\ served' \in BOOLEAN /\ response' \in Seq(Line)
    <3>1. down \in Seq(Line) /\ response \in Seq(Line)
      BY <1>0 DEF TypeOK
    <3>2. down' \in {down, down \o response} /\ response' = << >> /\ served' \in {served, FALSE}
      BY <1>1 DEF Respond
    <3>3. served' \in BOOLEAN
      BY <1>0, <3>2 DEF TypeOK
    <3>4. down \o response \in Seq(Line)
      BY <3>1, ConcatProperties
    <3>5. << >> \in Seq(Line)
      OBVIOUS
    <3>6. down' \in Seq(Line)
      BY <3>1, <3>2, <3>4
    <3> QED BY <3>2, <3>3, <3>5, <3>6
  <2>2. UNCHANGED <<setup, up, active, loggedIn, decoder, broadcasts, heard, torn, threads,
                    keyboard, protocolMutex, protocol, terminateProgram>>
    BY <1>1 DEF Respond, client
  <2>3. TypeOK'
    BY <1>0, <2>1, <2>2 DEF TypeOK, setup, decoder, threads, keyboard, protocol
  <2> QED BY <2>2, <2>3, KeepsJoined DEF protocol
<1>2. CASE Broadcast
  <2>1. down' \in Seq(Line) /\ broadcasts' \in 0..MaxBroadcasts
    <3>1. PICK m \in Messages : down' = down \o m
      BY <1>2 DEF Broadcast
    <3>2. down' \in Seq(Line)
      BY <1>0, <3>1, ReplyLines, ConcatProperties DEF TypeOK
    <3>3. broadcasts \in 0..MaxBroadcasts /\ broadcasts < MaxBroadcasts
          /\ broadcasts' = broadcasts + 1
      BY <1>0, <1>2 DEF Broadcast, TypeOK
    <3> QED BY <3>2, <3>3, SessionAssumption
  <2>2. UNCHANGED <<setup, up, served, active, loggedIn, decoder, response, heard, torn,
                    threads, keyboard, protocolMutex, protocol, terminateProgram>>
    BY <1>2 DEF Broadcast, client
  <2>3. TypeOK'
    BY <1>0, <2>1, <2>2 DEF TypeOK, setup, decoder, threads, keyboard, protocol
  <2> QED BY <2>2, <2>3, KeepsJoined DEF protocol
<1>3. CASE ServerCloses
  <2>1. /\ served' \in BOOLEAN
        /\ UNCHANGED <<setup, up, down, active, loggedIn, decoder, response, broadcasts, heard,
                       torn, threads, keyboard, protocolMutex, protocol, terminateProgram>>
    BY <1>3 DEF ServerCloses, wire, client
  <2>2. TypeOK'
    BY <1>0, <2>1 DEF TypeOK, setup, decoder, threads, keyboard, protocol
  <2> QED BY <2>1, <2>2, KeepsJoined DEF protocol
<1> QED BY <1>1, <1>2, <1>3, DecodeTypes DEF Server

(* Sending a frame leaves the stream well typed.                           *)
LEMMA SendTypes ==
  ASSUME TypeOK, NEW verb \in Own, NEW t, verb \in {"SUBSCRIBE", "SEND"} => t \in Topic,
         Send(verb, t) \/ SendFails
  PROVE  up' \in Seq(Piece)
<1>1. Frame(verb, t) \in Seq(Piece)
  BY FrameShape DEF Starts, TypeOK
<1> QED BY <1>1, ConcatProperties DEF Send, SendFails, TypeOK

(* The frame of a CONNECT names no topic.                                  *)
LEMMA ConnectOwn == "CONNECT" \in Own /\ "CONNECT" \notin {"SUBSCRIBE", "SEND"}
BY DEF Own

LEMMA MainTypes == ASSUME IType, MainThread, UNCHANGED setup PROVE IType'
<1> USE DEF IType
<1>1. CASE Dial
  <2>1. /\ served' \in BOOLEAN /\ active' \in BOOLEAN /\ main' \in {"connect", "failed"}
        /\ protocolMutex' \in {"main", protocolMutex}
    BY <1>1 DEF Dial, TypeOK
  <2>2. UNCHANGED <<setup, wire, loggedIn, decoder, response, broadcasts, heard, torn, input,
                    socket, keyboard, protocol, terminateProgram>>
    BY <1>1 DEF Dial
  <2>3. TypeOK'
    BY <2>1, <2>2 DEF TypeOK, setup, wire, decoder, keyboard, protocol
  <2> QED BY <2>2, <2>3, KeepsJoined DEF protocol
<1>2. CASE SendConnect \/ SendConnectAgain
  <2>1. UNCHANGED up \/ Send("CONNECT", None) \/ SendFails
    BY <1>2 DEF SendConnect, SendConnectAgain
  <2>2. up' \in Seq(Piece)
    BY <2>1, SendTypes, ConnectOwn DEF TypeOK
  <2>3. /\ main' \in {"connectAgain", "answer", "failed", "aborted"}
        /\ input' \in {"done", input} /\ socket' \in {"done", socket}
    BY <1>2 DEF SendConnect, SendConnectAgain, Aborted
  <2>4. UNCHANGED <<setup, down, server, keyboard, protocolMutex, protocol,
                    terminateProgram>>
    BY <1>2 DEF SendConnect, SendConnectAgain
  <2>5. TypeOK'
    BY <2>2, <2>3, <2>4 DEF TypeOK, setup, server, decoder, keyboard, protocol
  <2> QED BY <2>4, <2>5, KeepsJoined DEF protocol
<1>3. CASE Answer
  <2>1. down' \in Seq(Line)
    BY <1>3, HeadTailProperties DEF Answer, TypeOK
  <2>2. /\ isConnected' \in BOOLEAN /\ main' \in {"join", "failed"}
        /\ input' \in {"check", input} /\ socket' \in {"check", socket}
        /\ protocolMutex' = None
    BY <1>3 DEF Answer, TypeOK
  <2>3. UNCHANGED <<setup, up, server, keyboard, subscriptionIds, eventsByChannel, orderly,
                    terminateProgram>>
    BY <1>3 DEF Answer
  <2>4. TypeOK'
    BY <2>1, <2>2, <2>3 DEF TypeOK, setup, server, decoder, keyboard
  <2> QED BY <2>3, <2>4, KeepsJoined
<1>4. CASE Join
  <2>1. /\ main' = "ended"
        /\ UNCHANGED <<setup, wire, server, input, socket, keyboard, protocolMutex, protocol,
                       terminateProgram>>
    BY <1>4 DEF Join
  <2>2. TypeOK'
    BY <2>1 DEF TypeOK, setup, wire, server, decoder, keyboard, protocol
  <2> QED BY <2>1, <2>2, KeepsJoined DEF protocol
<1> QED BY <1>1, <1>2, <1>3, <1>4 DEF MainThread

LEMMA SocketTypes == ASSUME IType, SocketThread, UNCHANGED setup PROVE IType'
<1>0. TypeOK
  BY DEF IType
<1>1. /\ down' \in Seq(Line) /\ terminateProgram' \in BOOLEAN
      /\ socket' \in {"check", "getLine", "process", "done"}
      /\ UNCHANGED <<setup, up, server, main, input, keyboard, protocolMutex, protocol>>
  <2>1. CASE SocketCheck \/ EndOfStream \/ ProcessLine
    BY <1>0, <2>1 DEF SocketCheck, EndOfStream, ProcessLine, Socket, TypeOK, wire
  <2>2. CASE GetLine
    <3>1. down' \in Seq(Line)
      BY <1>0, <2>2, HeadTailProperties DEF GetLine, TypeOK
    <3>2. terminateProgram' \in BOOLEAN
      BY <1>0, <2>2, Zenon DEF GetLine, TypeOK
    <3> QED BY <2>2, <3>1, <3>2 DEF GetLine, Socket
  <2> QED BY <2>1, <2>2 DEF SocketThread
<1>2. TypeOK'
  BY <1>0, <1>1 DEF TypeOK, setup, server, decoder, keyboard, protocol
<1> QED BY <1>1, <1>2, KeepsJoined DEF protocol

(* What the user may type, and what then is sent.                          *)
LEMMA CommandShape ==
  ASSUME TypeOK
  PROVE  /\ VerbOf \in Own
         /\ Word("join") \/ Word("exit") \/ Word("report") \/ Word("summary") =>
              command.topic \in Topic
         /\ VerbOf \in {"SUBSCRIBE", "SEND"} => NameSent \in Topic
<1>1. VerbOf \in Own
  BY DEF VerbOf, Own
<1>2. command \in Typed \cup {NoCommand}
  BY DEF TypeOK
<1>3. ASSUME command.word \in {"join", "exit", "report", "summary"}
      PROVE  command.topic \in Topic
  BY <1>2, <1>3 DEF Typed, NoCommand
<1>4. VerbOf \in {"SUBSCRIBE", "SEND"} => Word("join") \/ Word("report")
  BY DEF VerbOf
<1> QED BY <1>1, <1>3, <1>4 DEF Word, NameSent

LEMMA SizeType == ASSUME IType PROVE Size \in Nat
<1>1. Size = Cardinality(Joined)
  BY DEF Size, Joined
<1> QED BY <1>1, FS_CardinalityType DEF IType

(* subscribe adds a topic.                                                 *)
LEMMA LockTypes == ASSUME IType, Lock, UNCHANGED setup PROVE IType'
<1> USE DEF Input
<1>0. UNCHANGED <<setup, wire, server, keyboard, isConnected, eventsByChannel,
                  terminateProgram, main, socket>>
  BY DEF Lock
<1> DEFINE t == command.topic
           go == /\ isConnected
                 /\ Word("exit") \/ Word("report") => Subscribed(t)
<1>1. CASE go /\ Word("join")
  <2>1. t \in Topic /\ NewId \in Nat /\ NewId # 0
    BY <1>1, CommandShape, SizeType DEF NewId, IType
  <2>2. subscriptionIds' = [subscriptionIds EXCEPT ![t] = NewId]
    BY <1>1 DEF Lock
  <2>3. subscriptionIds' \in [Topic -> Nat]
    BY <2>1, <2>2 DEF IType, TypeOK
  <2>4. Joined' = Joined \cup {t}
    BY <2>1, <2>2 DEF Joined, Subscribed, IType, TypeOK
  <2>5. IsFiniteSet(Joined')
    BY <2>4, FS_AddElement DEF IType
  <2>6. orderly' \in BOOLEAN /\ protocolMutex' \in {"input", None}
        /\ input' \in {"terminate", "check", "first", "send"}
    BY <1>1 DEF Lock, IType, TypeOK
  <2>7. TypeOK'
    BY <1>0, <2>3, <2>6 DEF IType, TypeOK, wire, server, decoder, keyboard, setup
  <2> QED BY <2>5, <2>7 DEF IType
<1>2. CASE ~(go /\ Word("join"))
  <2>1. subscriptionIds' = subscriptionIds
    BY <1>2 DEF Lock
  <2>2. orderly' \in BOOLEAN /\ protocolMutex' \in {"input", None}
        /\ input' \in {"terminate", "check", "first", "send"}
    BY DEF Lock, IType, TypeOK
  <2>3. TypeOK'
    BY <1>0, <2>1, <2>2 DEF IType, TypeOK, wire, server, decoder, keyboard, setup
  <2> QED BY <2>1, <2>3, KeepsJoined
<1> QED BY <1>1, <1>2

(* unsubscribe and disconnect take topics away.                            *)
LEMMA SendAndUnlockTypes == ASSUME IType, SendAndUnlock, UNCHANGED setup PROVE IType'
<1> USE DEF SendAndUnlock, Unlock, Input
<1>1. up' \in Seq(Piece)
  BY CommandShape, SendTypes DEF IType
<1>2. subscriptionIds' \in [Topic -> Nat] /\ Joined' \subseteq Joined
  <2>1. CASE UNCHANGED protocol
    BY <2>1 DEF protocol, IType, TypeOK, Joined, Subscribed
  <2>2. CASE subscriptionIds' = [t \in Topic |->
               IF Word("logout") \/ (Word("exit") /\ t = command.topic)
               THEN 0 ELSE subscriptionIds[t]]
    BY <2>2 DEF IType, TypeOK, Joined, Subscribed
  <2> QED BY <2>1, <2>2
<1>3. IsFiniteSet(Joined')
  BY <1>2, FS_Subset DEF IType
<1>4. eventsByChannel' \in [Topic -> Nat]
  <2>1. CASE eventsByChannel' = eventsByChannel
    BY <2>1 DEF IType, TypeOK
  <2>2. CASE Word("report")
             /\ eventsByChannel' = [eventsByChannel EXCEPT ![command.topic] = @ + 1]
    <3>1. command.topic \in Topic /\ eventsByChannel[command.topic] + 1 \in Nat
      BY <2>2, CommandShape DEF IType, TypeOK
    <3> QED BY <2>2, <3>1 DEF IType, TypeOK
  <2> QED BY <2>1, <2>2 DEF protocol
<1>5. isConnected' \in BOOLEAN /\ orderly' \in BOOLEAN
  BY DEF protocol, IType, TypeOK
<1>6. /\ protocolMutex' = None /\ input' \in {"terminate", "check"}
      /\ UNCHANGED <<main, socket, down, server, keyboard, terminateProgram>>
  OBVIOUS
<1>7. TypeOK'
  BY <1>1, <1>2, <1>4, <1>5, <1>6 DEF IType, TypeOK, server, decoder, keyboard, setup
<1> QED BY <1>3, <1>7 DEF IType

LEMMA InputTypes == ASSUME IType, InputThread, UNCHANGED setup PROVE IType'
<1> USE DEF Input
<1>0. TypeOK
  BY DEF IType
<1>1. CASE InputCheck \/ Nothing \/ Abort \/ Summarize \/ Terminate
  <2>1. /\ main' \in {"aborted", main} /\ socket' \in {"done", socket}
        /\ input' \in {"check", "done", "getline"} /\ terminateProgram' \in BOOLEAN
        /\ UNCHANGED <<setup, wire, server, keyboard, protocolMutex, protocol>>
    BY <1>0, <1>1 DEF InputCheck, Nothing, Abort, Summarize, Terminate, Aborted, TypeOK
  <2>2. TypeOK'
    BY <1>0, <2>1 DEF TypeOK, setup, wire, server, decoder, keyboard, protocol
  <2> QED BY <2>1, <2>2, KeepsJoined DEF protocol
<1>2. CASE SendFirst
  <2>1. up' \in Seq(Piece)
    BY <1>0, <1>2, CommandShape, SendTypes DEF SendFirst
  <2>2. /\ input' = "send"
        /\ UNCHANGED <<setup, down, server, main, socket, keyboard, protocolMutex, protocol,
                       terminateProgram>>
    BY <1>2 DEF SendFirst
  <2>3. TypeOK'
    BY <1>0, <2>1, <2>2 DEF TypeOK, setup, server, decoder, keyboard, protocol
  <2> QED BY <2>2, <2>3, KeepsJoined DEF protocol
<1> QED BY <1>1, <1>2, LockTypes, SendAndUnlockTypes DEF InputThread

LEMMA UserTypes ==
  ASSUME IType, NEW k \in Typed, Type(k), UNCHANGED setup
  PROVE  IType'
<1>1. typed' \in 0..MaxCommands
  BY SessionAssumption DEF Type, IType, TypeOK
<1>2. /\ input' \in {"short", "summary", "nothing", "lock"} /\ command' = k
      /\ UNCHANGED <<setup, wire, server, main, socket, protocolMutex, protocol,
                     terminateProgram>>
  BY DEF Type, Input
<1>3. TypeOK'
  BY <1>1, <1>2 DEF IType, TypeOK, setup, wire, server, decoder, protocol
<1> QED BY <1>2, <1>3, KeepsJoined DEF protocol

LEMMA TypeStep == IType /\ [Next]_vars => IType'
<1> SUFFICES ASSUME IType, [Next]_vars PROVE IType'
  OBVIOUS
<1>1. CASE UNCHANGED vars
  <2>1. TypeOK' /\ UNCHANGED subscriptionIds
    BY <1>1 DEF vars, setup, session, wire, server, decoder, client, threads, keyboard,
                protocol, IType, TypeOK
  <2> QED BY <2>1, KeepsJoined
<1>2. CASE Next
  BY <1>2, ServerTypes, MainTypes, SocketTypes, InputTypes, UserTypes DEF Next
<1> QED BY <1>1, <1>2

(* Every variable keeps its type, whatever the user types and whatever of  *)
(* the stream an exception of the server throws away.                      *)
THEOREM TypeCorrect == Spec => []TypeOK
<1>1. IType => TypeOK
  BY DEF IType
<1> QED BY TypeInit, TypeStep, <1>1, PTL DEF Spec


-----------------------------------------------------------------------------
(* What the server recognizes.                                             *)

LEMMA HeardInit == Init => IHeard
<1> SUFFICES ASSUME Init PROVE IHeard
  OBVIOUS
<1>1. /\ up = << >> /\ down = << >> /\ response = << >> /\ heard = << >> /\ buffer = << >>
      /\ ~loggedIn /\ ~isConnected /\ input = "none"
  BY DEF Init
<1>2. /\ DOMAIN up = {} /\ DOMAIN down = {} /\ DOMAIN response = {} /\ DOMAIN heard = {}
      /\ DOMAIN buffer = {}
  BY <1>1
<1>3. Greeted /\ LaterSent /\ OnlyFirstHeard
  BY <1>1, <1>2 DEF Greeted, LaterSent, OnlyFirstHeard, Has
<1>4. InStep
  BY <1>1, <1>2 DEF InStep, Begins, Framed
<1> QED BY <1>3, <1>4 DEF IHeard

(* A step that sends and decodes nothing.                                  *)
LEMMA QuietHeard ==
  ASSUME IHeard,
         UNCHANGED <<up, buffer, overflown, loggedIn, heard, torn>>,
         Has(down', "CONNECTED") \/ Has(response', "CONNECTED") => loggedIn,
         isConnected' \/ input' \notin {"none", "done"} => loggedIn
  PROVE  IHeard'
<1>1. Greeted'
  BY DEF IHeard, Greeted, Has
<1>2. LaterSent' /\ OnlyFirstHeard'
  BY DEF IHeard, LaterSent, OnlyFirstHeard
<1>3. ~torn' /\ ~overflown' => InStep'
  BY DEF IHeard, InStep, Begins, GoesOn, Framed
<1> QED BY <1>1, <1>2, <1>3 DEF IHeard

(* Sending a frame: one with a later command is sent by a client that is   *)
(* logged in, so that the server has heard the first CONNECT and an @ is   *)
(* on the wire before the command, or something in the buffer.             *)
LEMMA SentHeard ==
  ASSUME TypeOK, IHeard, NEW verb \in Own,
         NEW t, verb \in {"SUBSCRIBE", "SEND"} => t \in Topic,
         Send(verb, t) \/ SendFails,
         verb \in Later => loggedIn,
         UNCHANGED <<down, response, buffer, overflown, loggedIn, heard, torn>>,
         isConnected' \/ input' \notin {"none", "done"} => loggedIn
  PROVE  IHeard'
<1> DEFINE f == Frame(verb, t)
<1>0. Has(down', "CONNECTED") \/ Has(response', "CONNECTED") => loggedIn
  BY DEF IHeard, Greeted, Has
<1>1. CASE up' = up
  BY <1>0, <1>1, QuietHeard
<1>2. CASE up' = up \o f
  <2>1. /\ up \in Seq(Piece) /\ Len(up) \in Nat /\ DOMAIN up = 1..Len(up)
        /\ Starts(f, verb) /\ f[Len(f)] = "@"
    BY FrameShape, LenProperties DEF TypeOK
  <2> HIDE DEF f
  <2>2. f \in Seq(Piece) /\ Len(f) \in Nat \ {0}
    BY <2>1, LenProperties DEF Starts
  <2>3. /\ DOMAIN up' = 1..Len(up) + Len(f) /\ Len(up') = Len(up) + Len(f)
        /\ \A i \in 1..Len(up) + Len(f) :
             up'[i] = IF i <= Len(up) THEN up[i] ELSE f[i - Len(up)]
    BY <1>2, <2>1, <2>2, ConcatProperties, LenProperties
  <2>4. up'[Len(up')] = "@" /\ Len(up') # 0 /\ up' # << >>
    <3>1. /\ Len(up) + Len(f) \in 1..Len(up) + Len(f)
          /\ ~(Len(up) + Len(f) <= Len(up)) /\ Len(up) + Len(f) # 0
          /\ Len(up) + Len(f) - Len(up) = Len(f)
      BY <2>1, <2>2
    <3> QED BY <2>1, <2>3, <3>1
  <2>5. \A i \in 1..Len(up) : i \in DOMAIN up /\ i \in DOMAIN up' /\ up'[i] = up[i]
    BY <2>1, <2>2, <2>3
  <2>6. ASSUME NEW i \in DOMAIN up', up'[i] \in Own, i > Len(up)
        PROVE  i = Len(up) + 1 /\ up'[i] = verb
    <3>1. i - Len(up) \in 1..Len(f) /\ up'[i] = f[i - Len(up)]
      BY <2>1, <2>2, <2>3, <2>6
    <3>2. i - Len(up) \notin 2..Len(f)
      BY <2>1, <2>6, <3>1, FillerPieces DEF Starts
    <3>3. i = Len(up) + 1
      BY <2>1, <2>2, <2>3, <3>1, <3>2
    <3>4. i - Len(up) = 1
      BY <2>1, <3>3
    <3> QED BY <2>1, <3>1, <3>3, <3>4 DEF Starts
  <2>7. LaterSent'
    <3>1. ASSUME ~loggedIn, NEW i \in DOMAIN up', up'[i] \in Later PROVE FALSE
      <4>1. up'[i] \in Own
        BY <3>1, FillerPieces
      <4>2. CASE i <= Len(up)
        <5>1. i \in 1..Len(up)
          BY <2>1, <2>2, <2>3, <4>2
        <5> QED BY <2>5, <3>1, <5>1 DEF IHeard, LaterSent
      <4>3. CASE i > Len(up)
        BY <2>6, <3>1, <4>1, <4>3
      <4> QED BY <2>1, <2>2, <2>3, <4>2, <4>3
    <3> QED BY <3>1 DEF IHeard, LaterSent
  <2>8. ASSUME ~torn, ~overflown PROVE InStep'
    <3>0. InStep
      BY <2>8 DEF IHeard
    <3>1. ASSUME NEW i \in DOMAIN up', i # 1, up'[i] \in Own PROVE up'[i - 1] = "@"
      <4>1. CASE i <= Len(up)
        <5>1. i \in 1..Len(up) /\ i - 1 \in 1..Len(up)
          BY <2>1, <2>2, <2>3, <3>1, <4>1
        <5> QED BY <2>5, <3>0, <3>1, <5>1 DEF InStep, Framed
      <4>2. CASE i > Len(up)
        <5>1. i = Len(up) + 1
          BY <2>6, <3>1, <4>2
        <5>2. Len(up) # 0 /\ i - 1 = Len(up) /\ Len(up) \in 1..Len(up)
          BY <2>1, <3>1, <5>1
        <5>3. up # << >>
          BY <2>1, <5>2, EmptySeq
        <5> QED BY <2>5, <3>0, <5>2, <5>3 DEF InStep, Framed
      <4> QED BY <2>1, <2>2, <2>3, <4>1, <4>2
    <3>2. Framed'
      BY <2>4, <3>1 DEF Framed
    <3>3. IF up = << >> THEN up'[1] = verb ELSE up'[1] = up[1]
      <4>1. CASE up = << >>
        <5>1. Len(up) = 0 /\ 1 \in 1..Len(up) + Len(f) /\ ~(1 <= Len(up)) /\ 1 - Len(up) = 1
          BY <2>1, <2>2, <4>1
        <5> QED BY <2>1, <2>3, <4>1, <5>1 DEF Starts
      <4>2. CASE up # << >>
        <5>1. 1 \in 1..Len(up)
          BY <2>1, <4>2, EmptySeq
        <5> QED BY <2>5, <4>2, <5>1
      <4> QED BY <4>1, <4>2
    <3>4. CASE heard = << >>
      <4>1. verb = "CONNECT"
        BY <3>4 DEF IHeard, Greeted, Later
      <4> QED BY <3>0, <3>2, <3>3, <3>4, <4>1 DEF InStep, Begins
    <3>5. CASE heard # << >>
      BY <2>4, <3>0, <3>2, <3>3, <3>5 DEF InStep, GoesOn
    <3> QED BY <3>4, <3>5
  <2>9. Greeted' /\ OnlyFirstHeard'
    BY <1>0 DEF IHeard, Greeted, OnlyFirstHeard, Has
  <2> QED BY <2>7, <2>8, <2>9 DEF IHeard
<1> QED BY <1>1, <1>2 DEF Send, SendFails

(* When the decoder has read a piece, what follows it is as before.        *)
LEMMA TailHeard ==
  ASSUME TypeOK, up # << >>, Framed
  PROVE  /\ Tail(up) # << >> => Tail(up)[Len(Tail(up))] = "@"
         /\ Head(up) # "@" => Tail(up) # << >> /\ Tail(up)[1] \notin Own
         /\ \A i \in DOMAIN Tail(up) : i # 1 /\ Tail(up)[i] \in Own => Tail(up)[i - 1] = "@"
<1> DEFINE n == Len(up)
           r == Tail(up)
<1>1. /\ n \in Nat \ {0} /\ DOMAIN up = 1..n /\ Head(up) = up[1]
      /\ r \in Seq(Piece) /\ Len(r) = n - 1 /\ up[n] = "@"
      /\ \A i \in DOMAIN r : i \in 1..(n - 1) /\ i + 1 \in DOMAIN up /\ r[i] = up[i + 1]
  BY Front DEF Framed
<1>2. DOMAIN r = 1..(n - 1)
  BY <1>1, LenProperties
<1>3. \A i \in DOMAIN up : i # 1 /\ up[i] \in Own => up[i - 1] = "@"
  BY DEF Framed
<1> HIDE DEF r, n
<1>4. ASSUME r # << >> PROVE r[Len(r)] = "@"
  <2>1. n - 1 # 0
    BY <1>1, <1>4, EmptySeq
  <2>2. n - 1 \in 1..(n - 1) /\ n - 1 + 1 = n
    BY <1>1, <2>1
  <2> QED BY <1>1, <1>2, <2>2
<1>5. ASSUME Head(up) # "@" PROVE r # << >> /\ r[1] \notin Own
  <2>1. n # 1
    BY <1>1, <1>5
  <2>2. n - 1 # 0 /\ 1 \in 1..(n - 1) /\ 1 + 1 # 1 /\ 1 + 1 - 1 = 1
    BY <1>1, <2>1
  <2>3. r[1] = up[1 + 1] /\ 1 + 1 \in DOMAIN up
    BY <1>1, <1>2, <2>2
  <2>4. r[1] \notin Own
    BY <1>1, <1>3, <1>5, <2>2, <2>3
  <2> QED BY <1>1, <2>2, <2>4, EmptySeq
<1>6. ASSUME NEW i \in DOMAIN r, i # 1, r[i] \in Own PROVE r[i - 1] = "@"
  <2>1. /\ i \in 1..(n - 1) /\ i + 1 # 1 /\ i + 1 - 1 = i
        /\ i - 1 \in 1..(n - 1) /\ i - 1 + 1 = i
    BY <1>1, <1>6
  <2>3. i + 1 \in DOMAIN up /\ r[i] = up[i + 1]
    BY <1>1
  <2> DEFINE k == i + 1
  <2>4. k \in DOMAIN up /\ up[k] \in Own /\ k # 1 /\ k - 1 = i
    BY <1>6, <2>1, <2>3
  <2> HIDE DEF k
  <2>2. up[i] = "@"
    BY <1>3, <2>4
  <2> QED BY <1>1, <1>2, <2>1, <2>2
<1> QED BY <1>4, <1>5, <1>6 DEF r

(* What is read off the stream or thrown away leaves nothing that was not  *)
(* on it.                                                                  *)
LEMMA TailSent ==
  ASSUME TypeOK, up # << >>, up' = Tail(up)
  PROVE  \A i \in DOMAIN up' : up'[i] \in Own => \E j \in DOMAIN up : up'[i] = up[j]
BY Front

(* An exception of a decoder that has no room.                             *)
LEMMA OverflowHeard ==
  ASSUME TypeOK, IHeard, up # << >>, Throws, overflown' = TRUE,
         UNCHANGED <<down, response, buffer, loggedIn, heard, input, isConnected>>
  PROVE  IHeard'
<1>1. Greeted'
  BY DEF IHeard, Greeted, Has
<1>2. LaterSent'
  BY Thrown, FillerPieces DEF IHeard, LaterSent
<1>3. OnlyFirstHeard'
  BY Thrown DEF IHeard, OnlyFirstHeard
<1> QED BY <1>1, <1>2, <1>3 DEF IHeard

(* A piece that does not end a frame goes to the buffer.                   *)
LEMMA PutHeard ==
  ASSUME TypeOK, IHeard, up # << >>, ~overflown, up' = Tail(up),
         buffer' = Append(buffer, Head(up)),
         UNCHANGED <<down, response, overflown, loggedIn, heard, torn, input, isConnected>>
  PROVE  IHeard'
<1>1. Head(up) \in Piece /\ Head(up) = up[1] /\ 1 \in DOMAIN up /\ buffer \in Seq(Piece)
  BY Front DEF TypeOK
<1>2. /\ buffer' \in Seq(Piece) /\ buffer' # << >>
      /\ Len(buffer') = Len(buffer) + 1 /\ Len(buffer) \in Nat
      /\ \A i \in 1..Len(buffer) : buffer'[i] = buffer[i]
      /\ buffer'[Len(buffer) + 1] = Head(up)
  BY <1>1, AppendProperties, LenProperties
<1>3. DOMAIN buffer = 1..Len(buffer) /\ DOMAIN buffer' = 1..Len(buffer) + 1
  BY <1>1, <1>2, LenProperties
<1>4. Greeted' /\ OnlyFirstHeard'
  BY DEF IHeard, Greeted, OnlyFirstHeard, Has
<1>5. LaterSent'
  <2>1. ASSUME ~loggedIn, NEW i \in DOMAIN buffer' PROVE buffer'[i] \notin Later
    <3>1. i \in 1..Len(buffer) \/ i = Len(buffer) + 1
      BY <1>2, <1>3
    <3> QED BY <1>1, <1>2, <1>3, <2>1, <3>1 DEF IHeard, LaterSent
  <2>2. ASSUME ~loggedIn, NEW i \in DOMAIN up' PROVE up'[i] \notin Later
    BY <2>2, TailSent, FillerPieces DEF IHeard, LaterSent
  <2> QED BY <2>1, <2>2 DEF LaterSent
<1>6. ASSUME ~torn PROVE InStep'
  <2>0. InStep
    BY <1>6 DEF IHeard
  <2>1. Framed'
    BY <2>0, TailHeard DEF InStep, Framed
  <2>2. buffer'[1] = IF buffer = << >> THEN up[1] ELSE buffer[1]
    <3>1. CASE buffer = << >>
      <4>1. Len(buffer) + 1 = 1
        BY <3>1
      <4> QED BY <1>1, <1>2, <3>1, <4>1
    <3>2. CASE buffer # << >>
      <4>1. 1 \in 1..Len(buffer)
        BY <1>1, <1>2, <3>2, EmptySeq
      <4> QED BY <1>2, <3>2, <4>1
    <3> QED BY <3>1, <3>2
  <2> QED BY <1>2, <2>0, <2>1, <2>2 DEF InStep, Begins, GoesOn
<1> QED BY <1>4, <1>5, <1>6 DEF IHeard

(* The reply to a message that holds no command but a CONNECT.             *)
LEMMA RepliesSilent ==
  ASSUME NEW message, NEW lines \in Replies(message), ~Is(message, {"SEND"}),
         ~Accepted(message)
  PROVE  ~Has(lines, "CONNECTED")
<1>1. lines \in {<<"other">>, << >>}
  BY Zenon DEF Replies
<1> QED BY <1>1 DEF Has

(* A message is processed: as long as nothing was dropped, it starts with  *)
(* the first CONNECT, or later with no command of the client.              *)
LEMMA ProcessHeard ==
  ASSUME TypeOK, IHeard, up # << >>, response = << >>, ~overflown, Head(up) = "^",
         Process(buffer), buffer' = << >>,
         UNCHANGED <<down, overflown, input, isConnected>>
  PROVE  IHeard'
<1>0. Greeted /\ LaterSent /\ OnlyFirstHeard
  BY DEF IHeard
<1>1. /\ buffer \in Seq(Piece) /\ heard \in Seq(Own \cup Words) /\ torn \in BOOLEAN
      /\ heard' \in Seq(Own \cup Words) /\ torn' \in BOOLEAN
  BY ProcessTypes DEF TypeOK
<1>2. ASSUME buffer # << >> PROVE Head(buffer) = buffer[1] /\ 1 \in DOMAIN buffer
  BY <1>1, <1>2, EmptySeq, LenProperties
<1>3. \/ up' = Tail(up) /\ torn' = torn
      \/ Throws /\ response' = response
  BY Zenon DEF Process, Goes, ReadsOn
<1>4. /\ \A i \in DOMAIN up' : up'[i] \in Own => \E j \in DOMAIN up : up'[i] = up[j]
      /\ torn => torn'
      /\ ~torn' => up' = Tail(up)
  BY <1>3, TailSent, Thrown
<1>5. heard' = heard \o Heard(buffer) /\ loggedIn' = (loggedIn \/ Accepted(buffer))
  BY Zenon DEF Process, LoggedIn
<1>6. Accepted(buffer) => Heard(buffer) = <<"CONNECT">>
  BY FillerPieces DEF Accepted, Is, Heard
<1>7. \/ Heard(buffer) = << >> /\ heard' = heard
      \/ /\ buffer # << >> /\ Heard(buffer) = <<Head(buffer)>>
         /\ Head(buffer) \in Own \cup Words /\ heard' = Append(heard, Head(buffer))
  <2>1. CASE Heard(buffer) = << >>
    BY <1>1, <1>5, <2>1, ConcatEmptySeq
  <2>2. CASE Heard(buffer) # << >>
    <3>1. /\ buffer # << >> /\ Heard(buffer) = <<Head(buffer)>>
          /\ Head(buffer) \in Own \cup Words
      BY <2>2 DEF Heard
    <3> QED BY <1>1, <1>5, <3>1, AppendIsConcat
  <2> QED BY <2>1, <2>2
<1>8. loggedIn' => heard' # << >>
  <2>1. CASE loggedIn
    BY <1>0, <1>1, <1>7, <2>1, AppendProperties DEF Greeted
  <2>2. CASE Accepted(buffer)
    <3>1. Heard(buffer) # << >>
      BY <1>6, <2>2
    <3>2. heard' = Append(heard, Head(buffer)) /\ Head(buffer) \in Own \cup Words
      BY <1>7, <3>1
    <3> QED BY <1>1, <3>2, AppendProperties
  <2> QED BY <1>5, <2>1, <2>2
<1>9. Has(response', "CONNECTED") => loggedIn'
  <2>1. CASE Is(buffer, {"SEND"})
    <3>1. buffer[1] \in Later /\ 1 \in DOMAIN buffer
      BY <1>2, <2>1 DEF Is, Later, Own
    <3> QED BY <1>0, <1>5, <3>1 DEF LaterSent
  <2>2. CASE Accepted(buffer)
    BY <1>5, <2>2
  <2>3. CASE ~Is(buffer, {"SEND"}) /\ ~Accepted(buffer)
    <3>1. \/ response' \in Replies(buffer) \/ response' = <<"other">> \/ response' = << >>
      BY Zenon DEF Process, Goes
    <3>2. ~Has(<<"other">>, "CONNECTED") /\ ~Has(<< >>, "CONNECTED")
      BY DEF Has
    <3> QED BY <2>3, <3>1, <3>2, RepliesSilent
  <2> QED BY <2>1, <2>2, <2>3
<1>10. Greeted'
  <2>1. Has(down', "CONNECTED") => loggedIn
    BY <1>0 DEF Greeted, Has
  <2> QED BY <1>0, <1>5, <1>8, <1>9, <2>1 DEF Greeted, Has
<1>11. LaterSent'
  <2>1. ASSUME ~loggedIn', NEW i \in DOMAIN up' PROVE up'[i] \notin Later
    BY <1>0, <1>4, <1>5, <2>1, FillerPieces DEF LaterSent
  <2>2. DOMAIN buffer' = {}
    OBVIOUS
  <2> QED BY <2>1, <2>2 DEF LaterSent
<1>12. ASSUME ~torn' PROVE OnlyFirstHeard' /\ InStep'
  <2>0. InStep /\ ~torn /\ up' = Tail(up)
    BY <1>4, <1>12 DEF IHeard
  <2>1. Head(up) = up[1] /\ "^" # "@" /\ "^" \notin Own /\ "^" # "CONNECT"
    BY Front DEF Own
  <2>2. up' # << >> /\ up'[1] \notin Own /\ Framed'
    BY <2>0, <2>1, TailHeard DEF InStep, Framed
  <2>3. heard = << >> => buffer # << >> /\ Head(buffer) = "CONNECT"
    BY <1>2, <2>0, <2>1 DEF InStep, Begins
  <2>4. heard # << >> /\ buffer # << >> => Head(buffer) \notin Own
    BY <1>2, <2>0 DEF InStep, GoesOn
  <2>5. heard = << >> => Heard(buffer) = <<"CONNECT">>
    BY <2>3, FillerPieces DEF Heard
  <2>6. heard' # << >>
    BY <1>1, <1>7, <2>5, AppendProperties
  <2>7. InStep'
    BY <2>2, <2>6 DEF InStep, GoesOn
  <2>8. CASE heard' = heard
    BY <1>0, <2>0, <2>7, <2>8 DEF OnlyFirstHeard
  <2>9. CASE /\ buffer # << >> /\ Head(buffer) \in Own \cup Words
             /\ heard' = Append(heard, Head(buffer))
    <3>1. /\ Len(heard') = Len(heard) + 1 /\ Len(heard) \in Nat
          /\ \A i \in 1..Len(heard) : heard'[i] = heard[i]
          /\ heard'[Len(heard) + 1] = Head(buffer)
      BY <1>1, <2>9, AppendProperties, LenProperties
    <3>2. DOMAIN heard = 1..Len(heard) /\ DOMAIN heard' = 1..Len(heard) + 1
      BY <1>1, <3>1, LenProperties
    <3>3. Len(heard) = 0 <=> heard = << >>
      BY <1>1, EmptySeq
    <3>4. ASSUME NEW i \in DOMAIN heard'
          PROVE  IF i = 1 THEN heard'[i] = "CONNECT" ELSE heard'[i] \in Words
      <4>1. CASE i \in 1..Len(heard)
        BY <1>0, <2>0, <3>1, <3>2, <4>1 DEF OnlyFirstHeard
      <4>2. CASE i = Len(heard) + 1
        <5>1. CASE heard = << >>
          BY <2>3, <3>1, <3>3, <4>2, <5>1
        <5>2. CASE heard # << >>
          <6>1. i # 1
            BY <3>1, <3>3, <4>2, <5>2
          <6> QED BY <2>4, <2>9, <3>1, <4>2, <5>2, <6>1
        <5> QED BY <5>1, <5>2
      <4> QED BY <3>1, <3>2, <4>1, <4>2
    <3> QED BY <2>7, <3>4 DEF OnlyFirstHeard
  <2> QED BY <1>7, <2>8, <2>9
<1>13. OnlyFirstHeard'
  BY <1>12 DEF OnlyFirstHeard
<1> QED BY <1>10, <1>11, <1>12, <1>13 DEF IHeard

LEMMA DecodeHeard == ASSUME TypeOK, IHeard, Decode, UNCHANGED setup PROVE IHeard'
<1>1. /\ UNCHANGED <<down, input, isConnected>> /\ up # << >> /\ response = << >>
      /\ Head(up) # "long" \/ Head(up) = "long"
  BY DEF Decode, client, threads, protocol
<1>2. CASE /\ overflown' = TRUE /\ Throws
           /\ UNCHANGED <<buffer, active, loggedIn, heard, response>>
  BY <1>1, <1>2, OverflowHeard
<1>3. CASE /\ ~overflown /\ Head(up) = "^"
           /\ Process(buffer) /\ buffer' = << >> /\ UNCHANGED overflown
  BY <1>1, <1>3, ProcessHeard
<1>4. CASE /\ ~overflown /\ up' = Tail(up) /\ buffer' = Append(buffer, Head(up))
           /\ UNCHANGED <<served, torn, overflown, active, loggedIn, heard, response>>
  BY <1>1, <1>4, PutHeard
<1> QED BY <1>2, <1>3, <1>4 DEF Decode

(* Lines that are put behind others.                                       *)
LEMMA HasConcat ==
  ASSUME NEW r \in Seq(Line), NEW s \in Seq(Line), NEW p, Has(r \o s, p)
  PROVE  Has(r, p) \/ Has(s, p)
<1>1. PICK i \in DOMAIN (r \o s) : (r \o s)[i] = p
  BY DEF Has
<1>2. /\ Len(r) \in Nat /\ Len(s) \in Nat
      /\ DOMAIN r = 1..Len(r) /\ DOMAIN s = 1..Len(s)
      /\ r \o s \in Seq(Line) /\ Len(r \o s) = Len(r) + Len(s)
      /\ \A j \in 1..Len(r) + Len(s) :
           (r \o s)[j] = IF j <= Len(r) THEN r[j] ELSE s[j - Len(r)]
  BY LenProperties, ConcatProperties
<1>3. i \in 1..Len(r) + Len(s)
  BY <1>1, <1>2, LenProperties
<1>4. CASE i <= Len(r)
  <2>1. i \in DOMAIN r /\ r[i] = p
    BY <1>1, <1>2, <1>3, <1>4
  <2> QED BY <2>1 DEF Has
<1>5. CASE i > Len(r)
  <2>1. i - Len(r) \in DOMAIN s /\ ~(i <= Len(r))
    BY <1>2, <1>3, <1>5
  <2>2. s[i - Len(r)] = p
    BY <1>1, <1>2, <1>3, <2>1
  <2> QED BY <2>1, <2>2 DEF Has
<1> QED BY <1>2, <1>3, <1>4, <1>5

LEMMA ServerHeard == ASSUME TypeOK, IHeard, Server \/ Broadcast, UNCHANGED setup PROVE IHeard'
<1>0. /\ Greeted
      /\ down \in Seq(Line) /\ response \in Seq(Line)
  BY DEF IHeard, TypeOK
<1>1. CASE Respond
  <2>1. UNCHANGED <<up, buffer, overflown, loggedIn, heard, torn, input, isConnected>>
    BY <1>1 DEF Respond, decoder, client, threads, protocol
  <2>2. down' \in {down, down \o response} /\ response' = << >>
    BY <1>1 DEF Respond
  <2>3. Has(down', "CONNECTED") \/ Has(response', "CONNECTED") => loggedIn
    <3>1. ~Has(<< >>, "CONNECTED")
      BY DEF Has
    <3> QED BY <1>0, <2>2, <3>1, HasConcat DEF Greeted
  <2>4. isConnected' \/ input' \notin {"none", "done"} => loggedIn
    BY <1>0, <2>1 DEF Greeted
  <2> QED BY <2>1, <2>3, <2>4, QuietHeard
<1>2. CASE Broadcast
  <2>1. /\ UNCHANGED <<up, buffer, overflown, loggedIn, heard, torn, input, isConnected>>
        /\ loggedIn
    BY <1>2 DEF Broadcast, decoder, client, threads, protocol
  <2> QED BY <2>1, QuietHeard
<1>3. CASE ServerCloses
  <2>1. UNCHANGED <<up, down, response, buffer, overflown, loggedIn, heard, torn, input,
                    isConnected>>
    BY <1>3 DEF ServerCloses, wire, decoder, client, threads, protocol
  <2>2. Has(down', "CONNECTED") \/ Has(response', "CONNECTED") => loggedIn
    BY <1>0, <2>1 DEF Greeted
  <2>3. isConnected' \/ input' \notin {"none", "done"} => loggedIn
    BY <1>0, <2>1 DEF Greeted
  <2> QED BY <2>1, <2>2, <2>3, QuietHeard
<1> QED BY <1>1, <1>2, <1>3, DecodeHeard DEF Server

(* Reading a line.                                                         *)
LEMMA TailDown ==
  ASSUME TypeOK, down # << >>
  PROVE  /\ Has(Tail(down), "CONNECTED") => Has(down, "CONNECTED")
         /\ Head(down) = "CONNECTED" => Has(down, "CONNECTED")
<1>1. /\ down \in Seq(Line) /\ Len(down) \in Nat \ {0} /\ DOMAIN down = 1..Len(down)
  BY LenProperties, EmptySeq DEF TypeOK
<1>2. /\ Head(down) = down[1] /\ Tail(down) \in Seq(Line) /\ Len(Tail(down)) = Len(down) - 1
      /\ \A i \in 1..Len(Tail(down)) : Tail(down)[i] = down[i + 1]
  BY <1>1, HeadTailProperties
<1>3. DOMAIN Tail(down) = 1..Len(down) - 1
  BY <1>2, LenProperties
<1>4. ASSUME NEW i \in DOMAIN Tail(down)
      PROVE  i + 1 \in DOMAIN down /\ Tail(down)[i] = down[i + 1]
  BY <1>1, <1>2, <1>3
<1>5. 1 \in DOMAIN down
  BY <1>1
<1> QED BY <1>2, <1>4, <1>5 DEF Has

LEMMA MainHeard == ASSUME TypeOK, IHeard, MainThread, UNCHANGED setup PROVE IHeard'
<1>0. Greeted
  BY DEF IHeard
<1>1. CASE Dial \/ Join
  <2>1. UNCHANGED <<up, down, response, buffer, overflown, loggedIn, heard, torn, isConnected,
                    input>>
    BY <1>1 DEF Dial, Join, wire, server, decoder, protocol
  <2> QED BY <1>0, <2>1, QuietHeard DEF Greeted, Has
<1>2. CASE SendConnect \/ SendConnectAgain
  <2>1. /\ UNCHANGED <<down, response, buffer, overflown, loggedIn, heard, torn, isConnected>>
        /\ input' \in {input, "done"}
    BY <1>2 DEF SendConnect, SendConnectAgain, Aborted, server, decoder, protocol
  <2>2. isConnected' \/ input' \notin {"none", "done"} => loggedIn
    BY <1>0, <2>1 DEF Greeted
  <2>3. UNCHANGED up \/ Send("CONNECT", None) \/ SendFails
    BY <1>2 DEF SendConnect, SendConnectAgain
  <2>4. CASE UNCHANGED up
    BY <1>0, <2>1, <2>2, <2>4, QuietHeard DEF Greeted, Has
  <2>5. CASE Send("CONNECT", None) \/ SendFails
    BY <2>1, <2>2, <2>5, ConnectOwn, FillerPieces, SentHeard
  <2> QED BY <2>3, <2>4, <2>5
<1>3. CASE Answer
  <2>1. UNCHANGED <<up, response, buffer, overflown, loggedIn, heard, torn>>
    BY <1>3 DEF Answer, server, decoder
  <2>2. CASE down # << >> /\ Head(down) = "CONNECTED" /\ down' = Tail(down)
    <3>1. loggedIn
      BY <1>0, <2>2, TailDown DEF Greeted
    <3> QED BY <2>1, <3>1, QuietHeard
  <2>3. CASE UNCHANGED <<down, isConnected, input>>
    BY <1>0, <2>1, <2>3, QuietHeard DEF Greeted, Has
  <2> QED BY <1>3, <2>2, <2>3 DEF Answer
<1> QED BY <1>1, <1>2, <1>3 DEF MainThread

LEMMA InputHeard == ASSUME TypeOK, IHeard, InputThread, UNCHANGED setup PROVE IHeard'
<1>0. Greeted
  BY DEF IHeard
<1>1. loggedIn
  <2>1. input \notin {"none", "done"}
    BY DEF InputThread, InputCheck, Abort, Summarize, Nothing, Lock, SendFirst,
           SendAndUnlock, Terminate
  <2> QED BY <1>0, <2>1 DEF Greeted
<1>2. UNCHANGED <<down, response, buffer, overflown, loggedIn, heard, torn>>
  BY DEF InputThread, InputCheck, Abort, Summarize, Nothing, Lock, SendFirst,
         SendAndUnlock, Terminate, wire, server, decoder
<1>3. CASE SendFirst \/ SendAndUnlock
  <2>1. Send(VerbOf, NameSent) \/ SendFails
    BY <1>3 DEF SendFirst, SendAndUnlock
  <2>2. VerbOf \in Own /\ (VerbOf \in {"SUBSCRIBE", "SEND"} => NameSent \in Topic)
    BY CommandShape
  <2> QED BY <1>1, <1>2, <2>1, <2>2, SentHeard
<1>4. CASE \/ InputCheck \/ Abort \/ Summarize \/ Nothing \/ Lock \/ Terminate
  <2>1. UNCHANGED up
    BY <1>4 DEF InputCheck, Abort, Summarize, Nothing, Lock, Terminate, wire
  <2> QED BY <1>1, <1>2, <2>1, QuietHeard
<1> QED BY <1>3, <1>4 DEF InputThread

LEMMA SocketHeard == ASSUME TypeOK, IHeard, SocketThread, UNCHANGED setup PROVE IHeard'
<1>0. Greeted
  BY DEF IHeard
<1>1. UNCHANGED <<up, response, buffer, overflown, loggedIn, heard, torn, isConnected, input>>
  BY DEF SocketThread, SocketCheck, GetLine, EndOfStream, ProcessLine, Socket, wire, server,
         decoder, protocol
<1>2. \/ UNCHANGED down
      \/ down # << >> /\ down' = Tail(down)
  BY DEF SocketThread, SocketCheck, GetLine, EndOfStream, ProcessLine, wire
<1>3. Has(down', "CONNECTED") \/ Has(response', "CONNECTED") => loggedIn
  BY <1>0, <1>1, <1>2, TailDown DEF Greeted
<1>4. isConnected' \/ input' \notin {"none", "done"} => loggedIn
  BY <1>0, <1>1 DEF Greeted
<1> QED BY <1>1, <1>3, <1>4, QuietHeard

LEMMA HeardStep == IType /\ IHeard /\ [Next]_vars => IHeard'
<1> SUFFICES ASSUME IType, IHeard, [Next]_vars PROVE IHeard'
  OBVIOUS
<1>0. TypeOK /\ Greeted
  BY DEF IType, IHeard
<1>1. CASE UNCHANGED vars
  <2>1. UNCHANGED <<up, down, response, buffer, overflown, loggedIn, heard, torn, isConnected,
                    input>>
    BY <1>1 DEF vars, session, wire, server, decoder, client, threads, protocol
  <2> QED BY <1>0, <2>1, QuietHeard DEF Greeted, Has
<1>2. CASE \E k \in Typed : Type(k)
  <2>1. /\ UNCHANGED <<up, down, response, buffer, overflown, loggedIn, heard, torn>>
        /\ input = "getline"
    BY <1>2 DEF Type, wire, server, decoder
  <2>2. loggedIn
    BY <1>0, <2>1 DEF Greeted
  <2> QED BY <2>1, <2>2, QuietHeard
<1> QED BY <1>0, <1>1, <1>2, ServerHeard, MainHeard, InputHeard, SocketHeard DEF Next

(* A client that takes itself for connected has its connection in loginID: *)
(* the first of its two CONNECTs was processed before a line that says     *)
(* CONNECTED was written, be it an answer or a part of a broadcast.        *)
THEOREM ConnectedIsLoggedInAlways == Spec => []ConnectedIsLoggedIn
<1>1. IHeard => ConnectedIsLoggedIn
  BY DEF IHeard, Greeted, ConnectedIsLoggedIn
<1> QED BY TypeInit, TypeStep, HeardInit, HeardStep, <1>1, PTL DEF Spec

(* As long as no exception has dropped bytes under the reactor, the server *)
(* recognizes the first CONNECT and no other frame of the client, for any  *)
(* sequence of commands and any names: only words in names are recognized. *)
THEOREM OnlyFirstHeardAlways == Spec => []OnlyFirstHeard
<1>1. IHeard => OnlyFirstHeard
  BY DEF IHeard
<1> QED BY TypeInit, TypeStep, HeardInit, HeardStep, <1>1, PTL DEF Spec

-----------------------------------------------------------------------------
(* The subscription ids.                                                   *)

LEMMA SizeJoined == Size = Cardinality(Joined)
BY DEF Size, Joined

(* subscribe gives a topic that is not joined the next number.             *)
LEMMA JoinNumbered ==
  ASSUME IType, Numbered, NEW t \in Topic,
         subscriptionIds' = [subscriptionIds EXCEPT ![t] = NewId],
         orderly' => orderly /\ ~Subscribed(t)
  PROVE  Numbered'
<1> SUFFICES ASSUME orderly' PROVE Numbered'
  BY DEF Numbered
<1> DEFINE J == Joined
           s == Size
<1>1. /\ subscriptionIds \in [Topic -> Nat] /\ s \in Nat /\ t \notin J
      /\ \A u \in J : subscriptionIds[u] <= s /\ subscriptionIds[u] \in Nat
      /\ \A u, v \in J : subscriptionIds[u] = subscriptionIds[v] => u = v
  BY SizeType DEF IType, TypeOK, Numbered, Joined
<1>2. /\ Joined' = J \cup {t}
      /\ subscriptionIds'[t] = s + 1
      /\ \A u \in J : subscriptionIds'[u] = subscriptionIds[u]
  BY <1>1 DEF Joined, Subscribed, NewId
<1>3. Size' = s + 1
  <2>1. Cardinality(J \cup {t}) = Cardinality(J) + 1
    BY <1>1, FS_AddElement DEF IType
  <2>2. Size' = Cardinality(Joined')
    BY DEF Size, Joined
  <2> QED BY <1>2, <2>1, <2>2, SizeJoined
<1> HIDE DEF J, s
<1>4. ASSUME NEW u \in J \cup {t} PROVE subscriptionIds'[u] <= s + 1
  BY <1>1, <1>2
<1>5. ASSUME NEW u \in J \cup {t}, NEW v \in J \cup {t},
             subscriptionIds'[u] = subscriptionIds'[v]
      PROVE  u = v
  <2>1. \A w \in J : subscriptionIds'[w] # s + 1
    BY <1>1, <1>2
  <2> QED BY <1>1, <1>2, <1>5, <2>1
<1> QED BY <1>2, <1>3, <1>4, <1>5 DEF Numbered

(* unsubscribe of the topic that was joined last.                          *)
LEMMA ExitNumbered ==
  ASSUME IType, Numbered, NEW t \in Topic,
         subscriptionIds' = [u \in Topic |-> IF u = t THEN 0 ELSE subscriptionIds[u]],
         orderly' => orderly /\ subscriptionIds[t] = Size
  PROVE  Numbered'
<1> SUFFICES ASSUME orderly' PROVE Numbered'
  BY DEF Numbered
<1> DEFINE J == Joined
           s == Size
<1>1. /\ subscriptionIds \in [Topic -> Nat] /\ s \in Nat /\ subscriptionIds[t] = s
      /\ \A u \in J : subscriptionIds[u] <= s /\ subscriptionIds[u] \in Nat
      /\ \A u, v \in J : subscriptionIds[u] = subscriptionIds[v] => u = v
  BY SizeType DEF IType, TypeOK, Numbered, Joined
<1>2. /\ Joined' = J \ {t}
      /\ \A u \in J \ {t} : subscriptionIds'[u] = subscriptionIds[u]
  BY <1>1 DEF Joined, Subscribed
<1>3. Size' = Cardinality(J \ {t})
  BY <1>2 DEF Size, Joined
<1>4. CASE t \in J
  <2>1. Size' = s - 1
    BY <1>3, <1>4, FS_RemoveElement, SizeJoined DEF IType
  <2> HIDE DEF J, s
  <2>2. ASSUME NEW u \in J \ {t} PROVE subscriptionIds'[u] <= s - 1
    <3>1. subscriptionIds[u] <= s /\ subscriptionIds[u] # s
      BY <1>1, <1>4
    <3> QED BY <1>1, <1>2, <3>1
  <2> QED BY <1>1, <1>2, <2>1, <2>2 DEF Numbered
<1>5. CASE t \notin J
  <2>1. J \ {t} = J /\ Size' = s
    BY <1>3, <1>5, SizeJoined
  <2> HIDE DEF J, s
  <2> QED BY <1>1, <1>2, <2>1 DEF Numbered
<1> QED BY <1>4, <1>5

(* disconnect empties the map, and every other step leaves it alone.       *)
LEMMA OtherNumbered ==
  ASSUME Numbered, orderly' => orderly,
         \/ UNCHANGED subscriptionIds
         \/ subscriptionIds' = [u \in Topic |-> 0]
  PROVE  Numbered'
<1>1. CASE UNCHANGED subscriptionIds
  BY <1>1 DEF Numbered, Joined, Subscribed, Size
<1>2. CASE subscriptionIds' = [u \in Topic |-> 0]
  <2>1. Joined' = {}
    BY <1>2 DEF Joined, Subscribed
  <2> QED BY <2>1 DEF Numbered
<1> QED BY <1>1, <1>2

LEMMA NumberedInit == Init => Numbered
<1> SUFFICES ASSUME Init PROVE Numbered
  OBVIOUS
<1>1. Joined = {}
  BY DEF Init, Joined, Subscribed
<1> QED BY <1>1 DEF Numbered

LEMMA LockNumbered == ASSUME IType, Numbered, Lock PROVE Numbered'
<1> DEFINE t == command.topic
           go == /\ isConnected
                 /\ Word("exit") \/ Word("report") => Subscribed(t)
<1>1. CASE go /\ Word("join")
  <2>1. t \in Topic
    BY <1>1, CommandShape DEF IType
  <2>2. subscriptionIds' = [subscriptionIds EXCEPT ![t] = NewId]
    BY <1>1 DEF Lock
  <2>3. orderly' => orderly /\ ~Subscribed(t)
    BY <1>1 DEF Lock
  <2> HIDE DEF t
  <2> QED BY <2>1, <2>2, <2>3, JoinNumbered
<1>2. CASE ~(go /\ Word("join"))
  <2>1. UNCHANGED subscriptionIds /\ (orderly' => orderly)
    BY <1>2 DEF Lock
  <2> QED BY <2>1, OtherNumbered
<1> QED BY <1>1, <1>2

LEMMA SendAndUnlockNumbered == ASSUME IType, Numbered, SendAndUnlock PROVE Numbered'
<1> DEFINE sent ==
      /\ subscriptionIds' = [t \in Topic |->
           IF Word("logout") \/ (Word("exit") /\ t = command.topic)
           THEN 0 ELSE subscriptionIds[t]]
      /\ orderly' = (orderly /\ (Word("exit") => subscriptionIds[command.topic] = Size))
<1>1. CASE UNCHANGED protocol
  BY <1>1, OtherNumbered DEF protocol
<1>2. CASE sent /\ Word("exit")
  <2> DEFINE t == command.topic
  <2>1. t \in Topic /\ ~Word("logout")
    BY <1>2, CommandShape DEF IType, Word
  <2>2. subscriptionIds' = [u \in Topic |-> IF u = t THEN 0 ELSE subscriptionIds[u]]
    BY <1>2, <2>1
  <2>3. orderly' => orderly /\ subscriptionIds[t] = Size
    BY <1>2
  <2> HIDE DEF t
  <2> QED BY <2>1, <2>2, <2>3, ExitNumbered
<1>3. CASE sent /\ ~Word("exit")
  <2>1. orderly' => orderly
    BY <1>3
  <2>2. CASE Word("logout")
    <3>1. subscriptionIds' = [u \in Topic |-> 0]
      BY <1>3, <2>2
    <3> QED BY <2>1, <3>1, OtherNumbered
  <2>3. CASE ~Word("logout")
    <3>1. subscriptionIds' = [u \in Topic |-> subscriptionIds[u]]
      BY <1>3, <2>3
    <3>2. UNCHANGED subscriptionIds
      BY <3>1 DEF IType, TypeOK
    <3> QED BY <2>1, <3>2, OtherNumbered
  <2> QED BY <2>2, <2>3
<1> QED BY <1>1, <1>2, <1>3 DEF SendAndUnlock

LEMMA NumberedStep == IType /\ Numbered /\ [Next]_vars => Numbered'
<1> SUFFICES ASSUME IType, Numbered, [Next]_vars PROVE Numbered'
  OBVIOUS
<1>1. CASE Lock \/ SendAndUnlock
  BY <1>1, LockNumbered, SendAndUnlockNumbered
<1>2. CASE UNCHANGED <<subscriptionIds, orderly>>
  BY <1>2, OtherNumbered
<1>3. Lock \/ SendAndUnlock \/ UNCHANGED <<subscriptionIds, orderly>>
  <2>1. CASE UNCHANGED vars
    BY <2>1 DEF vars, session, client, protocol
  <2>2. CASE MainThread
    BY <2>2 DEF MainThread, Dial, SendConnect, SendConnectAgain, Answer, Join, protocol
  <2>3. CASE InputThread
    BY <2>3 DEF InputThread, InputCheck, Abort, Summarize, Nothing, SendFirst, Terminate,
                protocol
  <2>4. CASE SocketThread
    BY <2>4 DEF SocketThread, SocketCheck, GetLine, EndOfStream, ProcessLine, protocol
  <2>5. CASE Server
    BY <2>5 DEF Server, Decode, Respond, ServerCloses, client, protocol
  <2>6. CASE Broadcast
    BY <2>6 DEF Broadcast, client, protocol
  <2>7. CASE \E k \in Typed : Type(k)
    BY <2>7 DEF Type, protocol
  <2> QED BY <2>1, <2>2, <2>3, <2>4, <2>5, <2>6, <2>7 DEF Next
<1> QED BY <1>1, <1>2, <1>3

(* The topics that a user is subscribed to at one time have different ids  *)
(* if the user joins none twice and leaves them in the opposite order; an  *)
(* id that was given back is given again.                                  *)
THEOREM DistinctIdsAlways == Spec => []DistinctIds
<1>1. Numbered => DistinctIds
  <2> SUFFICES ASSUME Numbered, orderly, NEW t \in Topic, NEW u \in Topic,
                      Subscribed(t), subscriptionIds[t] = subscriptionIds[u]
               PROVE  t = u
    BY DEF DistinctIds
  <2>1. t \in Joined /\ u \in Joined
    BY DEF Joined, Subscribed
  <2> QED BY <2>1 DEF Numbered
<1> QED BY TypeInit, TypeStep, NumberedInit, NumberedStep, <1>1, PTL DEF Spec
=============================================================================
