----------------------------- MODULE FramingProofs -----------------------------
(***************************************************************************)
(* Proofs about Framing, for any messages, any room and any number of      *)
(* messages.                                                               *)
(*                                                                         *)
(* Streams are put together with FlattenSeq, which is recursive: what is   *)
(* proved about it is proved for sets of numbers that contain 0 and, with  *)
(* n, n + 1 (Induction).  Then come the types, the sender (Sending: what   *)
(* is written and what is pending are the stream) and the receiver         *)
(* (Reading: the bytes parsed since process last threw are the messages    *)
(* decoded since, the header and the buffer, and what is under way or lost *)
(* comes next in the stream).                                              *)
(*                                                                         *)
(* A conclusion that is cited often has a name (Joins, Agree, GoesOn...),  *)
(* so that the provers can match it before it is expanded.                 *)
(***************************************************************************)
EXTENDS Framing, SequenceTheorems, WellFoundedInduction, TLAPS

-----------------------------------------------------------------------------
(* Induction, for a set of numbers: the least number that is not in T      *)
(* would follow one that is.                                               *)
LEMMA Induction ==
  ASSUME NEW T \in SUBSET Nat, 0 \in T, \A n \in T : n + 1 \in T
  PROVE  T = Nat
<1> SUFFICES ASSUME T # Nat PROVE FALSE
  OBVIOUS
<1>1. PICK R : R = OpToRel(<, Nat)
  OBVIOUS
<1>2. \A x, y \in Nat : x < y => <<x, y>> \in R
  BY <1>1 DEF OpToRel
<1>3. PICK x \in Nat \ T : \A y \in Nat \ T : ~(<<y, x>> \in R)
  BY <1>1, NatLessThanWellFounded, WFMin
<1>4. x - 1 \in Nat /\ x - 1 < x
  OBVIOUS
<1>5. x - 1 \in T
  BY <1>2, <1>3, <1>4
<1> QED BY <1>3, <1>5

(* f puts the parts of s together, one after the other, up to k.           *)
Unfold(s, f, k) == f = [i \in 1..k |-> IF i = 1 THEN s[i] ELSE f[i-1] \o s[i]]

LEMMA FlattenExists ==
  ASSUME NEW s, NEW n \in Nat
  PROVE  \E f : Unfold(s, f, n)
<1> DEFINE T == {k \in Nat : \E f : Unfold(s, f, k)}
<1>1. 0 \in T
  <2>1. PICK f : f = [i \in {} |-> i]
    OBVIOUS
  <2>2. 1..0 = {}
    OBVIOUS
  <2>3. Unfold(s, f, 0)
    BY <2>1, <2>2 DEF Unfold
  <2> QED BY <2>3
<1>2. ASSUME NEW k \in T PROVE k + 1 \in T
  <2>1. PICK f : Unfold(s, f, k)
    OBVIOUS
  <2>2. PICK z : z = IF k = 0 THEN s[1] ELSE f[k] \o s[k+1]
    OBVIOUS
  <2> DEFINE g == [i \in 1..(k+1) |-> IF i = k + 1 THEN z ELSE f[i]]
  <2>3. ASSUME NEW i \in 1..(k+1) PROVE g[i] = IF i = 1 THEN s[i] ELSE g[i-1] \o s[i]
    <3>1. CASE i = k + 1
      BY <2>2, <3>1
    <3>2. CASE i # k + 1
      <4>1. i \in 1..k /\ i \in Nat
        BY <3>2
      <4>2. f[i] = IF i = 1 THEN s[i] ELSE f[i-1] \o s[i]
        BY <2>1, <4>1 DEF Unfold
      <4>3. g[i] = f[i] /\ (i # 1 => g[i-1] = f[i-1])
        BY <3>2, <4>1
      <4> QED BY <4>2, <4>3
    <3> QED BY <3>1, <3>2
  <2>4. Unfold(s, g, k + 1)
    BY <2>3 DEF Unfold
  <2> HIDE DEF g
  <2> QED BY <2>4
<1> HIDE DEF T
<1>3. T = Nat
  <2>1. T \in SUBSET Nat
    BY DEF T
  <2> QED BY <1>1, <1>2, <2>1, Induction
<1> QED BY <1>3 DEF T

FlatAt(s, n) == \E f : Unfold(s, f, n) /\ FlattenSeq(s) = f[n]

LEMMA FlattenIs ==
  ASSUME NEW s, NEW n \in Nat, n = Len(s), n > 0
  PROVE  FlatAt(s, n)
<1> DEFINE f == CHOOSE g : g = [i \in 1..n |-> IF i = 1 THEN s[i] ELSE g[i-1] \o s[i]]
<1>1. Unfold(s, f, n)
  BY FlattenExists DEF Unfold
<1>2. FlattenSeq(s) = f[n]
  BY DEF FlattenSeq
<1> QED BY <1>1, <1>2 DEF FlatAt

(* Two ways to unfold agree where both do.                                 *)
LEMMA UnfoldSame ==
  ASSUME NEW s, NEW t, NEW m \in Nat, NEW n \in Nat, m <= n, NEW f, NEW g,
         Unfold(s, f, m), Unfold(t, g, n), \A i \in 1..m : s[i] = t[i]
  PROVE  \A i \in 1..m : f[i] = g[i]
<1> DEFINE T == {k \in Nat : k \in 1..m => f[k] = g[k]}
<1>1. 0 \in T /\ T \in SUBSET Nat
  OBVIOUS
<1>2. ASSUME NEW k \in T PROVE k + 1 \in T
  <2>1. CASE k + 1 \notin 1..m
    BY <2>1
  <2>2. CASE k + 1 \in 1..m
    <3>1. k + 1 \in 1..n /\ s[k + 1] = t[k + 1] /\ (k + 1) - 1 = k /\ (k + 1 # 1 => k \in 1..m)
      BY <2>2
    <3>2. f[k + 1] = IF k + 1 = 1 THEN s[k + 1] ELSE f[(k + 1) - 1] \o s[k + 1]
      BY <2>2 DEF Unfold
    <3>3. g[k + 1] = IF k + 1 = 1 THEN t[k + 1] ELSE g[(k + 1) - 1] \o t[k + 1]
      BY <3>1 DEF Unfold
    <3>4. k + 1 # 1 => f[k] = g[k]
      BY <3>1
    <3> QED BY <3>1, <3>2, <3>3, <3>4
  <2> QED BY <2>1, <2>2
<1> HIDE DEF T
<1>3. T = Nat
  BY <1>1, <1>2, Induction
<1> QED BY <1>3 DEF T

LEMMA FlattenEmpty == FlattenSeq(<< >>) = << >>
BY DEF FlattenSeq

LEMMA FlattenLonger ==
  ASSUME NEW s, NEW t, NEW n \in Nat, NEW m \in Nat, n > 0, m = n + 1,
         FlatAt(s, n), FlatAt(t, m), \A i \in 1..n : s[i] = t[i]
  PROVE  FlattenSeq(t) = FlattenSeq(s) \o t[m]
<1>1. PICK f : Unfold(s, f, n) /\ FlattenSeq(s) = f[n]
  BY DEF FlatAt
<1>2. PICK g : Unfold(t, g, m) /\ FlattenSeq(t) = g[m]
  BY DEF FlatAt
<1>3. n <= m /\ n \in 1..n
  OBVIOUS
<1>4. \A i \in 1..n : f[i] = g[i]
  BY <1>1, <1>2, <1>3, UnfoldSame
<1>5. m \in 1..m /\ m # 1 /\ m - 1 = n
  OBVIOUS
<1>6. g[m] = IF m = 1 THEN t[m] ELSE g[m - 1] \o t[m]
  BY <1>2, <1>5 DEF Unfold
<1> QED BY <1>1, <1>2, <1>3, <1>4, <1>5, <1>6

LEMMA FlattenAppend ==
  ASSUME NEW S, NEW s \in Seq(Seq(S)), NEW x \in Seq(S)
  PROVE  FlattenSeq(Append(s, x)) = FlattenSeq(s) \o x
<1>0. PICK t : t = Append(s, x)
  OBVIOUS
<1>1. PICK n \in Nat : n = Len(s)
  OBVIOUS
<1>2. PICK m \in Nat : m = n + 1
  BY <1>1
<1>3. Len(t) = m /\ t[m] = x /\ \A i \in 1..n : s[i] = t[i]
  BY <1>0, <1>1, <1>2
<1>4. CASE n = 0
  <2>1. s = << >>
    BY <1>1, <1>4, EmptySeq
  <2>2. m = 1 /\ m > 0 /\ 1 \in 1..1
    BY <1>2, <1>4
  <2>3. PICK g : Unfold(t, g, m) /\ FlattenSeq(t) = g[m]
    BY <1>2, <1>3, <2>2, FlattenIs DEF FlatAt
  <2>4. FlattenSeq(t) = x
    BY <1>3, <2>2, <2>3 DEF Unfold
  <2> QED BY <1>0, <2>1, <2>4, FlattenEmpty, ConcatEmptySeq
<1>5. CASE n # 0
  <2>1. n > 0
    BY <1>1, <1>5
  <2>2. FlattenSeq(t) = FlattenSeq(s) \o t[m]
    <3>1. FlatAt(s, n) /\ FlatAt(t, m)
      BY <1>1, <1>2, <1>3, <2>1, FlattenIs
    <3>2. PICK r : r = s
      OBVIOUS
    <3>3. FlatAt(r, n) /\ \A i \in 1..n : r[i] = t[i]
      BY <1>3, <3>1, <3>2
    <3>4. n \in Nat /\ m \in Nat /\ m = n + 1
      BY <1>1, <1>2
    <3>5. FlattenSeq(t) = FlattenSeq(r) \o t[m]
      BY <2>1, <3>1, <3>3, <3>4, FlattenLonger
    <3> QED BY <3>2, <3>5
  <2> QED BY <1>0, <1>3, <2>2
<1> QED BY <1>4, <1>5

(* What is put together is a sequence over the same set.                   *)
LEMMA FlattenType ==
  ASSUME NEW S, NEW s \in Seq(Seq(S))
  PROVE  FlattenSeq(s) \in Seq(S)
<1>1. PICK n \in Nat : n = Len(s)
  OBVIOUS
<1>2. CASE n = 0
  <2>1. s = << >>
    BY <1>1, <1>2, EmptySeq
  <2>2. FlattenSeq(s) = << >>
    BY <2>1, FlattenEmpty
  <2>3. << >> \in Seq(S)
    OBVIOUS
  <2> QED BY <2>2, <2>3
<1>3. CASE n # 0
  <2>1. PICK f : Unfold(s, f, n) /\ FlattenSeq(s) = f[n]
    BY <1>1, <1>3, FlattenIs DEF FlatAt
  <2> DEFINE T == {k \in Nat : k \in 1..n => f[k] \in Seq(S)}
  <2>2. T \in SUBSET Nat /\ 0 \in T
    OBVIOUS
  <2>3. ASSUME NEW k \in T PROVE k + 1 \in T
    <3>1. SUFFICES ASSUME k + 1 \in 1..n PROVE f[k + 1] \in Seq(S)
      OBVIOUS
    <3>2. PICK m \in Nat : m = k + 1
      OBVIOUS
    <3>3. f[m] = IF m = 1 THEN s[m] ELSE f[m - 1] \o s[m]
      BY <2>1, <3>1, <3>2 DEF Unfold
    <3>4. s[m] \in Seq(S) /\ (m # 1 => k \in 1..n /\ m - 1 = k)
      BY <1>1, <3>1, <3>2
    <3>5. m # 1 => f[k] \in Seq(S)
      BY <3>4
    <3> QED BY <3>2, <3>3, <3>4, <3>5
  <2> HIDE DEF T
  <2>4. T = Nat
    BY <2>2, <2>3, Induction
  <2>5. n \in T /\ n \in 1..n
    BY <1>3, <2>4
  <2> QED BY <2>1, <2>5 DEF T
<1> QED BY <1>2, <1>3

(* One or two parts.                                                       *)
LEMMA FlattenOne ==
  ASSUME NEW S, NEW x \in Seq(S)
  PROVE  FlattenSeq(<<x>>) = x
<1>1. << >> \in Seq(Seq(S)) /\ <<x>> = Append(<< >>, x) /\ << >> \o x = x
  OBVIOUS
<1> QED BY <1>1, FlattenAppend, FlattenEmpty, Zenon

LEMMA FlattenTwo ==
  ASSUME NEW S, NEW x \in Seq(S), NEW y \in Seq(S)
  PROVE  FlattenSeq(<<x, y>>) = x \o y
<1>1. <<x>> \in Seq(Seq(S)) /\ <<x, y>> = Append(<<x>>, y)
  OBVIOUS
<1> QED BY <1>1, FlattenAppend, FlattenOne, Zenon

(* The first n + 1 parts are the first n and one more.                     *)
LEMMA FlattenUpTo ==
  ASSUME NEW S, NEW n \in Nat, NEW g, \A i \in 1..(n + 1) : g[i] \in Seq(S)
  PROVE  /\ FlattenSeq([i \in 1..n |-> g[i]]) \in Seq(S)
         /\ FlattenSeq([i \in 1..(n + 1) |-> g[i]])
              = FlattenSeq([i \in 1..n |-> g[i]]) \o g[n + 1]
<1>1. PICK s : s = [i \in 1..n |-> g[i]]
  OBVIOUS
<1>2. PICK t : t = [i \in 1..(n + 1) |-> g[i]]
  OBVIOUS
<1>3. PICK x : x = g[n + 1]
  OBVIOUS
<1>4. s \in Seq(Seq(S)) /\ Len(s) = n /\ \A i \in 1..n : s[i] = g[i]
  BY <1>1
<1>5. t \in Seq(Seq(S)) /\ Len(t) = n + 1 /\ \A i \in 1..(n + 1) : t[i] = g[i]
  BY <1>2
<1>6. x \in Seq(S)
  BY <1>3
<1>7. t = Append(s, x)
  <2>1. PICK u : u = Append(s, x)
    OBVIOUS
  <2>2. /\ u \in Seq(Seq(S)) /\ Len(u) = n + 1 /\ u[n + 1] = x
        /\ \A i \in 1..n : u[i] = s[i]
    BY <1>4, <1>6, <2>1, AppendProperties
  <2>3. \A i \in 1..(n + 1) : i = n + 1 \/ i \in 1..n
    OBVIOUS
  <2>4. \A i \in 1..(n + 1) : u[i] = t[i]
    BY <1>3, <1>4, <1>5, <2>2, <2>3
  <2>5. u = t
    BY <1>5, <2>2, <2>4, SeqEqual
  <2> QED BY <2>1, <2>5
<1>8. FlattenSeq(s) \in Seq(S) /\ FlattenSeq(t) = FlattenSeq(s) \o x
  BY <1>4, <1>6, <1>7, FlattenType, FlattenAppend
<1> QED BY <1>1, <1>2, <1>3, <1>8

(* A prefix is what something is put after.                                *)
LEMMA PrefixOfConcat ==
  ASSUME NEW S, NEW s \in Seq(S), NEW v \in Seq(S)
  PROVE  IsPrefix(s, s \o v)
<1>1. SubSeq(s \o v, 1, Len(s)) = s /\ SubSeq(s, 1, Len(s)) = s
  OBVIOUS
<1> QED BY <1>1 DEF IsPrefix

LEMMA ConcatOfPrefix ==
  ASSUME NEW S, NEW s \in Seq(S), NEW t \in Seq(S), IsPrefix(s, t)
  PROVE  \E v \in Seq(S) : t = s \o v
<1>1. PICK n \in Nat : n = Len(s)
  OBVIOUS
<1>2. PICK m \in Nat : m = Len(t)
  OBVIOUS
<1>3. n <= m /\ s = SubSeq(t, 1, n)
  <2>1. SubSeq(s, 1, Len(s)) = s
    OBVIOUS
  <2> QED BY <1>1, <1>2, <2>1 DEF IsPrefix
<1>4. PICK v : v = SubSeq(t, n + 1, m)
  OBVIOUS
<1>5. v \in Seq(S)
  BY <1>1, <1>2, <1>3, <1>4
<1>6. s \o v = SubSeq(t, 1, m)
  <2>1. 1 \in 1..(Len(t) + 1) /\ n \in (1 - 1)..Len(t) /\ m \in n..Len(t)
    BY <1>1, <1>2, <1>3
  <2>2. SubSeq(t, 1, n) \o SubSeq(t, n + 1, m) = SubSeq(t, 1, m)
    BY <2>1, ConcatAdjacentSubSeq, Zenon
  <2> QED BY <1>3, <1>4, <2>2
<1>7. SubSeq(t, 1, m) = t
  BY <1>2
<1> QED BY <1>5, <1>6, <1>7

(* Where two streams are equal, so are their parts of equal length.        *)
LEMMA EqualParts ==
  ASSUME NEW S, NEW s \in Seq(S), NEW t \in Seq(S), NEW v \in Seq(S), NEW w \in Seq(S),
         s \o v = t \o w, Len(s) = Len(t)
  PROVE  s = t /\ v = w
<1>1. \A i \in 1..Len(s) : s[i] = t[i]
  <2> TAKE i \in 1..Len(s)
  <2>1. (s \o v)[i] = s[i] /\ (t \o w)[i] = t[i]
    OBVIOUS
  <2> QED BY <2>1
<1>2. s = t
  BY <1>1, SeqEqual
<1> QED BY <1>2, ConcatSimplifications
(* Sequences of bytes put together, and cut apart.                         *)
Joins(s, t, u) ==
  (s \o t) \o u = s \o (t \o u) /\ s \o t \in Seq(Byte) /\ t \o u \in Seq(Byte)

LEMMA Regroup ==
  ASSUME NEW s \in Seq(Byte), NEW t \in Seq(Byte), NEW u \in Seq(Byte)
  PROVE  Joins(s, t, u)
BY ConcatAssociative, ConcatProperties DEF Joins

Cancels(s, t, u, v) == s \o v = (s \o t) \o u => v = t \o u

LEMMA SameRest ==
  ASSUME NEW s \in Seq(Byte), NEW t \in Seq(Byte), NEW u \in Seq(Byte), NEW v \in Seq(Byte)
  PROVE  Cancels(s, t, u, v)
<1>1. Joins(s, t, u)
  BY Regroup, Zenon
<1>2. PICK w \in Seq(Byte) : w = t \o u
  BY <1>1 DEF Joins
<1>3. s \o v = s \o w => v = w
  BY ConcatSimplifications
<1> QED BY <1>1, <1>2, <1>3, Zenon DEF Joins, Cancels

(* The bytes of a length are its number to the base of 256.                *)
LEMMA LengthBytes ==
  ASSUME NEW n \in Nat, n <= MaxInt
  PROVE  FourBytes(n) \in Seq(Byte) /\ Len(FourBytes(n)) = 4 /\ Length(FourBytes(n)) = n
<1> DEFINE a == n \div 256  b == n \div 65536  c == n \div 16777216
<1>1. a \in Nat /\ n = 256 * a + (n % 256) /\ n % 256 \in Byte
  BY DEF Byte
<1>2. b \in Nat /\ a = 256 * b + (a % 256) /\ a % 256 \in Byte
  BY DEF Byte
<1>3. c \in Nat /\ b = 256 * c + (b % 256) /\ b % 256 \in Byte
  BY DEF Byte
<1>4. c \in Byte /\ c % 256 = c
  BY DEF Byte, MaxInt
<1>5. FourBytes(n) = <<c % 256, b % 256, a % 256, n % 256>>
  BY DEF FourBytes
<1> HIDE DEF a, b, c
<1>6. FourBytes(n) \in Seq(Byte) /\ Len(FourBytes(n)) = 4
  BY <1>1, <1>2, <1>3, <1>4, <1>5
<1>7. Length(FourBytes(n)) = ((c * 256 + (b % 256)) * 256 + (a % 256)) * 256 + (n % 256)
  BY <1>4, <1>5 DEF Length
<1> QED BY <1>1, <1>2, <1>3, <1>4, <1>6, <1>7

LEMMA BytesLength ==
  ASSUME NEW x \in Seq(Byte), Len(x) = 4
  PROVE  Length(x) \in Nat /\ FourBytes(Length(x)) = x
<1>1. PICK a, b, c, d \in Byte : a = x[1] /\ b = x[2] /\ c = x[3] /\ d = x[4]
  <2>1. x[1] \in Byte /\ x[2] \in Byte /\ x[3] \in Byte /\ x[4] \in Byte
    OBVIOUS
  <2> QED BY <2>1, Zenon
<1>2. x = <<a, b, c, d>>
  <2>1. PICK y \in Seq(Byte) : y = <<a, b, c, d>>
    BY <1>1
  <2>2. Len(y) = 4 /\ \A i \in 1..4 : x[i] = y[i]
    BY <1>1, <2>1
  <2>3. x = y
    BY <2>1, <2>2, SeqEqual
  <2> QED BY <2>1, <2>3
<1>3. a \in 0..255 /\ b \in 0..255 /\ c \in 0..255 /\ d \in 0..255
  BY <1>1 DEF Byte
<1>4. PICK p \in Nat : p = a * 256 + b
  BY <1>3
<1>5. PICK q \in Nat : q = p * 256 + c
  BY <1>3, <1>4
<1>6. PICK n \in Nat : n = q * 256 + d
  BY <1>3, <1>5
<1>7. n % 256 = d /\ n \div 256 = q /\ q % 256 = c /\ p % 256 = b /\ a % 256 = a
  BY <1>3, <1>4, <1>5, <1>6
<1>8. n \div 65536 = p
  BY <1>3, <1>4, <1>5, <1>6
<1>9. n \div 16777216 = a
  BY <1>3, <1>4, <1>5, <1>6
<1>10. Length(x) = n
  BY <1>1, <1>4, <1>5, <1>6 DEF Length
<1>11. FourBytes(n) = <<a, b, c, d>>
  BY <1>7, <1>8, <1>9 DEF FourBytes
<1> QED BY <1>2, <1>6, <1>10, <1>11

(* What the calls for a message write is, for lines and objects, what a    *)
(* receiver takes for it.                                                  *)
LEMMA CallsOf ==
  ASSUME NEW k \in Codec, NEW m \in Messages[k]
  PROVE  /\ Calls(k, m) \in Seq(Seq(Byte)) /\ Len(Calls(k, m)) \in {1, 2}
         /\ FlattenSeq(Calls(k, m)) \in Seq(Byte)
         /\ m \in Seq(Byte)
         /\ k \in {"line", "object"} => FlattenSeq(Calls(k, m)) = Taken(k, m)
<1>1. m \in Seq(Byte)
  BY FramingAssumption
<1>2. Nul \in Byte /\ Newline \in Byte /\ At \in Byte /\ Caret \in Byte
  BY DEF Byte, Nul, Newline, At, Caret
<1>3. CASE k = "stomp"
  <2>1. Calls(k, m) = <<m \o <<Caret, At, Newline>>, <<Newline>>>>
    BY <1>3 DEF Calls
  <2>2. m \o <<Caret, At, Newline>> \in Seq(Byte) /\ <<Newline>> \in Seq(Byte)
    BY <1>1, <1>2
  <2>3. Calls(k, m) \in Seq(Seq(Byte)) /\ Len(Calls(k, m)) = 2
    BY <2>1, <2>2
  <2> QED BY <1>1, <1>3, <2>3, FlattenType
<1>4. CASE k = "line"
  <2>1. Calls(k, m) = <<m, <<Newline>>>> /\ Taken(k, m) = Append(m, Newline)
    BY <1>4 DEF Calls, Taken
  <2>2. <<Newline>> \in Seq(Byte)
    BY <1>2
  <2>3. Calls(k, m) \in Seq(Seq(Byte)) /\ Len(Calls(k, m)) = 2
    BY <1>1, <2>1, <2>2
  <2>4. FlattenSeq(Calls(k, m)) = m \o <<Newline>>
    BY <1>1, <2>1, <2>2, FlattenTwo
  <2>5. Append(m, Newline) = m \o <<Newline>>
    BY <1>1, <1>2, AppendIsConcat
  <2> QED BY <1>1, <2>1, <2>3, <2>4, <2>5, FlattenType
<1>5. CASE k = "ascii"
  <2>1. Calls(k, m) = <<m \o <<Nul>>>>
    BY <1>5 DEF Calls
  <2>2. m \o <<Nul>> \in Seq(Byte)
    BY <1>1, <1>2
  <2>3. Calls(k, m) \in Seq(Seq(Byte)) /\ Len(Calls(k, m)) = 1
    BY <2>1, <2>2
  <2> QED BY <1>1, <1>5, <2>3, FlattenType
<1>6. CASE k = "object"
  <2>1. Calls(k, m) = <<FourBytes(Len(m)) \o m>> /\ Taken(k, m) = FourBytes(Len(m)) \o m
    BY <1>6 DEF Calls, Taken
  <2>2. Len(m) \in 1..MaxInt
    BY <1>6, FramingAssumption
  <2>3. FourBytes(Len(m)) \in Seq(Byte)
    <3>1. MaxInt \in Nat
      BY SMT DEF MaxInt
    <3>2. Len(m) \in Nat /\ Len(m) <= MaxInt
      BY <2>2, <3>1
    <3> QED BY <3>2, LengthBytes
  <2>4. FourBytes(Len(m)) \o m \in Seq(Byte)
    BY <1>1, <2>3, ConcatProperties
  <2>5. PICK y \in Seq(Byte) : y = FourBytes(Len(m)) \o m
    BY <2>4
  <2>6. Calls(k, m) \in Seq(Seq(Byte)) /\ Len(Calls(k, m)) = 1
    BY <2>1, <2>5
  <2> QED BY <1>1, <2>1, <2>4, <2>6, FlattenType, FlattenOne
<1> QED BY <1>3, <1>4, <1>5, <1>6 DEF Codec

(* One message more.                                                       *)
LEMMA StreamNext ==
  ASSUME NEW k \in Codec, NEW ms \in Seq(Messages[k]), NEW m \in Messages[k]
  PROVE  /\ Stream(k, ms) \in Seq(Byte)
         /\ Stream(k, Append(ms, m)) = Stream(k, ms) \o FlattenSeq(Calls(k, m))
<1>1. PICK n \in Nat : n = Len(ms)
  OBVIOUS
<1>2. PICK e : e = Append(ms, m)
  OBVIOUS
<1>3. Len(e) = n + 1 /\ e[n + 1] = m /\ \A i \in 1..n : e[i] = ms[i]
  BY <1>1, <1>2
<1>4. \A i \in 1..(n + 1) : e[i] \in Messages[k]
  BY <1>1, <1>2
<1>5. PICK g : g = [i \in 1..(n + 1) |-> FlattenSeq(Calls(k, e[i]))]
  OBVIOUS
<1>6. \A i \in 1..(n + 1) : g[i] \in Seq(Byte)
  BY <1>4, <1>5, CallsOf
<1>7. Stream(k, ms) = FlattenSeq([i \in 1..n |-> g[i]])
  <2>1. [i \in 1..n |-> FlattenSeq(Calls(k, ms[i]))] = [i \in 1..n |-> g[i]]
    BY <1>3, <1>5
  <2> QED BY <1>1, <2>1 DEF Stream
<1>8. Stream(k, e) = FlattenSeq([i \in 1..(n + 1) |-> g[i]])
  <2>1. [i \in 1..(n + 1) |-> FlattenSeq(Calls(k, e[i]))] = [i \in 1..(n + 1) |-> g[i]]
    BY <1>5
  <2> QED BY <1>3, <2>1 DEF Stream
<1>9. g[n + 1] = FlattenSeq(Calls(k, m))
  <2>1. n + 1 \in 1..(n + 1)
    BY <1>1
  <2>2. g[n + 1] = FlattenSeq(Calls(k, e[n + 1]))
    BY <1>5, <2>1, Zenon
  <2> QED BY <1>3, <2>2, Zenon
<1>10. /\ FlattenSeq([i \in 1..n |-> g[i]]) \in Seq(Byte)
       /\ FlattenSeq([i \in 1..(n + 1) |-> g[i]])
            = FlattenSeq([i \in 1..n |-> g[i]]) \o g[n + 1]
  BY <1>1, <1>6, FlattenUpTo
<1> QED BY <1>2, <1>7, <1>8, <1>9, <1>10, Zenon

LEMMA StreamType ==
  ASSUME NEW k \in Codec, NEW ms \in Seq(Messages[k])
  PROVE  Stream(k, ms) \in Seq(Byte)
<1>1. ASSUME NEW i \in 1..Len(ms) PROVE FlattenSeq(Calls(k, ms[i])) \in Seq(Byte)
  <2>1. ms[i] \in Messages[k]
    OBVIOUS
  <2> QED BY <2>1, CallsOf
<1>2. PICK e : e = [i \in 1..Len(ms) |-> FlattenSeq(Calls(k, ms[i]))]
  OBVIOUS
<1>3. e \in Seq(Seq(Byte))
  BY <1>1, <1>2
<1> QED BY <1>2, <1>3, FlattenType DEF Stream

LEMMA StreamEmpty ==
  ASSUME NEW k
  PROVE  Stream(k, << >>) = << >>
<1>1. Len(<< >>) = 0
  OBVIOUS
<1>2. [i \in 1..0 |-> FlattenSeq(Calls(k, << >>[i]))] = << >>
  OBVIOUS
<1> QED BY <1>1, <1>2, FlattenEmpty DEF Stream

Lengthened(s, t, x) == s \o Append(t, x) = Append(s \o t, x)

LEMMA AppendLater ==
  ASSUME NEW S, NEW s \in Seq(S), NEW t \in Seq(S), NEW x \in S
  PROVE  Lengthened(s, t, x)
<1>1. PICK e : e = <<x>> /\ e \in Seq(S)
  <2>1. <<x>> \in Seq(S)
    OBVIOUS
  <2> QED BY <2>1, Zenon
<1>2. Append(t, x) = t \o e
  BY <1>1, AppendIsConcat
<1>3. s \o t \in Seq(S)
  BY ConcatProperties
<1>4. Append(s \o t, x) = (s \o t) \o e
  BY <1>1, <1>3, AppendIsConcat
<1>5. (s \o t) \o e = s \o (t \o e)
  BY <1>1, ConcatAssociative
<1> QED BY <1>2, <1>4, <1>5, Zenon DEF Lengthened

(* The stream of fewer messages comes first.                               *)
StreamBegins(k, ms, xs) ==
  \E z \in Seq(Byte) : Stream(k, ms \o xs) = Stream(k, ms) \o z

LEMMA StreamFirst ==
  ASSUME NEW k \in Codec, NEW ms \in Seq(Messages[k]), NEW xs \in Seq(Messages[k])
  PROVE  StreamBegins(k, ms, xs)
<1> DEFINE F(n) == \E z \in Seq(Byte) :
                     Stream(k, ms \o SubSeq(xs, 1, n)) = Stream(k, ms) \o z
           T == {n \in Nat : n <= Len(xs) => F(n)}
<1>1. PICK a \in Seq(Byte) : a = Stream(k, ms)
  <2>1. Stream(k, ms) \in Seq(Byte)
    BY StreamType
  <2> QED BY <2>1, Zenon
<1>2. 0 \in T
  <2>1. ms \o SubSeq(xs, 1, 0) = ms
    <3>1. SubSeq(xs, 1, 0) = << >>
      OBVIOUS
    <3> QED BY <3>1, ConcatEmptySeq
  <2>2. a = a \o << >> /\ << >> \in Seq(Byte)
    BY <1>1, ConcatEmptySeq
  <2> QED BY <1>1, <2>1, <2>2
<1>3. ASSUME NEW n \in T PROVE n + 1 \in T
  <2>1. SUFFICES ASSUME n + 1 <= Len(xs) PROVE F(n + 1)
    <3> HIDE DEF F
    <3> QED OBVIOUS
  <2>2. n \in Nat /\ n <= Len(xs)
    BY <2>1
  <2>3. PICK z : z \in Seq(Byte) /\ Stream(k, ms \o SubSeq(xs, 1, n)) = a \o z
    BY <1>1, <2>2
  <2>4. PICK m \in Messages[k] : m = xs[n + 1]
    BY <2>1
  <2>5. PICK u \in Seq(Messages[k]) : u = SubSeq(xs, 1, n)
    <3>1. PICK S : S = Messages[k]
      OBVIOUS
    <3>2. xs \in Seq(S)
      BY <3>1, Zenon
    <3>3. SubSeq(xs, 1, n) \in Seq(S)
      BY <2>2, <3>2
    <3> QED BY <3>1, <3>3, Zenon
  <2>6. SubSeq(xs, 1, n + 1) = Append(u, m)
    <3>1. 1 \in 1..Len(xs) /\ n + 1 \in 1..Len(xs) /\ (n + 1) - 1 = n
      BY <2>1, <2>2
    <3>2. SubSeq(xs, 1, n + 1) = SubSeq(xs, 1, (n + 1) - 1) \o <<xs[n + 1]>>
      BY <3>1, SubSeqRecursiveSecond, Zenon
    <3>3. Append(u, m) = u \o <<m>>
      BY <2>4, <2>5, AppendIsConcat
    <3> QED BY <2>4, <2>5, <3>1, <3>2, <3>3
  <2>7. PICK w \in Seq(Messages[k]) : w = ms \o u
    <3>1. ms \in Seq(Messages[k]) /\ u \in Seq(Messages[k])
      BY <2>5
    <3>2. ms \o u \in Seq(Messages[k])
      BY <3>1, ConcatProperties, Zenon
    <3> QED BY <3>2, Zenon
  <2>8. ms \o Append(u, m) = Append(w, m)
    <3>1. u \in Seq(Messages[k]) /\ m \in Messages[k]
      BY <2>4, <2>5
    <3>2. Lengthened(ms, u, m)
      BY <3>1, AppendLater, Zenon
    <3> QED BY <2>7, <3>2, Zenon DEF Lengthened
  <2>9. PICK y \in Seq(Byte) : y = FlattenSeq(Calls(k, m))
    <3>1. FlattenSeq(Calls(k, m)) \in Seq(Byte)
      BY <2>4, CallsOf
    <3> QED BY <3>1, Zenon
  <2>10. Stream(k, Append(w, m)) = Stream(k, w) \o y
    BY <2>4, <2>7, <2>9, StreamNext
  <2>11. (a \o z) \o y = a \o (z \o y) /\ z \o y \in Seq(Byte)
    <3>1. z \in Seq(Byte) /\ y \in Seq(Byte) /\ a \in Seq(Byte)
      BY <1>1, <2>3, <2>9
    <3>2. Joins(a, z, y)
      BY <3>1, Regroup, Zenon
    <3> QED BY <3>2, Zenon DEF Joins
  <2>12. Stream(k, ms \o SubSeq(xs, 1, n + 1)) = a \o (z \o y)
    BY <2>3, <2>5, <2>6, <2>7, <2>8, <2>10, <2>11
  <2> QED BY <1>1, <2>11, <2>12
<1> HIDE DEF T
<1>4. T = Nat
  <2>1. T \in SUBSET Nat
    BY DEF T
  <2> QED BY <1>2, <1>3, <2>1, Induction
<1>5. Len(xs) \in T /\ SubSeq(xs, 1, Len(xs)) = xs
  BY <1>4
<1>6. F(Len(xs))
  <2> HIDE DEF F
  <2> QED BY <1>5 DEF T
<1> QED BY <1>5, <1>6 DEF StreamBegins

LEMMA OneMore ==
  ASSUME NEW s \in Seq(Byte), NEW u \in Seq(Byte), NEW b \in Byte
  PROVE  /\ (s \o u) \o <<b>> = s \o (u \o <<b>>)
         /\ s \o u \in Seq(Byte) /\ u \o <<b>> \in Seq(Byte)
<1>1. <<b>> \in Seq(Byte)
  OBVIOUS
<1>2. PICK y \in Seq(Byte) : y = <<b>>
  BY <1>1
<1>3. (s \o u) \o y = s \o (u \o y) /\ s \o u \in Seq(Byte) /\ u \o y \in Seq(Byte)
  BY <1>2, ConcatAssociative, ConcatProperties
<1> QED BY <1>2, <1>3

LEMMA FourBytesType ==
  ASSUME NEW n \in Nat
  PROVE  FourBytes(n) \in Seq(Byte) /\ Len(FourBytes(n)) = 4
<1>1. PICK a, b, c, d : a = (n \div 16777216) % 256 /\ b = (n \div 65536) % 256
                        /\ c = (n \div 256) % 256 /\ d = n % 256
  BY SMT
<1>2. a \in Byte /\ b \in Byte /\ c \in Byte /\ d \in Byte
  BY <1>1, SMT DEF Byte
<1>3. FourBytes(n) = <<a, b, c, d>>
  BY <1>1, SMT DEF FourBytes
<1> QED BY <1>2, <1>3, SMT

LEMMA TakenType ==
  ASSUME NEW k \in Codec, NEW m \in Seq(Byte)
  PROVE  Taken(k, m) \in Seq(Byte)
<1>1. Newline \in Byte /\ Caret \in Byte
  BY DEF Byte, Newline, Caret
<1>2. CASE k = "stomp"
  BY <1>1, <1>2 DEF Taken
<1>3. CASE k = "line"
  BY <1>1, <1>3 DEF Taken
<1>4. CASE k = "ascii"
  BY <1>4 DEF Taken
<1>5. CASE k = "object"
  <2>1. Len(m) \in Nat
    OBVIOUS
  <2>2. Taken(k, m) = FourBytes(Len(m)) \o m
    BY <1>5 DEF Taken
  <2> QED BY <2>1, <2>2, FourBytesType, ConcatProperties
<1> QED BY <1>2, <1>3, <1>4, <1>5 DEF Codec

LEMMA AllTakenNext ==
  ASSUME NEW k \in Codec, NEW ds \in Seq(Seq(Byte)), NEW m \in Seq(Byte)
  PROVE  /\ AllTaken(k, ds) \in Seq(Byte)
         /\ AllTaken(k, Append(ds, m)) = AllTaken(k, ds) \o Taken(k, m)
<1>1. PICK n \in Nat : n = Len(ds)
  OBVIOUS
<1>2. PICK e : e = Append(ds, m)
  OBVIOUS
<1>3. Len(e) = n + 1 /\ e[n + 1] = m /\ \A i \in 1..n : e[i] = ds[i]
  BY <1>1, <1>2
<1>4. \A i \in 1..(n + 1) : e[i] \in Seq(Byte)
  BY <1>1, <1>2
<1>5. PICK g : g = [i \in 1..(n + 1) |-> Taken(k, e[i])]
  OBVIOUS
<1>6. \A i \in 1..(n + 1) : g[i] \in Seq(Byte)
  BY <1>4, <1>5, TakenType
<1>7. AllTaken(k, ds) = FlattenSeq([i \in 1..n |-> g[i]])
  <2>1. ASSUME NEW i \in 1..n PROVE Taken(k, ds[i]) = g[i]
    <3>1. i \in 1..(n + 1) /\ e[i] = ds[i]
      BY <1>3
    <3> QED BY <1>5, <3>1, Zenon
  <2>2. [i \in 1..n |-> Taken(k, ds[i])] = [i \in 1..n |-> g[i]]
    BY <2>1, Zenon
  <2> QED BY <1>1, <2>2, Zenon DEF AllTaken
<1>8. AllTaken(k, e) = FlattenSeq([i \in 1..(n + 1) |-> g[i]])
  <2>1. [i \in 1..(n + 1) |-> Taken(k, e[i])] = [i \in 1..(n + 1) |-> g[i]]
    BY <1>5
  <2> QED BY <1>3, <2>1 DEF AllTaken
<1>9. g[n + 1] = Taken(k, m)
  <2>1. n + 1 \in 1..(n + 1)
    BY <1>1
  <2>2. g[n + 1] = Taken(k, e[n + 1])
    BY <1>5, <2>1, Zenon
  <2> QED BY <1>3, <2>2, Zenon
<1>10. /\ FlattenSeq([i \in 1..n |-> g[i]]) \in Seq(Byte)
       /\ FlattenSeq([i \in 1..(n + 1) |-> g[i]])
            = FlattenSeq([i \in 1..n |-> g[i]]) \o g[n + 1]
  BY <1>1, <1>6, FlattenUpTo
<1> QED BY <1>2, <1>7, <1>8, <1>9, <1>10, Zenon

LEMMA NothingTaken ==
  ASSUME NEW k
  PROVE  AllTaken(k, << >>) = << >> /\ Seen(k, << >>) = << >>
<1>1. Len(<< >>) = 0
  OBVIOUS
<1>2. [i \in 1..0 |-> Taken(k, << >>[i])] = << >>
  OBVIOUS
<1>3. [i \in 1..0 |-> IF << >>[i] = Nul THEN << >> ELSE << << >>[i] >>] = << >>
  OBVIOUS
<1>4. AllTaken(k, << >>) = << >>
  BY <1>1, <1>2, FlattenEmpty DEF AllTaken
<1>5. Seen(k, << >>) = << >>
  BY <1>1, <1>3, FlattenEmpty DEF Seen
<1> QED BY <1>4, <1>5

(* What the receiver sees of one byte more.                                *)
LEMMA SeenNext ==
  ASSUME NEW k, NEW s \in Seq(Byte), NEW b \in Byte
  PROVE  /\ Seen(k, s) \in Seq(Byte)
         /\ (k # "ascii" \/ b # Nul) => Seen(k, s \o <<b>>) = Seen(k, s) \o <<b>>
         /\ (k = "ascii" /\ b = Nul) => Seen(k, s \o <<b>>) = Seen(k, s)
<1>1. CASE k # "ascii"
  BY <1>1 DEF Seen
<1>2. CASE k = "ascii"
  <2>1. PICK n \in Nat : n = Len(s)
    OBVIOUS
  <2>2. PICK t : t = s \o <<b>>
    OBVIOUS
  <2>3. Len(t) = n + 1 /\ t[n + 1] = b /\ \A i \in 1..n : t[i] = s[i]
    BY <2>1, <2>2
  <2>4. \A i \in 1..(n + 1) : t[i] \in Byte
    BY <2>1, <2>2
  <2>5. PICK g : g = [i \in 1..(n + 1) |-> IF t[i] = Nul THEN << >> ELSE <<t[i]>>]
    OBVIOUS
  <2>6. \A i \in 1..(n + 1) : g[i] \in Seq(Byte)
    BY <2>4, <2>5
  <2>7. Seen(k, s) = FlattenSeq([i \in 1..n |-> g[i]])
    <3>1. [i \in 1..n |-> IF s[i] = Nul THEN << >> ELSE <<s[i]>>] = [i \in 1..n |-> g[i]]
      BY <2>3, <2>5
    <3> QED BY <1>2, <2>1, <3>1 DEF Seen
  <2>8. Seen(k, t) = FlattenSeq([i \in 1..(n + 1) |-> g[i]])
    <3>1. [i \in 1..(n + 1) |-> IF t[i] = Nul THEN << >> ELSE <<t[i]>>]
            = [i \in 1..(n + 1) |-> g[i]]
      BY <2>5
    <3> QED BY <1>2, <2>3, <3>1 DEF Seen
  <2>9. g[n + 1] = IF b = Nul THEN << >> ELSE <<b>>
    BY <2>3, <2>5
  <2>10. Seen(k, s) \in Seq(Byte) /\ Seen(k, t) = Seen(k, s) \o g[n + 1]
    BY <2>6, <2>7, <2>8, FlattenUpTo
  <2> QED BY <1>2, <2>2, <2>9, <2>10, ConcatEmptySeq
<1> QED BY <1>1, <1>2

(* What is seen of a part is seen first.                                   *)
LEMMA SeenFirst ==
  ASSUME NEW k, NEW s \in Seq(Byte), NEW v \in Seq(Byte)
  PROVE  \E z \in Seq(Byte) : Seen(k, s \o v) = Seen(k, s) \o z
<1> DEFINE F(n) == \E z \in Seq(Byte) : Seen(k, s \o SubSeq(v, 1, n)) = Seen(k, s) \o z
           T == {n \in Nat : n <= Len(v) => F(n)}
<1>0. Seen(k, s) \in Seq(Byte)
  <2>1. Nul \in Byte
    BY DEF Byte, Nul
  <2> QED BY <2>1, SeenNext
<1>1. 0 \in T
  <2>1. s \o SubSeq(v, 1, 0) = s
    <3>1. SubSeq(v, 1, 0) = << >>
      OBVIOUS
    <3> QED BY <3>1, ConcatEmptySeq
  <2>2. Seen(k, s) = Seen(k, s) \o << >> /\ << >> \in Seq(Byte)
    BY <1>0, ConcatEmptySeq
  <2> QED BY <2>1, <2>2
<1>2. ASSUME NEW n \in T PROVE n + 1 \in T
  <2>1. SUFFICES ASSUME n + 1 <= Len(v) PROVE F(n + 1)
    <3> HIDE DEF F
    <3> QED OBVIOUS
  <2>2. n \in Nat /\ n <= Len(v)
    BY <2>1
  <2>3. PICK z \in Seq(Byte) : Seen(k, s \o SubSeq(v, 1, n)) = Seen(k, s) \o z
    BY <2>2
  <2>4. PICK b \in Byte : b = v[n + 1]
    BY <2>1
  <2>5. PICK u \in Seq(Byte) : u = SubSeq(v, 1, n)
    <3>1. SubSeq(v, 1, n) \in Seq(Byte)
      BY <2>2
    <3> QED BY <3>1
  <2>6. SubSeq(v, 1, n + 1) = u \o <<b>>
    <3>1. 1 \in 1..Len(v) /\ n + 1 \in 1..Len(v) /\ (n + 1) - 1 = n
      BY <2>1, <2>2
    <3>2. SubSeq(v, 1, n + 1) = SubSeq(v, 1, (n + 1) - 1) \o <<v[n + 1]>>
      BY <3>1, SubSeqRecursiveSecond, Zenon
    <3> QED BY <2>4, <2>5, <3>1, <3>2
  <2>7. s \o (u \o <<b>>) = (s \o u) \o <<b>> /\ s \o u \in Seq(Byte)
    <3>1. <<b>> \in Seq(Byte) /\ u \in Seq(Byte)
      BY <2>4, <2>5
    <3>2. Joins(s, u, <<b>>)
      BY <3>1, Regroup, Zenon
    <3> QED BY <3>2, Zenon DEF Joins
  <2>8. CASE k = "ascii" /\ b = Nul
    <3>1. Seen(k, (s \o u) \o <<b>>) = Seen(k, s \o u)
      BY <2>4, <2>7, <2>8, SeenNext
    <3> QED BY <2>3, <2>5, <2>6, <2>7, <3>1
  <2>9. CASE ~(k = "ascii" /\ b = Nul)
    <3>1. Seen(k, (s \o u) \o <<b>>) = Seen(k, s \o u) \o <<b>>
      BY <2>4, <2>7, <2>9, SeenNext
    <3>2. PICK w \in Seq(Byte) : w = Seen(k, s)
      BY <1>0, Zenon
    <3>3. (w \o z) \o <<b>> = w \o (z \o <<b>>) /\ z \o <<b>> \in Seq(Byte)
      <4>1. z \in Seq(Byte) /\ b \in Byte /\ w \in Seq(Byte)
        BY <2>3, <2>4, <3>2
      <4> QED BY <4>1, OneMore
    <3> QED BY <2>3, <2>5, <2>6, <2>7, <3>1, <3>2, <3>3
  <2> QED BY <2>8, <2>9
<1> HIDE DEF T
<1>3. T = Nat
  <2>1. T \in SUBSET Nat
    BY DEF T
  <2> QED BY <1>1, <1>2, <2>1, Induction
<1>4. Len(v) \in T /\ SubSeq(v, 1, Len(v)) = v
  BY <1>3
<1>5. F(Len(v))
  <2> HIDE DEF F
  <2> QED BY <1>4 DEF T
<1> QED BY <1>4, <1>5

(* The types, in parts: a send is counted after its calls, a stomp buffer  *)
(* keeps its size, a line's can be doubled, a length has four bytes.       *)
Set == codec \in Codec /\ threadPerClient \in BOOLEAN
Sends ==
  /\ offered \in Seq(Messages[codec]) /\ sent \in 0..Len(offered) /\ failed \in BOOLEAN
  /\ calls \in Seq(Seq(Byte)) /\ Len(calls) <= 2 /\ tmp \in Nat
  /\ calls # << >> => tmp <= Len(calls[1]) /\ sent < Len(offered)
Carries ==
  /\ written \in Seq(Byte) /\ wire \in Seq(Byte) /\ chunk \in Seq(Byte)
  /\ broken \in BOOLEAN /\ threw \in BOOLEAN /\ stopped \in BOOLEAN
Places ==
  /\ got \in Nat /\ cut \in 0..got /\ since \in 0..Len(decoded)
  /\ codec # "stomp" => cut = 0 /\ since = 0
Buffers ==
  /\ bytes \in Seq(Byte) /\ inObject \in BOOLEAN /\ decoded \in Seq(Seq(Byte))
  /\ room \in Nat /\ (codec # "ascii" => Len(bytes) <= room)
  /\ codec = "stomp" => room = Room["stomp"]
  /\ codec = "line" => room > 0
  /\ inObject => codec = "object"
  /\ codec = "object" /\ ~inObject => room = 4 /\ Len(bytes) < 4
IType == Set /\ Sends /\ Carries /\ Buffers /\ Places

(* What Decode does with byte b.                                           *)
Unsent == UNCHANGED <<codec, threadPerClient, offered, sent, failed, calls, tmp, written>>
Calm == chunk' = Tail(chunk) /\ UNCHANGED <<wire, broken, threw, stopped, got, cut, since>>

Kept(b) ==
  /\ Calm /\ bytes' = Append(bytes, b) /\ UNCHANGED <<decoded, inObject>>
  /\ codec = "stomp" => ~Full /\ b # Caret /\ room' = room
  /\ codec = "line" => b # Newline /\ room' = IF Full THEN room * 2 ELSE room
  /\ codec = "ascii" => b \notin {Nul, Newline}
  /\ codec \in {"object", "ascii"} => room' = room
  /\ codec = "object" => ~Full /\ Len(bytes) + 1 # room
Skipped(b) ==
  /\ codec = "ascii" /\ b = Nul
  /\ Calm /\ UNCHANGED <<bytes, room, inObject, decoded>>
Emitted(b, m) ==
  /\ Calm /\ decoded' = Append(decoded, m) /\ bytes' = << >>
  /\ codec \in {"stomp", "line"} => m = bytes
  /\ codec \in {"ascii", "object"} => m = Append(bytes, b)
  /\ codec = "stomp" => b = Caret /\ ~Full
  /\ codec \in {"line", "ascii"} => b = Newline
  /\ codec = "object" => inObject /\ Len(bytes) + 1 = room /\ inObject' = FALSE /\ room' = 4
  /\ codec # "object" => UNCHANGED <<room, inObject>>
Measured(b) ==
  /\ codec = "object" /\ ~inObject /\ Len(bytes) + 1 = room
  /\ Calm /\ bytes' = << >> /\ inObject' = TRUE /\ room' = Length(Append(bytes, b))
  /\ UNCHANGED decoded
Thrown(b) ==
  /\ threw' = TRUE /\ chunk' = << >> /\ stopped' \in BOOLEAN /\ broken' \in BOOLEAN
  /\ (broken => broken')
  /\ wire' = wire \/ wire' = << >>
  /\ UNCHANGED <<room, inObject, decoded, got, cut, since>>
  /\ \/ Full /\ (codec = "stomp" \/ inObject) /\ UNCHANGED bytes
     \/ /\ codec = "object" /\ inObject /\ Len(bytes) + 1 = room
        /\ Append(bytes, b) \in Unknown /\ bytes' = Append(bytes, b)
Refused(b) ==
  /\ codec = "stomp" /\ b = Caret /\ ~Full
  /\ decoded' = Append(decoded, bytes) /\ bytes' = << >>
  /\ chunk' = << >> /\ stopped' \in BOOLEAN /\ broken' \in BOOLEAN
  /\ (broken => broken')
  /\ wire' = wire \/ (wire' = << >> /\ broken')
  /\ cut' = got /\ since' = Len(decoded')
  /\ UNCHANGED <<room, inObject, threw, got>>
Decoded(b) ==
  \/ Kept(b) \/ Skipped(b) \/ (\E m \in Seq(Byte) : Emitted(b, m))
  \/ Measured(b) \/ Thrown(b) \/ Refused(b)

LEMMA DecodeIs ==
  ASSUME IType, Decode
  PROVE  chunk # << >> /\ Unsent /\ \E b \in Byte : b = Head(chunk) /\ Decoded(b)
<1>1. chunk # << >> /\ Unsent
  BY DEF Decode, Unsent, setup, sender
<1>2. PICK b \in Byte : /\ b = Head(chunk)
                        /\ DecodeStomp(b) \/ DecodeLine(b) \/ DecodeObject(b) \/ GetFrameAscii(b)
  <2>1. Head(chunk) \in Byte
    BY <1>1 DEF IType, Carries
  <2> QED BY <2>1 DEF Decode
<1>3. bytes \in Seq(Byte) /\ Append(bytes, b) \in Seq(Byte)
  BY <1>2 DEF IType, Buffers
<1>4. threadPerClient \in BOOLEAN /\ broken \in BOOLEAN
  BY DEF IType, Set, Carries
<1>5. Decoded(b)
  <2>1. CASE DecodeStomp(b)
    <3>1. CASE Full
      <4>1. Thrown(b)
        BY <1>4, <2>1, <3>1 DEF DecodeStomp, Throw, Unwind, Thrown, place
      <4> QED BY <4>1 DEF Decoded
    <3>2. CASE ~Full /\ b = Caret /\ Emit(bytes)
      <4>1. Emitted(b, bytes)
        BY <2>1, <3>2 DEF DecodeStomp, Emit, Deliver, Rest, Emitted, Calm, place
      <4> QED BY <1>3, <4>1 DEF Decoded
    <3>4. CASE ~Full /\ b = Caret /\ ProcessThrows(bytes)
      <4>1. Refused(b)
        BY <1>4, <2>1, <3>4 DEF DecodeStomp, ProcessThrows, Deliver, Unwind, Refused
      <4> QED BY <4>1 DEF Decoded
    <3>3. CASE ~Full /\ b # Caret
      <4>1. Kept(b)
        BY <2>1, <3>3 DEF DecodeStomp, Keep, Consume, Kept, Calm, place
      <4> QED BY <4>1 DEF Decoded
    <3> QED BY <2>1, <3>1, <3>2, <3>3, <3>4 DEF DecodeStomp
  <2>2. CASE DecodeLine(b)
    <3>1. CASE b = Newline
      <4>1. Emitted(b, bytes)
        BY <2>2, <3>1 DEF DecodeLine, Emit, Deliver, Rest, Emitted, Calm, place
      <4> QED BY <1>3, <4>1 DEF Decoded
    <3>2. CASE b # Newline
      <4>1. Kept(b)
        BY <2>2, <3>2 DEF DecodeLine, Keep, Consume, Kept, Calm, place, Doubled
      <4> QED BY <4>1 DEF Decoded
    <3> QED BY <3>1, <3>2
  <2>3. CASE GetFrameAscii(b)
    <3>1. CASE b = Nul
      <4>1. Skipped(b)
        BY <2>3, <3>1 DEF GetFrameAscii, Consume, Skipped, Calm, place, Nul, Newline
      <4> QED BY <4>1 DEF Decoded
    <3>2. CASE b = Newline
      <4>1. Emitted(b, Append(bytes, b))
        BY <2>3, <3>2 DEF GetFrameAscii, Emit, Deliver, Rest, Emitted, Calm, place, Nul, Newline
      <4> QED BY <1>3, <4>1 DEF Decoded
    <3>3. CASE b \notin {Nul, Newline}
      <4>1. Kept(b)
        BY <2>3, <3>3 DEF GetFrameAscii, Keep, Consume, Kept, Calm, place
      <4> QED BY <4>1 DEF Decoded
    <3> QED BY <3>1, <3>2, <3>3
  <2>4. CASE DecodeObject(b)
    <3>1. PICK m \in Seq(Byte) : m = Append(bytes, b)
      BY <1>3
    <3>2. CASE inObject /\ Full
      <4>1. Len(bytes) + 1 # room
        BY <1>3, <3>2 DEF Full
      <4>2. Thrown(b)
        BY <1>4, <2>4, <3>2, <4>1 DEF DecodeObject, Throw, Unwind, Thrown, place
      <4> QED BY <4>2 DEF Decoded
    <3>3. CASE ~inObject /\ Len(bytes) + 1 = room
      <4>1. Measured(b)
        BY <2>4, <3>3 DEF DecodeObject, Consume, Measured, Calm, place
      <4> QED BY <4>1 DEF Decoded
    <3>4. CASE ~(inObject /\ Full) /\ Len(bytes) + 1 # room
      <4>1. ~Full
        BY <2>4, <3>4 DEF IType, Buffers, Full, DecodeObject
      <4>2. Kept(b)
        BY <2>4, <3>4, <4>1 DEF DecodeObject, Keep, Consume, Kept, Calm, place
      <4> QED BY <4>2 DEF Decoded
    <3>5. CASE inObject /\ ~Full /\ Len(bytes) + 1 = room
      <4>1. CASE m \in Unknown
        <5>1. Thrown(b)
          BY <1>4, <2>4, <3>1, <3>5, <4>1 DEF DecodeObject, Throw, Unwind, Thrown, place
        <5> QED BY <5>1 DEF Decoded
      <4>2. CASE m \notin Unknown
        <5>1. Emitted(b, m)
          BY <2>4, <3>1, <3>5, <4>2 DEF DecodeObject, Emit, Deliver, Rest, Emitted, Calm, place
        <5> QED BY <3>1, <5>1 DEF Decoded
      <4> QED BY <4>1, <4>2
    <3> QED BY <3>2, <3>3, <3>4, <3>5
  <2> QED BY <1>2, <2>1, <2>2, <2>3, <2>4
<1> QED BY <1>1, <1>2, <1>5

LEMMA TypeStart == Init => IType
<1> SUFFICES ASSUME Init PROVE IType
  OBVIOUS
<1>1. Room[codec] \in Nat /\ Len(<< >>) = 0 /\ Room["line"] > 0 /\ Room["object"] = 4
  BY FramingAssumption DEF Init
<1>2. << >> \in Seq(Messages[codec]) /\ << >> \in Seq(Byte) /\ << >> \in Seq(Seq(Byte))
  OBVIOUS
<1>3. Set /\ Carries
  BY <1>2 DEF Init, Set, Carries
<1>4. Sends
  <2>1. offered = << >> /\ sent = 0 /\ failed = FALSE /\ calls = << >> /\ tmp = 0
    BY DEF Init
  <2>2. Len(offered) = 0 /\ Len(calls) = 0 /\ 0 \in 0..0
    BY <1>1, <2>1
  <2>3. offered \in Seq(Messages[codec]) /\ calls \in Seq(Seq(Byte))
    BY <1>2, <2>1, Zenon
  <2>4. sent \in 0..Len(offered) /\ Len(calls) <= 2 /\ ~(calls # << >>)
    BY <2>1, <2>2
  <2>5. failed \in BOOLEAN /\ tmp \in Nat
    BY <2>1
  <2> QED BY <2>3, <2>4, <2>5 DEF Sends
<1>5. Buffers
  <2>1. bytes = << >> /\ room = Room[codec] /\ inObject = FALSE /\ decoded = << >>
    BY DEF Init
  <2>2. Len(bytes) = 0
    BY <1>1, <2>1
  <2>3. bytes \in Seq(Byte) /\ decoded \in Seq(Seq(Byte))
    BY <1>2, <2>1, Zenon
  <2>4. room \in Nat /\ Len(bytes) <= room /\ Len(bytes) < 4
    BY <1>1, <2>1, <2>2
  <2>5. /\ codec = "stomp" => room = Room["stomp"]
        /\ codec = "line" => room > 0
        /\ codec = "object" => room = 4
    BY <1>1, <2>1
  <2> QED BY <2>1, <2>3, <2>4, <2>5, Zenon DEF Buffers
<1>6. Places
  <2>1. got = 0 /\ cut = 0 /\ since = 0 /\ decoded = << >>
    BY DEF Init
  <2> QED BY <1>1, <2>1 DEF Places
<1> QED BY <1>3, <1>4, <1>5, <1>6 DEF IType

LEMMA TypeOfBytes ==
  ASSUME IType, NEW b \in Byte, Unsent, Decoded(b), chunk # << >>
  PROVE  Carries' /\ Buffers' /\ Places'
<1>1. /\ wire \in Seq(Byte) /\ written \in Seq(Byte) /\ Tail(chunk) \in Seq(Byte)
      /\ << >> \in Seq(Byte)
  BY DEF IType, Carries
<1>2. broken \in BOOLEAN /\ threw \in BOOLEAN /\ stopped \in BOOLEAN
  BY DEF IType, Carries
<1>3. Carries'
  <2>1. written' = written
    BY DEF Unsent
  <2>2. CASE Calm
    BY <1>1, <1>2, <2>1, <2>2 DEF Carries, Calm
  <2>3. CASE Thrown(b)
    BY <1>1, <1>2, <2>1, <2>3 DEF Carries, Thrown
  <2>4. CASE Refused(b)
    BY <1>1, <1>2, <2>1, <2>4 DEF Carries, Refused
  <2> QED BY <2>2, <2>3, <2>4 DEF Decoded, Kept, Skipped, Emitted, Measured
<1>4. PICK x \in Seq(Byte) : x = Append(bytes, b) /\ Len(x) = Len(bytes) + 1
  <2>1. Append(bytes, b) \in Seq(Byte) /\ Len(Append(bytes, b)) = Len(bytes) + 1
    BY DEF IType, Buffers
  <2> QED BY <2>1, Zenon
<1>5. codec' = codec /\ Len(bytes) \in Nat /\ room \in Nat /\ Len(<< >>) = 0
  BY DEF Unsent, IType, Buffers
<1>6. Buffers'
  <2>1. CASE Kept(b)
    <3>1. bytes' = x /\ decoded' = decoded /\ inObject' = inObject
      BY <1>4, <2>1 DEF Kept
    <3>2. codec \in Codec
      BY DEF IType, Set
    <3>3. CASE codec = "line"
      <4>1. room' \in Nat /\ room' > 0 /\ Len(x) <= room'
        BY <1>4, <1>5, <2>1, <3>3 DEF Kept, IType, Buffers, Full
      <4> QED BY <1>5, <3>1, <3>3, <4>1 DEF IType, Buffers
    <3>4. CASE codec = "stomp"
      <4>1. room' = room /\ Len(x) <= room
        BY <1>4, <1>5, <2>1, <3>4 DEF Kept, IType, Buffers, Full
      <4> QED BY <1>5, <3>1, <3>4, <4>1 DEF IType, Buffers
    <3>5. CASE codec = "ascii"
      <4>1. room' = room
        BY <2>1, <3>5 DEF Kept
      <4> QED BY <1>5, <3>1, <3>5, <4>1 DEF IType, Buffers
    <3>6. CASE codec = "object"
      <4>1. room' = room /\ Len(x) <= room /\ Len(x) # room
        BY <1>4, <1>5, <2>1, <3>6 DEF Kept, IType, Buffers, Full
      <4> QED BY <1>5, <3>1, <3>6, <4>1 DEF IType, Buffers
    <3> QED BY <3>2, <3>3, <3>4, <3>5, <3>6 DEF Codec
  <2>2. CASE Skipped(b)
    BY <1>5, <2>2 DEF Skipped, IType, Buffers
  <2>3. ASSUME NEW m \in Seq(Byte), Emitted(b, m) PROVE Buffers'
    <3>1. Append(decoded, m) \in Seq(Seq(Byte))
      BY DEF IType, Buffers
    <3>2. bytes' = << >> /\ decoded' \in Seq(Seq(Byte))
      BY <2>3, <3>1 DEF Emitted
    <3>5. bytes' \in Seq(Byte) /\ Len(bytes') = 0
      BY <1>1, <1>5, <3>2, Zenon
    <3>3. CASE codec = "object"
      <4>1. inObject' = FALSE /\ room' = 4
        BY <2>3, <3>3 DEF Emitted, IType, Buffers
      <4>2. room' \in Nat /\ Len(bytes') <= room' /\ Len(bytes') < 4
        BY <3>5, <4>1
      <4>3. codec # "stomp" /\ codec # "line"
        BY <3>3
      <4> QED BY <1>5, <3>2, <3>3, <3>5, <4>1, <4>2, <4>3, Zenon DEF Buffers
    <3>4. CASE codec # "object"
      <4>1. inObject' = inObject /\ room' = room
        BY <2>3, <3>4 DEF Emitted
      <4> QED BY <1>5, <3>2, <3>4, <3>5, <4>1 DEF IType, Buffers
    <3> QED BY <3>3, <3>4
  <2>4. CASE Measured(b)
    <3>1. Len(x) = 4
      BY <1>4, <2>4 DEF Measured, IType, Buffers
    <3>2. Length(x) \in Nat
      BY <1>4, <3>1, BytesLength
    <3> QED BY <1>1, <1>4, <1>5, <2>4, <3>2 DEF Measured, IType, Buffers
  <2>5. CASE Thrown(b)
    <3>1. CASE bytes' = bytes
      BY <1>5, <2>5, <3>1 DEF Thrown, IType, Buffers
    <3>2. CASE bytes' = x /\ codec = "object" /\ inObject /\ Len(x) = room
      BY <1>4, <1>5, <2>5, <3>2 DEF Thrown, IType, Buffers
    <3> QED BY <1>4, <2>5, <3>1, <3>2 DEF Thrown
  <2>6. CASE Refused(b)
    <3>1. Append(decoded, bytes) \in Seq(Seq(Byte))
      BY DEF IType, Buffers
    <3>2. bytes' = << >> /\ decoded' \in Seq(Seq(Byte)) /\ inObject' = inObject /\ room' = room
      BY <2>6, <3>1 DEF Refused
    <3>3. bytes' \in Seq(Byte) /\ Len(bytes') = 0
      BY <1>1, <1>5, <3>2, Zenon
    <3> QED BY <1>5, <3>2, <3>3 DEF IType, Buffers
  <2> QED BY <2>1, <2>2, <2>3, <2>4, <2>5, <2>6 DEF Decoded
<1>7. Places'
  <2>1. got \in Nat /\ cut \in 0..got /\ since \in 0..Len(decoded) /\ decoded \in Seq(Seq(Byte))
        /\ (codec # "stomp" => cut = 0 /\ since = 0)
    BY DEF IType, Places, Buffers
  <2>2. CASE Refused(b)
    <3>1. decoded' \in Seq(Seq(Byte))
      BY <1>6 DEF Buffers
    <3>2. Len(decoded') \in Nat
      BY <3>1
    <3> QED BY <1>5, <2>1, <2>2, <3>2 DEF Refused, Places
  <2>3. CASE UNCHANGED <<got, cut, since>> /\ decoded' = decoded
    BY <1>5, <2>1, <2>3 DEF Places
  <2>4. ASSUME NEW m \in Seq(Byte), Emitted(b, m) PROVE Places'
    <3>1. UNCHANGED <<got, cut, since>> /\ decoded' = Append(decoded, m)
      BY <2>4 DEF Emitted, Calm
    <3>2. Len(decoded') = Len(decoded) + 1
      BY <2>1, <3>1
    <3> QED BY <1>5, <2>1, <3>1, <3>2 DEF Places
  <2> QED BY <2>2, <2>3, <2>4 DEF Decoded, Kept, Skipped, Measured, Thrown, Calm
<1> QED BY <1>3, <1>6, <1>7

LEMMA TypeStep == IType /\ [Next]_vars => IType'
<1> SUFFICES ASSUME IType, [Next]_vars PROVE IType'
  OBVIOUS
<1>1. ASSUME NEW m \in Messages[codec], Offer(m) PROVE IType'
  <2>1. PICK c : c = Calls(codec, m)
    OBVIOUS
  <2>2. c \in Seq(Seq(Byte)) /\ Len(c) \in {1, 2}
    BY <2>1, CallsOf DEF IType, Set
  <2>3. c[1] \in Seq(Byte)
    BY <2>2
  <2>4. /\ calls' = c /\ tmp' = 0 /\ offered' = Append(offered, m) /\ codec' = codec
        /\ UNCHANGED <<sent, failed>>
    BY <1>1, <2>1 DEF Offer, setup
  <2>5. offered' \in Seq(Messages[codec]) /\ Len(offered') = Len(offered) + 1
    BY <2>4 DEF IType, Sends
  <2>6. 0 <= Len(c[1]) /\ Len(c) <= 2
    <3>1. PICK y : y = c[1]
      OBVIOUS
    <3>2. Len(y) \in Nat
      BY <2>3, <3>1
    <3>3. 0 <= Len(c[1])
      BY <3>1, <3>2
    <3>4. Len(c) <= 2
      <4>1. Len(c) = 1 \/ Len(c) = 2
        BY <2>2, Zenon
      <4>2. \A n : n = 1 \/ n = 2 => n <= 2
        OBVIOUS
      <4> QED BY <4>1, <4>2, Zenon
    <3> QED BY <3>3, <3>4
  <2>7. sent \in 0..Len(offered) /\ Len(offered) \in Nat /\ failed \in BOOLEAN
    BY DEF IType, Sends
  <2>8. sent' \in 0..Len(offered') /\ sent' < Len(offered')
    BY <2>4, <2>5, <2>7
  <2>9. Sends'
    BY <2>2, <2>4, <2>5, <2>6, <2>7, <2>8 DEF Sends
  <2> QED BY <1>1, <2>4, <2>9
          DEF Offer, IType, Set, Carries, Buffers, Places, setup, net, receiver, decoder, place
<1>2. CASE WriteSome
  <2>1. calls # << >> /\ calls[1] \in Seq(Byte) /\ tmp \in Nat
    BY <1>2 DEF WriteSome, IType, Sends
  <2>2. PICK n \in 1..(Len(calls[1]) - tmp) : Take(tmp, n)
    BY <1>2 DEF WriteSome
  <2>3. n \in Nat /\ tmp + n \in Nat /\ tmp + n <= Len(calls[1])
    BY <2>1, <2>2
  <2>4. PICK x : x = SubSeq(calls[1], tmp + 1, tmp + n)
    OBVIOUS
  <2>5. x \in Seq(Byte)
    BY <2>1, <2>3, <2>4
  <2>6. /\ tmp' = tmp + n /\ written' = written \o x
        /\ wire' = (IF broken THEN wire ELSE wire \o x)
    BY <2>2, <2>4 DEF Take
  <2>7. UNCHANGED <<setup, offered, sent, failed, calls, broken, receiver>>
    BY <2>2 DEF Take
  <2>8. Sends'
    BY <2>1, <2>3, <2>6, <2>7 DEF IType, Sends, setup
  <2>9. Carries'
    BY <2>5, <2>6, <2>7 DEF IType, Carries, receiver
  <2> QED BY <2>7, <2>8, <2>9 DEF IType, Set, Buffers, Places, setup, receiver, decoder, place
<1>3. CASE WriteDone
  <2>1. PICK c : c = Tail(calls)
    OBVIOUS
  <2>2. c \in Seq(Seq(Byte)) /\ Len(c) = Len(calls) - 1 /\ Len(calls) \in {1, 2}
    <3>1. calls \in Seq(Seq(Byte)) /\ calls # << >> /\ Len(calls) <= 2
      BY <1>3 DEF WriteDone, IType, Sends
    <3>2. Len(calls) \in Nat \ {0}
      BY <3>1, EmptySeq
    <3>3. Tail(calls) \in Seq(Seq(Byte)) /\ Len(Tail(calls)) = Len(calls) - 1
      BY <3>1, HeadTailProperties
    <3> QED BY <2>1, <3>1, <3>2, <3>3
  <2>3. c # << >> => Len(calls) = 2 /\ c[1] \in Seq(Byte)
    BY <2>2, EmptySeq
  <2>4. /\ calls' = c /\ tmp' = 0 /\ sent' = (IF Len(calls) = 1 THEN sent + 1 ELSE sent)
        /\ UNCHANGED <<setup, offered, failed, net, receiver>>
    BY <1>3, <2>1 DEF WriteDone
  <2>5. sent \in 0..Len(offered) /\ sent < Len(offered) /\ Len(offered) \in Nat
    BY <1>3 DEF WriteDone, IType, Sends
  <2>6. sent' \in 0..Len(offered) /\ (c # << >> => sent' < Len(offered))
    <3>1. CASE Len(calls) = 1
      <4>1. sent' = sent + 1 /\ c = << >>
        BY <2>3, <2>4, <3>1
      <4> QED BY <2>5, <4>1
    <3>2. CASE Len(calls) # 1
      <4>1. sent' = sent
        BY <2>4, <3>2
      <4> QED BY <2>5, <4>1
    <3> QED BY <3>1, <3>2
  <2>7. Sends'
    <3>3. PICK y : y = c[1]
      OBVIOUS
    <3>4. y \in Seq(Byte) => Len(y) \in Nat
      OBVIOUS
    <3>1. c # << >> => 0 <= Len(c[1])
      BY <2>3, <3>3, <3>4
    <3>2. Len(c) <= 2
      <4>1. Len(calls) = 1 \/ Len(calls) = 2
        BY <2>2, Zenon
      <4>2. Len(c) = Len(calls) - 1
        BY <2>2, Zenon
      <4> QED BY <4>1, <4>2
    <3> QED BY <2>2, <2>4, <2>6, <3>1, <3>2 DEF IType, Sends, setup
  <2> QED BY <2>4, <2>7
          DEF IType, Set, Carries, Buffers, Places, setup, net, receiver, decoder, place
<1>4. CASE WriteFails
  <2>1. << >> \in Seq(Seq(Byte)) /\ Len(<< >>) = 0
    OBVIOUS
  <2> QED BY <1>4, <2>1
          DEF WriteFails, IType, Set, Sends, Carries, Buffers, Places, setup, net, receiver,
              decoder, place
<1>5. CASE Break
  <2>1. PICK n \in 0..Len(wire) : wire' = SubSeq(wire, 1, n)
    BY <1>5 DEF Break
  <2>2. wire' \in Seq(Byte)
    BY <2>1 DEF IType, Carries
  <2> QED BY <1>5, <2>2
          DEF Break, IType, Set, Sends, Carries, Buffers, Places, setup, sender, receiver,
              decoder, place
<1>6. CASE Read
  <2>1. PICK n \in 1..Len(wire) : chunk' = SubSeq(wire, 1, n)
                                  /\ wire' = SubSeq(wire, n + 1, Len(wire))
    BY <1>6 DEF Read
  <2>2. chunk' \in Seq(Byte) /\ wire' \in Seq(Byte)
    BY <2>1 DEF IType, Carries
  <2>3. Places'
    <3>1. got' \in Nat /\ got' >= got
      BY <1>6 DEF Read, IType, Places
    <3> QED BY <1>6, <3>1 DEF Read, IType, Places, setup, decoder
  <2> QED BY <1>6, <2>2, <2>3 DEF Read, IType, Set, Sends, Carries, Buffers, setup, sender, decoder
<1>7. CASE End
  BY <1>7 DEF End, IType, Set, Sends, Carries, Buffers, Places, setup, sender, net, decoder, place
<1>8. CASE Decode
  <2>1. Unsent /\ Carries' /\ Buffers' /\ Places'
    BY <1>8, DecodeIs, TypeOfBytes
  <2> QED BY <2>1 DEF Unsent, IType, Set, Sends
<1>9. CASE UNCHANGED vars
  BY <1>9 DEF vars, IType, Set, Sends, Carries, Buffers, Places, setup, sender, net, receiver,
            decoder, place
<1> QED BY <1>1, <1>2, <1>3, <1>4, <1>5, <1>6, <1>7, <1>8, <1>9 DEF Next, Receiver

LEMMA TypesHold == IType => TypeOK
BY DEF IType, Set, Sends, Carries, Buffers, Places, TypeOK

LEMMA TypeAlways == Init /\ [][Next]_vars => []IType
BY TypeStart, TypeStep, PTL

(* The bytes are bytes, no write call is overrun, and the decoder of a     *)
(* message never has more in its buffer than the buffer has room for.      *)
THEOREM TypeCorrect == Spec => []TypeOK
BY TypeAlways, TypesHold, PTL DEF Spec

-----------------------------------------------------------------------------
(* The sender.  What is still to be written of the message in progress.    *)
Pending ==
  IF calls = << >> THEN << >>
  ELSE SubSeq(calls[1], tmp + 1, Len(calls[1])) \o FlattenSeq(Tail(calls))

Sending ==
  /\ failed => broken
  /\ ~failed /\ calls = << >> => sent = Len(offered) /\ written = Stream(codec, offered)
  /\ ~failed /\ calls # << >> =>
       \E ms \in Seq(Messages[codec]), m \in Messages[codec], d \in Seq(Byte) :
         /\ offered = Append(ms, m) /\ sent = Len(ms)
         /\ written = Stream(codec, ms) \o d
         /\ d \o Pending = FlattenSeq(Calls(codec, m))

LEMMA OneElement ==
  ASSUME NEW S, NEW c \in Seq(S), Len(c) = 1
  PROVE  c[1] \in S /\ c = <<c[1]>> /\ Tail(c) = << >>
<1>1. c[1] \in S /\ c = <<c[1]>>
  OBVIOUS
<1>2. Tail(c) \in Seq(S) /\ Len(Tail(c)) = 0
  OBVIOUS
<1> QED BY <1>1, <1>2, EmptySeq

LEMMA TwoElements ==
  ASSUME NEW S, NEW c \in Seq(S), Len(c) = 2
  PROVE  c[1] \in S /\ c[2] \in S /\ c = <<c[1], c[2]>> /\ Tail(c) = <<c[2]>>
<1>1. c[1] \in S /\ c[2] \in S /\ c = <<c[1], c[2]>>
  OBVIOUS
<1>2. PICK d : d = Tail(c)
  OBVIOUS
<1>3. d \in Seq(S) /\ Len(d) = 1
  BY <1>2
<1>4. d[1] = c[2]
  <2>1. c # << >> /\ 1 \in 1 .. Len(c) - 1
    OBVIOUS
  <2>2. \A i \in 1 .. Len(c) - 1 : Tail(c)[i] = c[i + 1]
    BY <2>1
  <2>3. 1 + 1 = 2
    OBVIOUS
  <2> QED BY <1>2, <2>1, <2>2, <2>3, Zenon
<1>5. d = <<d[1]>>
  BY <1>3, OneElement
<1> QED BY <1>1, <1>2, <1>4, <1>5, Zenon

LEMMA FlattenFirst ==
  ASSUME NEW c \in Seq(Seq(Byte)), c # << >>, Len(c) <= 2
  PROVE  /\ FlattenSeq(c) = c[1] \o FlattenSeq(Tail(c))
         /\ c[1] \in Seq(Byte) /\ FlattenSeq(Tail(c)) \in Seq(Byte)
<1>1. Len(c) \in Nat \ {0}
  BY EmptySeq
<1>2. CASE Len(c) = 1
  <2>1. PICK x \in Seq(Byte) : x = c[1]
    <3>1. c[1] \in Seq(Byte)
      BY <1>2, OneElement
    <3> QED BY <3>1, Zenon
  <2>2. c = <<x>> /\ Tail(c) = << >>
    BY <1>2, <2>1, OneElement, Zenon
  <2>3. FlattenSeq(c) = x /\ FlattenSeq(Tail(c)) = << >>
    BY <2>1, <2>2, FlattenOne, FlattenEmpty
  <2>4. x \o << >> = x /\ << >> \in Seq(Byte)
    BY <2>1, ConcatEmptySeq
  <2> QED BY <2>1, <2>3, <2>4
<1>3. CASE Len(c) = 2
  <2>1. PICK x, y \in Seq(Byte) : x = c[1] /\ y = c[2]
    <3>1. c[1] \in Seq(Byte) /\ c[2] \in Seq(Byte)
      BY <1>3, TwoElements
    <3> QED BY <3>1, Zenon
  <2>2. c = <<x, y>> /\ Tail(c) = <<y>>
    BY <1>3, <2>1, TwoElements, Zenon
  <2>3. FlattenSeq(c) = x \o y /\ FlattenSeq(Tail(c)) = y
    BY <2>1, <2>2, FlattenTwo, FlattenOne
  <2> QED BY <2>1, <2>3
<1>4. Len(c) = 1 \/ Len(c) = 2
  <2>1. PICK n : n = Len(c)
    OBVIOUS
  <2>2. n \in Nat \ {0} /\ n <= 2
    BY <1>1, <2>1, Zenon
  <2>3. n = 1 \/ n = 2
    BY <2>2
  <2> QED BY <2>1, <2>3
<1> QED BY <1>2, <1>3, <1>4

(* The bytes taken and those still to be written are the stream.           *)
AllWritten == Pending \in Seq(Byte) /\ written \o Pending = Stream(codec, offered)

LEMMA WrittenPending == IType /\ Sending => failed \/ AllWritten
<1> SUFFICES ASSUME IType, Sending, ~failed
             PROVE  Pending \in Seq(Byte) /\ written \o Pending = Stream(codec, offered)
  BY DEF AllWritten
<1>1. CASE calls = << >>
  <2>1. Pending = << >> /\ written = Stream(codec, offered) /\ written \in Seq(Byte)
    BY <1>1 DEF Pending, Sending, IType, Carries
  <2> QED BY <2>1, ConcatEmptySeq
<1>2. CASE calls # << >>
  <2>1. PICK ms \in Seq(Messages[codec]), m \in Messages[codec], d \in Seq(Byte) :
         /\ offered = Append(ms, m) /\ written = Stream(codec, ms) \o d
         /\ d \o Pending = FlattenSeq(Calls(codec, m))
    BY <1>2 DEF Sending
  <2>2. codec \in Codec
    BY DEF IType, Set
  <2>3. Pending \in Seq(Byte)
    <3>1. calls \in Seq(Seq(Byte)) /\ Len(calls) <= 2 /\ tmp \in Nat
      BY DEF IType, Sends
    <3>2. calls[1] \in Seq(Byte) /\ FlattenSeq(Tail(calls)) \in Seq(Byte)
      BY <1>2, <3>1, FlattenFirst
    <3>3. PICK a \in Seq(Byte) : a = calls[1]
      BY <3>2, Zenon
    <3>4. SubSeq(a, tmp + 1, Len(a)) \in Seq(Byte)
      BY <3>1
    <3> QED BY <1>2, <3>2, <3>3, <3>4, ConcatProperties DEF Pending
  <2>4. PICK p \in Seq(Byte) : p = Pending
    BY <2>3, Zenon
  <2>5. PICK a \in Seq(Byte) : a = Stream(codec, ms)
    <3>1. Stream(codec, ms) \in Seq(Byte)
      BY <2>1, <2>2, StreamType
    <3> QED BY <3>1, Zenon
  <2>6. (a \o d) \o p = a \o (d \o p)
    <3>1. a \in Seq(Byte) /\ d \in Seq(Byte) /\ p \in Seq(Byte)
      BY <2>1, <2>4, <2>5
    <3> QED BY <3>1, ConcatAssociative
  <2>7. Stream(codec, offered) = a \o FlattenSeq(Calls(codec, m))
    BY <2>1, <2>2, <2>5, StreamNext
  <2> QED BY <2>1, <2>3, <2>4, <2>5, <2>6, <2>7
<1> QED BY <1>1, <1>2

LEMMA SendingStart == Init => Sending
<1> SUFFICES ASSUME Init PROVE Sending
  OBVIOUS
<1>1. /\ calls = << >> /\ offered = << >> /\ sent = 0 /\ written = << >> /\ failed = FALSE
  BY DEF Init
<1>2. Len(offered) = 0 /\ Stream(codec, offered) = << >>
  BY <1>1, StreamEmpty
<1> QED BY <1>1, <1>2 DEF Sending

LEMMA SendingStep == IType /\ Sending /\ [Next]_vars => Sending'
<1> SUFFICES ASSUME IType, Sending, [Next]_vars PROVE Sending'
  OBVIOUS
<1>0. codec \in Codec
  BY DEF IType, Set
<1>1. ASSUME NEW m \in Messages[codec], Offer(m) PROVE Sending'
  <2>1. PICK c : c = Calls(codec, m)
    OBVIOUS
  <2>2. c \in Seq(Seq(Byte)) /\ Len(c) \in {1, 2} /\ FlattenSeq(c) \in Seq(Byte)
    BY <1>0, <2>1, CallsOf
  <2>3. /\ calls = << >> /\ calls' = c /\ tmp' = 0 /\ offered' = Append(offered, m)
        /\ UNCHANGED <<codec, sent, failed, written, broken>>
    BY <1>1, <2>1 DEF Offer, setup, net
  <2>4. c # << >> /\ Len(c) <= 2
    <3>1. Len(c) = 1 \/ Len(c) = 2
      BY <2>2, Zenon
    <3>2. Len(<< >>) = 0 /\ 0 # 1 /\ 0 # 2
      OBVIOUS
    <3>3. \A n : n = 1 \/ n = 2 => n <= 2
      OBVIOUS
    <3>4. c # << >>
      BY <3>1, <3>2, Zenon
    <3> QED BY <3>1, <3>3, <3>4, Zenon
  <2>5. c[1] \in Seq(Byte) /\ FlattenSeq(c) = c[1] \o FlattenSeq(Tail(c))
    BY <2>2, <2>4, FlattenFirst
  <2>6. Pending' = FlattenSeq(c)
    <3>1. PICK a \in Seq(Byte) : a = c[1]
      BY <2>5, Zenon
    <3>2. SubSeq(a, 0 + 1, Len(a)) = a
      OBVIOUS
    <3> QED BY <2>3, <2>4, <2>5, <3>1, <3>2 DEF Pending
  <2>7. CASE ~failed
    <3>1. sent = Len(offered) /\ written = Stream(codec, offered) /\ written \in Seq(Byte)
      BY <2>3, <2>7 DEF Sending, IType, Carries
    <3>2. written = Stream(codec, offered) \o << >> /\ << >> \in Seq(Byte)
      BY <3>1, ConcatEmptySeq
    <3>3. << >> \o Pending' = FlattenSeq(Calls(codec, m))
      BY <2>1, <2>2, <2>6, ConcatEmptySeq
    <3>4. offered \in Seq(Messages[codec])
      BY DEF IType, Sends
    <3> QED BY <2>3, <2>4, <2>7, <3>1, <3>2, <3>3, <3>4, Zenon DEF Sending
  <2>8. CASE failed
    BY <2>3, <2>8 DEF Sending
  <2> QED BY <2>7, <2>8
<1>2. CASE WriteSome
  <2>1. calls # << >> /\ calls \in Seq(Seq(Byte)) /\ Len(calls) <= 2 /\ tmp \in Nat
    BY <1>2 DEF WriteSome, IType, Sends
  <2>2. calls[1] \in Seq(Byte) /\ FlattenSeq(Tail(calls)) \in Seq(Byte)
    BY <2>1, FlattenFirst
  <2>3. PICK n \in 1..(Len(calls[1]) - tmp) : Take(tmp, n)
    BY <1>2 DEF WriteSome
  <2>4. PICK a \in Seq(Byte) : a = calls[1]
    BY <2>2, Zenon
  <2>5. n \in Nat /\ tmp + n \in Nat /\ tmp + n <= Len(a)
    BY <2>1, <2>3, <2>4
  <2>6. PICK x, y, f : /\ x = SubSeq(a, tmp + 1, tmp + n)
                       /\ y = SubSeq(a, (tmp + n) + 1, Len(a))
                       /\ f = FlattenSeq(Tail(calls))
    OBVIOUS
  <2>7. x \in Seq(Byte) /\ y \in Seq(Byte) /\ f \in Seq(Byte)
    BY <2>1, <2>2, <2>4, <2>5, <2>6
  <2>8. x \o y = SubSeq(a, tmp + 1, Len(a))
    <3>1. tmp + 1 \in 1..(Len(a) + 1) /\ tmp + n \in ((tmp + 1) - 1)..Len(a)
          /\ Len(a) \in (tmp + n)..Len(a)
      BY <2>1, <2>4, <2>5
    <3> QED BY <2>4, <2>6, <3>1, ConcatAdjacentSubSeq, Zenon
  <2>9. /\ tmp' = tmp + n /\ written' = written \o x
        /\ UNCHANGED <<codec, offered, sent, failed, calls, broken>>
    BY <2>3, <2>4, <2>6 DEF Take, setup
  <2>10. Pending = (x \o y) \o f /\ Pending' = y \o f
    BY <2>1, <2>4, <2>6, <2>8, <2>9 DEF Pending
  <2>11. (x \o y) \o f = x \o (y \o f) /\ y \o f \in Seq(Byte)
    <3>1. Joins(x, y, f)
      BY <2>7, Regroup, Zenon
    <3> QED BY <3>1, Zenon DEF Joins
  <2>12. CASE ~failed
    <3>1. PICK ms \in Seq(Messages[codec]), m \in Messages[codec], d \in Seq(Byte) :
         /\ offered = Append(ms, m) /\ sent = Len(ms)
         /\ written = Stream(codec, ms) \o d
         /\ d \o Pending = FlattenSeq(Calls(codec, m))
      BY <2>1, <2>12 DEF Sending
    <3>2. PICK p \in Seq(Byte) : p = y \o f
      BY <2>11, Zenon
    <3>3. d \in Seq(Byte)
      BY <3>1
    <3>4. (d \o x) \o p = d \o (x \o p) /\ d \o x \in Seq(Byte)
      <4>1. d \in Seq(Byte) /\ x \in Seq(Byte) /\ p \in Seq(Byte)
        BY <2>7, <3>2, <3>3
      <4>2. Joins(d, x, p)
        BY <4>1, Regroup, Zenon
      <4> QED BY <4>2, Zenon DEF Joins
    <3>5. PICK s \in Seq(Byte) : s = Stream(codec, ms)
      <4>1. Stream(codec, ms) \in Seq(Byte)
        BY <1>0, <3>1, StreamType
      <4> QED BY <4>1, Zenon
    <3>6. (s \o d) \o x = s \o (d \o x)
      <4>1. s \in Seq(Byte) /\ d \in Seq(Byte) /\ x \in Seq(Byte)
        BY <2>7, <3>3, <3>5
      <4>2. Joins(s, d, x)
        BY <4>1, Regroup, Zenon
      <4> QED BY <4>2, Zenon DEF Joins
    <3>7. written' = Stream(codec, ms) \o (d \o x)
      BY <2>9, <3>1, <3>5, <3>6
    <3>8. (d \o x) \o Pending' = FlattenSeq(Calls(codec, m))
      BY <2>10, <2>11, <3>1, <3>2, <3>4
    <3> QED BY <2>1, <2>9, <2>12, <3>1, <3>4, <3>7, <3>8, Zenon DEF Sending
  <2>13. CASE failed
    BY <2>9, <2>13 DEF Sending
  <2> QED BY <2>12, <2>13
<1>3. CASE WriteDone
  <2>1. /\ calls # << >> /\ calls \in Seq(Seq(Byte)) /\ Len(calls) <= 2 /\ tmp \in Nat
        /\ tmp = Len(calls[1])
    BY <1>3 DEF WriteDone, IType, Sends
  <2>2. calls[1] \in Seq(Byte) /\ FlattenSeq(Tail(calls)) \in Seq(Byte)
    BY <2>1, FlattenFirst
  <2>3. /\ calls' = Tail(calls) /\ tmp' = 0
        /\ sent' = (IF Len(calls) = 1 THEN sent + 1 ELSE sent)
        /\ UNCHANGED <<codec, offered, failed, written, broken>>
    BY <1>3 DEF WriteDone, setup, net
  <2>4. Pending = FlattenSeq(Tail(calls))
    <3>1. PICK a \in Seq(Byte) : a = calls[1]
      BY <2>2, Zenon
    <3>2. SubSeq(a, Len(a) + 1, Len(a)) = << >>
      OBVIOUS
    <3>3. << >> \o FlattenSeq(Tail(calls)) = FlattenSeq(Tail(calls))
      BY <2>2, ConcatEmptySeq
    <3> QED BY <2>1, <3>1, <3>2, <3>3 DEF Pending
  <2>5. CASE failed
    BY <2>3, <2>5 DEF Sending
  <2>6. CASE ~failed
    <3>1. PICK ms \in Seq(Messages[codec]), m \in Messages[codec], d \in Seq(Byte) :
         /\ offered = Append(ms, m) /\ sent = Len(ms)
         /\ written = Stream(codec, ms) \o d
         /\ d \o Pending = FlattenSeq(Calls(codec, m))
      BY <2>1, <2>6 DEF Sending
    <3>2. PICK c : c = Tail(calls)
      OBVIOUS
    <3>3. c \in Seq(Seq(Byte)) /\ Len(c) = Len(calls) - 1 /\ Len(calls) \in Nat
      BY <2>1, <3>2
    <3>4. CASE Len(calls) = 1
      <4>1. c = << >>
        BY <3>3, <3>4, EmptySeq
      <4>2. FlattenSeq(c) = << >> /\ d \o << >> = d
        BY <3>1, <4>1, FlattenEmpty, ConcatEmptySeq
      <4>3. d = FlattenSeq(Calls(codec, m))
        BY <2>4, <3>1, <3>2, <4>2
      <4>4. written = Stream(codec, offered)
        BY <1>0, <3>1, <4>3, StreamNext
      <4>5. sent' = Len(offered)
        BY <2>3, <3>1, <3>4
      <4> QED BY <2>3, <2>6, <3>2, <4>1, <4>4, <4>5 DEF Sending
    <3>5. CASE Len(calls) # 1
      <4>1. c # << >> /\ Len(c) <= 2
        BY <2>1, <3>3, <3>5, EmptySeq
      <4>2. c[1] \in Seq(Byte) /\ FlattenSeq(c) = c[1] \o FlattenSeq(Tail(c))
        BY <3>3, <4>1, FlattenFirst
      <4>3. Pending' = FlattenSeq(c)
        <5>1. PICK a \in Seq(Byte) : a = c[1]
          BY <4>2, Zenon
        <5>2. SubSeq(a, 0 + 1, Len(a)) = a
          OBVIOUS
        <5> QED BY <2>3, <3>2, <4>1, <4>2, <5>1, <5>2 DEF Pending
      <4>4. d \o Pending' = FlattenSeq(Calls(codec, m)) /\ calls' # << >>
        BY <2>3, <2>4, <3>1, <3>2, <4>1, <4>3
      <4>5. sent' = sent
        BY <2>3, <3>5
      <4> QED BY <2>3, <2>6, <3>1, <4>4, <4>5, Zenon DEF Sending
    <3> QED BY <3>4, <3>5
  <2> QED BY <2>5, <2>6
<1>4. CASE WriteFails
  BY <1>4 DEF WriteFails, Sending, net
<1>5. CASE UNCHANGED <<codec, sender, written>> /\ (broken => broken')
  <2>1. Pending' = Pending
    BY <1>5 DEF Pending, sender
  <2> QED BY <1>5, <2>1 DEF Sending, sender
<1>6. Break => UNCHANGED <<codec, sender, written>> /\ broken'
  BY DEF Break, setup
<1>7. Read \/ End => UNCHANGED <<codec, sender, written>> /\ broken' = broken
  BY DEF Read, End, setup, net
<1>8. CASE Decode
  <2>1. PICK b \in Byte : Unsent /\ Decoded(b)
    BY <1>8, DecodeIs
  <2>2. broken => broken'
    BY <2>1 DEF Decoded, Kept, Skipped, Emitted, Measured, Thrown, Refused, Calm
  <2> QED BY <1>5, <2>1, <2>2 DEF Unsent, sender
<1>9. CASE UNCHANGED vars
  BY <1>5, <1>9 DEF vars, setup, net
<1> QED BY <1>1, <1>2, <1>3, <1>4, <1>5, <1>6, <1>7, <1>8, <1>9 DEF Next, Receiver

LEMMA SendingIsWhole == IType /\ Sending => SentWhole
<1> SUFFICES ASSUME IType, Sending, ~failed
             PROVE  /\ IsPrefix(Stream(codec, SubSeq(offered, 1, sent)), written)
                    /\ IsPrefix(written, Stream(codec, offered))
  BY DEF SentWhole
<1>0. codec \in Codec /\ offered \in Seq(Messages[codec]) /\ written \in Seq(Byte)
  BY DEF IType, Set, Sends, Carries
<1>1. IsPrefix(written, Stream(codec, offered))
  <2>1. PICK p \in Seq(Byte) : p = Pending
    BY WrittenPending, Zenon DEF AllWritten
  <2>2. written \o p = Stream(codec, offered)
    BY <2>1, WrittenPending, Zenon DEF AllWritten
  <2>3. IsPrefix(written, written \o p)
    BY <1>0, <2>1, PrefixOfConcat
  <2> QED BY <2>2, <2>3
<1>2. CASE calls = << >>
  <2>1. written = Stream(codec, offered) /\ sent = Len(offered)
    BY <1>2 DEF Sending
  <2>2. SubSeq(offered, 1, sent) = offered
    BY <1>0, <2>1
  <2>3. IsPrefix(written, written)
    <3>1. written \o << >> = written /\ << >> \in Seq(Byte)
      BY <1>0, ConcatEmptySeq
    <3> QED BY <1>0, <3>1, PrefixOfConcat
  <2> QED BY <1>1, <2>1, <2>2, <2>3
<1>3. CASE calls # << >>
  <2>1. PICK ms \in Seq(Messages[codec]), m \in Messages[codec], d \in Seq(Byte) :
         /\ offered = Append(ms, m) /\ sent = Len(ms)
         /\ written = Stream(codec, ms) \o d
    BY <1>3 DEF Sending
  <2>2. SubSeq(offered, 1, sent) = ms
    BY <2>1
  <2>3. Stream(codec, ms) \in Seq(Byte)
    BY <1>0, <2>1, StreamType
  <2>4. IsPrefix(Stream(codec, ms), Stream(codec, ms) \o d)
    BY <2>1, <2>3, PrefixOfConcat
  <2> QED BY <1>1, <2>1, <2>2, <2>4
<1> QED BY <1>2, <1>3

(* What sendFrameAscii reports as sent has been taken whole, once and in   *)
(* order.                                                                  *)
THEOREM SentWholeAlways == Spec => []SentWhole
BY TypeStart, TypeStep, SendingStart, SendingStep, SendingIsWhole, PTL DEF Spec

-----------------------------------------------------------------------------
(* The receiver.  A length that has been read stays in front of the bytes. *)
Header == IF codec = "object" /\ inObject THEN FourBytes(room) ELSE << >>

(* Of the bytes w that have been written t is decoded, u under way and r   *)
(* lost; after t and u the stream s goes on with q.                        *)
Ahead(w, s, t, u, r, q) ==
  /\ t \in Seq(Byte) /\ u \in Seq(Byte) /\ r \in Seq(Byte) /\ q \in Seq(Byte)
  /\ w = t \o (u \o r) /\ (t \o u) \o q = s

Way == chunk \o wire

(* The bytes t were handed to the decoder, but for those that process cost *)
(* by throwing; those since it last threw are s.                           *)
Recent == After(decoded, since)
Divided(s) == Seen(codec, s) = AllTaken(codec, Recent) \o (Header \o bytes)
Handed == got - Len(chunk)
Parsed(t) ==
  /\ threw \/ Len(t) = Handed
  /\ \E p, s \in Seq(Byte) : t = p \o s /\ Len(p) = cut /\ Divided(s)
Flow ==
  \E t : /\ t \in Seq(Byte) /\ Parsed(t) /\ \E v \in Seq(Byte) : written = t \o v
         /\ ~threw => \E r, q : /\ Ahead(written, Stream(codec, offered), t, Way, r, q)
                                /\ ~broken => r = << >>

(* What comes after the first n of a sequence.                             *)
LEMMA AfterType ==
  ASSUME NEW S, NEW s \in Seq(S), NEW n \in 0..Len(s)
  PROVE  After(s, n) \in Seq(S) /\ After(s, 0) = s /\ After(s, Len(s)) = << >>
<1>1. After(s, n) \in Seq(S)
  BY DEF After
<1>2. PICK w, v : w = After(s, 0) /\ v = After(s, Len(s))
  OBVIOUS
<1>3. w \in Seq(S) /\ Len(w) = Len(s) /\ \A i \in 1..Len(s) : w[i] = s[i]
  BY <1>2 DEF After
<1>4. w = s
  BY <1>3, SeqEqual
<1>5. v \in Seq(S) /\ Len(v) = 0
  BY <1>2 DEF After
<1>6. v = << >>
  BY <1>5, EmptySeq
<1> QED BY <1>1, <1>2, <1>4, <1>6

LEMMA AfterAppend ==
  ASSUME NEW S, NEW s \in Seq(S), NEW n \in 0..Len(s), NEW m \in S
  PROVE  After(Append(s, m), n) = Append(After(s, n), m)
<1>1. PICK t, u, v : t = Append(s, m) /\ u = After(t, n) /\ v = Append(After(s, n), m)
  OBVIOUS
<1>2. t \in Seq(S) /\ Len(t) = Len(s) + 1 /\ \A i \in 1..Len(s) : t[i] = s[i]
  BY <1>1
<1>3. t[Len(s) + 1] = m
  BY <1>1
<1>4. u \in Seq(S) /\ Len(u) = Len(s) + 1 - n /\ \A i \in 1..Len(u) : u[i] = t[n + i]
  <2>1. n \in 0..Len(t) /\ Len(t) \in Nat
    BY <1>2
  <2>2. u = SubSeq(t, n + 1, Len(t))
    BY <1>1 DEF After
  <2>3. u \in Seq(S) /\ Len(u) = Len(t) - n /\ \A i \in 1..Len(u) : u[i] = t[n + i]
    BY <1>2, <2>1, <2>2
  <2> QED BY <1>2, <2>3
<1>5. PICK w : w = After(s, n)
  OBVIOUS
<1>6. w \in Seq(S) /\ Len(w) = Len(s) - n /\ \A i \in 1..Len(w) : w[i] = s[n + i]
  BY <1>5 DEF After
<1>7. /\ v \in Seq(S) /\ Len(v) = Len(w) + 1 /\ v[Len(w) + 1] = m
      /\ \A i \in 1..Len(w) : v[i] = w[i]
  BY <1>1, <1>5, <1>6
<1>10. Len(s) \in Nat /\ n \in 0..Len(s) /\ Len(w) \in Nat /\ Len(u) = Len(w) + 1
  BY <1>4, <1>6
<1>8. \A i \in 1..Len(u) : u[i] = v[i]
  <2> TAKE i \in 1..Len(u)
  <2>1. CASE i \in 1..Len(w)
    <3>1. n + i \in 1..Len(s)
      BY <1>6, <1>10, <2>1
    <3>2. u[i] = t[n + i] /\ t[n + i] = s[n + i] /\ w[i] = s[n + i] /\ v[i] = w[i]
      BY <1>2, <1>4, <1>6, <1>7, <2>1, <3>1
    <3> QED BY <3>2
  <2>2. CASE i = Len(w) + 1
    <3>1. n + i = Len(s) + 1
      BY <1>6, <1>10, <2>2
    <3>2. u[i] = t[n + i] /\ v[i] = m
      BY <1>4, <1>7, <2>2
    <3> QED BY <1>3, <3>1, <3>2
  <2> QED BY <1>10, <2>1, <2>2
<1>9. u = v
  <2>1. Len(u) = Len(v)
    BY <1>7, <1>10
  <2> QED BY <1>4, <1>7, <1>8, <2>1, SeqEqual
<1> QED BY <1>1, <1>9

LEMMA AfterConcat ==
  ASSUME NEW S, NEW s \in Seq(S), NEW v \in Seq(S)
  PROVE  After(s \o v, Len(s)) = v
<1>1. PICK u, w : u = s \o v /\ w = After(u, Len(s))
  OBVIOUS
<1>2. u \in Seq(S) /\ Len(u) = Len(s) + Len(v) /\ \A i \in 1..Len(v) : u[Len(s) + i] = v[i]
  BY <1>1
<1>3. w \in Seq(S) /\ Len(w) = Len(v) /\ \A i \in 1..Len(v) : w[i] = u[Len(s) + i]
  BY <1>1, <1>2 DEF After
<1>4. w = v
  BY <1>2, <1>3, SeqEqual
<1> QED BY <1>1, <1>4

LEMMA RecentType ==
  ASSUME IType
  PROVE  Recent \in Seq(Seq(Byte)) /\ (codec # "stomp" => Recent = decoded)
<1>1. decoded \in Seq(Seq(Byte)) /\ since \in 0..Len(decoded) /\ (codec # "stomp" => since = 0)
  BY DEF IType, Buffers, Places
<1> QED BY <1>1, AfterType DEF Recent

LEMMA RecentNext ==
  ASSUME IType, since' = since
  PROVE  /\ decoded' = decoded => Recent' = Recent
         /\ \A m \in Seq(Byte) : decoded' = Append(decoded, m) => Recent' = Append(Recent, m)
<1>1. decoded \in Seq(Seq(Byte)) /\ since \in 0..Len(decoded)
  BY DEF IType, Buffers, Places
<1> QED BY <1>1, AfterAppend DEF Recent

(* There is no delimiter in the buffer, and a message is whole.            *)
Plain(k, s) ==
  \A i \in 1..Len(s) : /\ k = "stomp" => s[i] # Caret
                       /\ k \in {"line", "ascii"} => s[i] # Newline
Shape == Plain(codec, bytes) /\ \A i \in 1..Len(decoded) : Whole(codec, decoded[i])

(* A decoder that has thrown is full; one that has not has room for a byte *)
(* of the object it knows the length of.                                   *)
Inert ==
  /\ threw => Full /\ (codec = "stomp" \/ inObject)
  /\ ~threw /\ inObject => room \in 1..MaxInt /\ Len(bytes) < room

Ordered == codec \in {"line", "object"} => IsPrefix(decoded, offered)

Reading == Flow /\ Shape /\ Inert /\ Ordered /\ ThrowsOnlyOn

(* What a receiver takes for these is what was written for them.           *)
Framed == {"line", "object"}

LEMMA TakenIsStream ==
  ASSUME NEW k \in Framed, NEW ms \in Seq(Messages[k])
  PROVE  AllTaken(k, ms) = Stream(k, ms)
<1>1. k \in Codec
  BY DEF Codec, Framed
<1>2. ASSUME NEW i \in 1..Len(ms) PROVE Taken(k, ms[i]) = FlattenSeq(Calls(k, ms[i]))
  <2>1. ms[i] \in Messages[k]
    OBVIOUS
  <2> QED BY <1>1, <2>1, CallsOf DEF Framed
<1>3. [i \in 1..Len(ms) |-> Taken(k, ms[i])] = [i \in 1..Len(ms) |-> FlattenSeq(Calls(k, ms[i]))]
  BY <1>2
<1> QED BY <1>3, Zenon DEF AllTaken, Stream

Prolongs(S, os, ms) == ms \in Seq(S) /\ \E vs \in Seq(S) : os = ms \o vs

LEMMA RestOfMessages ==
  ASSUME NEW S, NEW os \in Seq(S), NEW ms \in Seq(Seq(Byte)), S \subseteq Seq(Byte),
         IsPrefix(ms, os)
  PROVE  Prolongs(S, os, ms)
<1>1. os \in Seq(Seq(Byte))
  OBVIOUS
<1>2. PICK vs \in Seq(Seq(Byte)) : os = ms \o vs
  BY <1>1, ConcatOfPrefix
<1>3. \A i \in 1..Len(ms) : ms[i] \in S
  <2> TAKE i \in 1..Len(ms)
  <2>1. i \in 1..Len(os) /\ os[i] = ms[i]
    BY <1>2
  <2> QED BY <2>1
<1>4. \A i \in 1..Len(vs) : vs[i] \in S
  <2> TAKE i \in 1..Len(vs)
  <2>1. i + Len(ms) \in 1..Len(os) /\ os[i + Len(ms)] = vs[i]
    BY <1>2
  <2> QED BY <2>1
<1> QED BY <1>2, <1>3, <1>4 DEF Prolongs

NextOf(S, os, ms) == \E m \in S, xs \in Seq(S) : os = Append(ms, m) \o xs

LEMMA OneElementMore ==
  ASSUME NEW S, NEW os, NEW ms, NEW vs, ms \in Seq(S) /\ vs \in Seq(S),
         vs # << >>, os = ms \o vs
  PROVE  NextOf(S, os, ms)
<1>1. Head(vs) \in S /\ Tail(vs) \in Seq(S) /\ vs = <<Head(vs)>> \o Tail(vs)
  OBVIOUS
<1>2. PICK m, xs : m \in S /\ xs \in Seq(S) /\ vs = <<m>> \o xs
  BY <1>1, Zenon
<1>3. <<m>> \in Seq(S)
  BY <1>2
<1>4. PICK e : e = <<m>> /\ e \in Seq(S)
  BY <1>3, Zenon
<1>5. (ms \o e) \o xs = ms \o (e \o xs)
  BY <1>2, <1>4, ConcatAssociative
<1>6. Append(ms, m) = ms \o e
  BY <1>2, <1>4, AppendIsConcat
<1> QED BY <1>2, <1>4, <1>5, <1>6, Zenon DEF NextOf

(* Where the stream goes on after some messages, it does with the next.    *)
GoesOn(k, os, ms, y, q) ==
  \E m \in Messages[k], xs \in Seq(Messages[k]), z \in Seq(Byte) :
    os = Append(ms, m) \o xs /\ y \o q = Taken(k, m) \o z

LEMMA NextMessage ==
  ASSUME NEW k, NEW os, NEW ms, NEW y, NEW q,
         k \in Framed /\ os \in Seq(Messages[k]) /\ ms \in Seq(Seq(Byte)),
         y \in Seq(Byte) /\ q \in Seq(Byte) /\ y # << >>,
         IsPrefix(ms, os), (AllTaken(k, ms) \o y) \o q = Stream(k, os)
  PROVE  GoesOn(k, os, ms, y, q)
<1>1. k \in Codec
  BY DEF Codec, Framed
<1>2. Messages[k] \subseteq Seq(Byte)
  BY <1>1, FramingAssumption
<1>3. ms \in Seq(Messages[k]) /\ \E vs \in Seq(Messages[k]) : os = ms \o vs
  <2>1. PICK S : S = Messages[k]
    OBVIOUS
  <2>2. os \in Seq(S) /\ S \subseteq Seq(Byte)
    BY <1>2, <2>1, Zenon
  <2>3. Prolongs(S, os, ms)
    BY <2>2, RestOfMessages, Zenon
  <2> QED BY <2>1, <2>3, Zenon DEF Prolongs
<1>4. PICK vs : vs \in Seq(Messages[k]) /\ os = ms \o vs
  BY <1>3, Zenon
<1>5. PICK a : a \in Seq(Byte) /\ a = Stream(k, ms) /\ a = AllTaken(k, ms)
  BY <1>1, <1>3, StreamType, TakenIsStream, Zenon
<1>6. a \o (y \o q) = Stream(k, os) /\ y \o q \in Seq(Byte)
  <2>1. Joins(a, y, q)
    BY <1>5, Regroup, Zenon
  <2> QED BY <1>5, <2>1, Zenon DEF Joins
<1>7. vs # << >>
  <2>1. SUFFICES ASSUME vs = << >> PROVE FALSE
    OBVIOUS
  <2>2. os = ms
    BY <1>3, <1>4, <2>1, ConcatEmptySeq
  <2>3. a \o (y \o q) = a
    BY <1>5, <1>6, <2>2, Zenon
  <2>4. PICK n, i, j : n = Len(a) /\ i = Len(y) /\ j = Len(q)
    OBVIOUS
  <2>5. /\ n \in Nat /\ i \in Nat /\ j \in Nat /\ i # 0
        /\ Len(y \o q) = i + j /\ Len(a \o (y \o q)) = n + (i + j)
    BY <1>5, <1>6, <2>4, EmptySeq, ConcatProperties
  <2>6. n + (i + j) = n
    BY <2>3, <2>4, <2>5, Zenon
  <2> QED BY <2>5, <2>6
<1>8. PICK m, xs : m \in Messages[k] /\ xs \in Seq(Messages[k]) /\ os = Append(ms, m) \o xs
  <2>1. PICK S : S = Messages[k]
    OBVIOUS
  <2>2. ms \in Seq(S) /\ vs \in Seq(S)
    BY <1>3, <1>4, <2>1, Zenon
  <2>3. NextOf(S, os, ms)
    BY <1>4, <1>7, <2>2, OneElementMore, Zenon
  <2> QED BY <2>1, <2>3, Zenon DEF NextOf
<1>9. PICK z : z \in Seq(Byte) /\ Stream(k, os) = Stream(k, Append(ms, m)) \o z
  <2>1. Append(ms, m) \in Seq(Messages[k])
    BY <1>3, <1>8, AppendProperties, Zenon
  <2>2. PICK e : e = Append(ms, m) /\ e \in Seq(Messages[k])
    BY <2>1, Zenon
  <2>3. StreamBegins(k, e, xs)
    BY <1>1, <1>8, <2>2, StreamFirst, Zenon
  <2> QED BY <1>8, <2>2, <2>3, Zenon DEF StreamBegins
<1>10. PICK f : f \in Seq(Byte) /\ f = Taken(k, m) /\ Stream(k, Append(ms, m)) = a \o f
  <2>1. FlattenSeq(Calls(k, m)) \in Seq(Byte) /\ FlattenSeq(Calls(k, m)) = Taken(k, m)
    <3>1. k \in {"line", "object"}
      BY DEF Framed
    <3> QED BY <1>1, <1>8, <3>1, CallsOf
  <2>2. Stream(k, Append(ms, m)) = Stream(k, ms) \o FlattenSeq(Calls(k, m))
    BY <1>1, <1>3, <1>8, StreamNext, Zenon
  <2> QED BY <1>5, <2>1, <2>2, Zenon
<1>11. y \o q = f \o z
  <2>1. PICK g : g = y \o q /\ g \in Seq(Byte)
    BY <1>6, Zenon
  <2>2. a \o g = (a \o f) \o z
    BY <1>6, <1>9, <1>10, <2>1, Zenon
  <2>3. Cancels(a, f, z, g)
    BY <1>5, <1>9, <1>10, <2>1, SameRest, Zenon
  <2> QED BY <2>1, <2>2, <2>3, Zenon DEF Cancels
<1> QED BY <1>8, <1>9, <1>10, <1>11, Zenon DEF GoesOn

(* Lines end where their line end is.                                      *)
LEMMA LineCut ==
  ASSUME NEW s \in Seq(Byte), NEW m \in Seq(Byte), NEW x \in Seq(Byte), NEW z \in Seq(Byte),
         (s \o <<Newline>>) \o x = Append(m, Newline) \o z,
         \A i \in 1..Len(s) : s[i] # Newline, \A i \in 1..Len(m) : m[i] # Newline
  PROVE  s = m
<1>0. Newline \in Byte
  BY DEF Byte, Newline
<1>1. PICK u \in Seq(Byte) : u = s \o <<Newline>>
  <2>1. s \o <<Newline>> \in Seq(Byte)
    BY <1>0
  <2> QED BY <2>1, Zenon
<1>2. PICK w \in Seq(Byte) : w = Append(m, Newline)
  <2>1. Append(m, Newline) \in Seq(Byte)
    BY <1>0
  <2> QED BY <2>1, Zenon
<1>3. /\ Len(u) = Len(s) + 1 /\ u[Len(s) + 1] = Newline
      /\ \A i \in 1..Len(s) : u[i] = s[i]
  BY <1>0, <1>1
<1>4. /\ Len(w) = Len(m) + 1 /\ w[Len(m) + 1] = Newline
      /\ \A i \in 1..Len(m) : w[i] = m[i]
  BY <1>0, <1>2
<1>5. u \o x = w \o z
  BY <1>1, <1>2
<1>6. \A i \in 1..Len(u) : (u \o x)[i] = u[i]
  BY <1>1
<1>7. \A i \in 1..Len(w) : (w \o z)[i] = w[i]
  BY <1>2
<1>8. \A i \in 1..Len(u) : i \in 1..Len(w) => u[i] = w[i]
  BY <1>5, <1>6, <1>7
<1>9. Len(s) \in Nat /\ Len(m) \in Nat
  OBVIOUS
<1>10. ~(Len(s) < Len(m))
  <2>1. SUFFICES ASSUME Len(s) < Len(m) PROVE FALSE
    OBVIOUS
  <2>2. Len(s) + 1 \in 1..Len(u) /\ Len(s) + 1 \in 1..Len(w) /\ Len(s) + 1 \in 1..Len(m)
    BY <1>3, <1>4, <1>9, <2>1
  <2>3. u[Len(s) + 1] = w[Len(s) + 1] /\ w[Len(s) + 1] = m[Len(s) + 1]
    BY <1>4, <1>8, <2>2
  <2> QED BY <1>3, <2>2, <2>3
<1>11. ~(Len(m) < Len(s))
  <2>1. SUFFICES ASSUME Len(m) < Len(s) PROVE FALSE
    OBVIOUS
  <2>2. Len(m) + 1 \in 1..Len(u) /\ Len(m) + 1 \in 1..Len(w) /\ Len(m) + 1 \in 1..Len(s)
    BY <1>3, <1>4, <1>9, <2>1
  <2>3. u[Len(m) + 1] = w[Len(m) + 1] /\ u[Len(m) + 1] = s[Len(m) + 1]
    BY <1>3, <1>8, <2>2
  <2> QED BY <1>4, <2>2, <2>3
<1>12. Len(s) = Len(m)
  BY <1>9, <1>10, <1>11
<1>13. \A i \in 1..Len(s) : s[i] = m[i]
  <2> TAKE i \in 1..Len(s)
  <2>1. i \in 1..Len(u) /\ i \in 1..Len(w) /\ i \in 1..Len(m)
    BY <1>3, <1>4, <1>9, <1>12
  <2> QED BY <1>3, <1>4, <1>8, <2>1
<1> QED BY <1>12, <1>13, SeqEqual

(* What is ahead after one step of a writer, a reader or the net.          *)
LEMMA AheadByte ==
  ASSUME NEW w, NEW s, NEW t, NEW u, NEW r, NEW q, NEW b,
         b \in Seq(Byte) /\ u \in Seq(Byte), Ahead(w, s, t, b \o u, r, q)
  PROVE  Ahead(w, s, t \o b, u, r, q)
<1>1. /\ t \in Seq(Byte) /\ r \in Seq(Byte) /\ q \in Seq(Byte)
      /\ w = t \o ((b \o u) \o r) /\ (t \o (b \o u)) \o q = s
  BY DEF Ahead
<1>2. Joins(b, u, r) /\ Joins(t, b, u)
  BY <1>1, Regroup, Zenon
<1>3. u \o r \in Seq(Byte)
  BY <1>2 DEF Joins
<1>4. Joins(t, b, u \o r)
  BY <1>1, <1>3, Regroup, Zenon
<1>5. w = (t \o b) \o (u \o r)
  BY <1>1, <1>2, <1>4, Zenon DEF Joins
<1>6. ((t \o b) \o u) \o q = s /\ t \o b \in Seq(Byte)
  BY <1>1, <1>2, Zenon DEF Joins
<1> QED BY <1>1, <1>5, <1>6, Zenon DEF Ahead

LEMMA AheadOffer ==
  ASSUME NEW w, NEW s, NEW t, NEW u, NEW r, NEW q, NEW f,
         f \in Seq(Byte), Ahead(w, s, t, u, r, q)
  PROVE  Ahead(w, s \o f, t, u, r, q \o f)
<1>1. /\ t \in Seq(Byte) /\ u \in Seq(Byte) /\ r \in Seq(Byte) /\ q \in Seq(Byte)
      /\ w = t \o (u \o r) /\ (t \o u) \o q = s
  BY DEF Ahead
<1>2. Joins(t, u, q)
  BY <1>1, Regroup, Zenon
<1>3. t \o u \in Seq(Byte)
  BY <1>2 DEF Joins
<1>4. Joins(t \o u, q, f)
  BY <1>1, <1>3, Regroup, Zenon
<1>5. (t \o u) \o (q \o f) = s \o f /\ q \o f \in Seq(Byte)
  BY <1>1, <1>4, Zenon DEF Joins
<1> QED BY <1>1, <1>5, Zenon DEF Ahead

LEMMA AheadWritten ==
  ASSUME NEW w, NEW s, NEW t, NEW u, NEW r, NEW q, NEW x,
         x \in Seq(Byte), Ahead(w, s, t, u, r, q)
  PROVE  Ahead(w \o x, s, t, u, r \o x, q)
<1>1. /\ t \in Seq(Byte) /\ u \in Seq(Byte) /\ r \in Seq(Byte) /\ q \in Seq(Byte)
      /\ w = t \o (u \o r) /\ (t \o u) \o q = s
  BY DEF Ahead
<1>2. Joins(u, r, x)
  BY <1>1, Regroup, Zenon
<1>3. u \o r \in Seq(Byte)
  BY <1>2 DEF Joins
<1>4. Joins(t, u \o r, x)
  BY <1>1, <1>3, Regroup, Zenon
<1>5. w \o x = t \o (u \o (r \o x)) /\ r \o x \in Seq(Byte)
  BY <1>1, <1>2, <1>4, Zenon DEF Joins
<1> QED BY <1>1, <1>5, Zenon DEF Ahead

LEMMA AheadLost ==
  ASSUME NEW w, NEW s, NEW t, NEW u, NEW r, NEW q, NEW x,
         u \in Seq(Byte) /\ x \in Seq(Byte), Ahead(w, s, t, u \o x, r, q)
  PROVE  Ahead(w, s, t, u, x \o r, x \o q)
<1>1. /\ t \in Seq(Byte) /\ r \in Seq(Byte) /\ q \in Seq(Byte)
      /\ w = t \o ((u \o x) \o r) /\ (t \o (u \o x)) \o q = s
  BY DEF Ahead
<1>2. Joins(u, x, r) /\ Joins(t, u, x)
  BY <1>1, Regroup, Zenon
<1>3. t \o u \in Seq(Byte)
  BY <1>2 DEF Joins
<1>4. Joins(t \o u, x, q)
  BY <1>1, <1>3, Regroup, Zenon
<1>5. w = t \o (u \o (x \o r)) /\ x \o r \in Seq(Byte)
  BY <1>1, <1>2, Zenon DEF Joins
<1>6. (t \o u) \o (x \o q) = s /\ x \o q \in Seq(Byte)
  BY <1>1, <1>2, <1>4, Zenon DEF Joins
<1> QED BY <1>1, <1>5, <1>6, Zenon DEF Ahead

LEMMA AheadTaken ==
  ASSUME NEW w, NEW s, NEW t, NEW u, NEW q, NEW x, NEW p, NEW e,
         x \in Seq(Byte) /\ p \in Seq(Byte), Ahead(w, s, t, u, << >>, q),
         (w \o x) \o p = e
  PROVE  Ahead(w \o x, e, t, u \o x, << >>, p)
<1>1. /\ t \in Seq(Byte) /\ u \in Seq(Byte) /\ q \in Seq(Byte) /\ << >> \in Seq(Byte)
      /\ w = t \o (u \o << >>)
  BY DEF Ahead
<1>2. Joins(t, u, x)
  BY <1>1, Regroup, Zenon
<1>3. u \o x \in Seq(Byte)
  BY <1>2 DEF Joins
<1>4. u \o << >> = u /\ (u \o x) \o << >> = u \o x
  BY <1>1, <1>3, ConcatEmptySeq, Zenon
<1>5. w \o x = t \o ((u \o x) \o << >>)
  BY <1>1, <1>2, <1>4, Zenon DEF Joins
<1>6. (t \o (u \o x)) \o p = e
  BY <1>4, <1>5, Zenon
<1> QED BY <1>1, <1>3, <1>5, <1>6, Zenon DEF Ahead

(* A decoder that has thrown throws again, and changes nothing.            *)
Again(b) == Thrown(b) /\ UNCHANGED bytes

LEMMA ThrownAgain ==
  ASSUME IType, Inert, threw, NEW b \in Byte, Decoded(b)
  PROVE  Again(b)
<1>1. Full /\ (codec = "stomp" \/ inObject) /\ (inObject => codec = "object")
  BY DEF Inert, IType, Buffers
<1>2. Len(bytes) + 1 # room
  BY <1>1 DEF Full, IType, Buffers
<1>3. ~Kept(b)
  BY <1>1 DEF Kept
<1>4. ~Skipped(b)
  BY <1>1 DEF Skipped
<1>5. \A m \in Seq(Byte) : ~Emitted(b, m)
  BY <1>1, <1>2 DEF Emitted
<1>6. ~Measured(b)
  BY <1>2 DEF Measured
<1>8. ~Refused(b)
  BY <1>1 DEF Refused
<1>7. Thrown(b)
  BY <1>3, <1>4, <1>5, <1>6, <1>8 DEF Decoded
<1> QED BY <1>2, <1>7 DEF Thrown, Again

(* The byte b is decoded from what is ahead of t.                          *)
AtByte(t, b) ==
  /\ t \in Seq(Byte) /\ Parsed(t) /\ b = Head(chunk) /\ <<b>> \in Seq(Byte)
  /\ Tail(chunk) \o wire \in Seq(Byte)
  /\ \E r, q : /\ Ahead(written, Stream(codec, offered), t \o <<b>>, Tail(chunk) \o wire, r, q)
               /\ ~broken => r = << >>

LEMMA ByteAhead ==
  ASSUME IType, Flow, ~threw, chunk # << >>, NEW b \in Byte, b = Head(chunk)
  PROVE  \E t : AtByte(t, b)
<1>1. PICK t, r, q : /\ t \in Seq(Byte) /\ Parsed(t)
                     /\ Ahead(written, Stream(codec, offered), t, Way, r, q)
                     /\ ~broken => r = << >>
  BY Zenon DEF Flow
<1>2. chunk \in Seq(Byte) /\ wire \in Seq(Byte)
  BY DEF IType, Carries
<1>3. /\ <<b>> \in Seq(Byte) /\ Tail(chunk) \in Seq(Byte)
      /\ chunk = <<b>> \o Tail(chunk)
  BY <1>2
<1>4. PICK x, y : x = <<b>> /\ y = Tail(chunk)
  OBVIOUS
<1>5. Joins(x, y, wire)
  BY <1>2, <1>3, <1>4, Regroup, Zenon
<1>6. Way = x \o (y \o wire) /\ y \o wire \in Seq(Byte)
  BY <1>3, <1>4, <1>5, Zenon DEF Joins, Way
<1>7. Ahead(written, Stream(codec, offered), t \o x, y \o wire, r, q)
  BY <1>1, <1>3, <1>4, <1>6, AheadByte, Zenon
<1> QED BY <1>1, <1>3, <1>4, <1>6, <1>7, Zenon DEF AtByte

(* What is parsed grows by the byte: what is taken for the messages and    *)
(* what the decoder keeps is then A, H and B.                              *)
LEMMA DividedByte ==
  ASSUME IType, NEW t \in Seq(Byte), Divided(t), NEW b \in Byte, Decoded(b), Unsent, ~Again(b),
         Inert, ~threw, ~Refused(b)
  PROVE  Divided(t \o <<b>>)'
<1>0. PICK d : d = Recent
  OBVIOUS
<1>1. PICK k, a, h, c, x : /\ k = codec /\ a = AllTaken(codec, d) /\ h = Header
                           /\ c = bytes /\ x = <<b>>
  OBVIOUS
<1>2. k \in Codec /\ codec' = k /\ d \in Seq(Seq(Byte)) /\ bytes \in Seq(Byte)
  BY <1>0, <1>1, RecentType DEF IType, Set, Buffers, Unsent
<1>3. a \in Seq(Byte) /\ h \in Seq(Byte) /\ c \in Seq(Byte) /\ x \in Seq(Byte)
  <2>1. a \in Seq(Byte)
    <3>1. << >> \in Seq(Byte)
      OBVIOUS
    <3> QED BY <1>1, <1>2, <3>1, AllTakenNext, Zenon
  <2>2. h \in Seq(Byte)
    <3>1. room \in Nat
      BY DEF IType, Buffers
    <3>2. FourBytes(room) \in Seq(Byte) /\ << >> \in Seq(Byte)
      BY <3>1, FourBytesType
    <3> QED BY <1>1, <3>2, Zenon DEF Header
  <2>3. <<b>> \in Seq(Byte)
    OBVIOUS
  <2> QED BY <1>1, <1>2, <2>1, <2>2, <2>3, Zenon
<1>4. h \o c \in Seq(Byte) /\ c \o x \in Seq(Byte) /\ Joins(h, c, x)
  <2>1. Joins(h, c, x)
    BY <1>3, Regroup, Zenon
  <2> QED BY <2>1, Zenon DEF Joins
<1>5. Joins(a, h \o c, x)
  BY <1>3, <1>4, Regroup, Zenon
<1>6. (a \o (h \o c)) \o x = a \o (h \o (c \o x))
  BY <1>4, <1>5, Zenon DEF Joins
<1>7. Seen(k, t) = a \o (h \o c)
  BY <1>0, <1>1, Zenon DEF Divided
<1>8. Append(bytes, b) = c \o x
  BY <1>1, <1>2, AppendIsConcat
<1>9. (k # "ascii" \/ b # Nul) => Seen(k, t \o x) = a \o (h \o (c \o x))
  <2>1. (k # "ascii" \/ b # Nul) => Seen(k, t \o <<b>>) = Seen(k, t) \o <<b>>
    BY SeenNext
  <2> QED BY <1>1, <1>6, <1>7, <2>1, Zenon
<1>15. since' = since /\ decoded' = decoded => Recent' = d
  BY <1>0, RecentNext, Zenon
<1>10. CASE Kept(b)
  <2>1. bytes' = c \o x /\ Recent' = d
    BY <1>8, <1>10, <1>15, Zenon DEF Kept, Calm
  <2>2. Header' = h
    BY <1>1, <1>2, <1>10 DEF Kept, Header
  <2>3. k # "ascii" \/ b # Nul
    BY <1>1, <1>10 DEF Kept
  <2> QED BY <1>1, <1>2, <1>9, <2>1, <2>2, <2>3, Zenon DEF Divided
<1>11. CASE Skipped(b)
  <2>1. bytes' = c /\ Recent' = d /\ k = "ascii" /\ b = Nul
    BY <1>1, <1>11, <1>15, Zenon DEF Skipped, Calm
  <2>2. Header' = h
    BY <1>1, <1>2, <1>11 DEF Skipped, Header
  <2>3. Seen(k, t \o x) = Seen(k, t)
    <3>1. Seen(k, t \o <<b>>) = Seen(k, t)
      BY <2>1, SeenNext
    <3> QED BY <1>1, <3>1, Zenon
  <2> QED BY <1>1, <1>2, <1>7, <2>1, <2>2, <2>3, Zenon DEF Divided
<1>12. ASSUME NEW m \in Seq(Byte), Emitted(b, m) PROVE Divided(t \o <<b>>)'
  <2>1. bytes' = << >> /\ Recent' = Append(d, m)
    <3>1. bytes' = << >> /\ decoded' = Append(decoded, m) /\ since' = since
      BY <1>12, Zenon DEF Emitted, Calm
    <3> QED BY <1>0, <3>1, RecentNext
  <2>2. Header' = << >>
    BY <1>1, <1>2, <1>12 DEF Emitted, Header, IType, Buffers
  <2>3. k # "ascii" \/ b # Nul
    BY <1>1, <1>12 DEF Emitted, Nul, Newline
  <2>4. Taken(k, m) = h \o (c \o x)
    <3>1. CASE k = "object"
      <4>1. m = c \o x /\ inObject /\ Len(bytes) + 1 = room
        BY <1>1, <1>8, <1>12, <3>1, Zenon DEF Emitted
      <4>2. Len(m) = room
        BY <1>2, <1>8, <4>1
      <4>3. h = FourBytes(room)
        BY <1>1, <3>1, <4>1, Zenon DEF Header
      <4>4. Taken(k, m) = FourBytes(Len(m)) \o m
        BY <3>1 DEF Taken
      <4> QED BY <4>1, <4>2, <4>3, <4>4, Zenon
    <3>2. h = << >> \/ k = "object"
      BY <1>1, Zenon DEF Header
    <3>3. << >> \o (c \o x) = c \o x
      BY <1>4, ConcatEmptySeq
    <3>4. CASE k = "stomp"
      <4>1. Taken(k, m) = Append(bytes, b)
        BY <1>1, <1>12, <3>4 DEF Emitted, Taken
      <4>2. h = << >>
        BY <3>2, <3>4
      <4> QED BY <1>8, <3>3, <4>1, <4>2, Zenon
    <3>5. CASE k = "line"
      <4>1. Taken(k, m) = Append(bytes, b)
        BY <1>1, <1>12, <3>5 DEF Emitted, Taken
      <4>2. h = << >>
        BY <3>2, <3>5
      <4> QED BY <1>8, <3>3, <4>1, <4>2, Zenon
    <3>6. CASE k = "ascii"
      <4>1. Taken(k, m) = Append(bytes, b)
        BY <1>1, <1>12, <3>6 DEF Emitted, Taken
      <4>2. h = << >>
        BY <3>2, <3>6
      <4> QED BY <1>8, <3>3, <4>1, <4>2, Zenon
    <3> QED BY <1>2, <3>1, <3>4, <3>5, <3>6 DEF Codec
  <2>5. AllTaken(k, Recent') = a \o (h \o (c \o x)) /\ AllTaken(k, Recent') \in Seq(Byte)
    <3>1. AllTaken(k, Recent') = a \o Taken(k, m)
      BY <1>1, <1>2, <1>12, <2>1, AllTakenNext, Zenon
    <3>2. Append(d, m) \in Seq(Seq(Byte))
      BY <1>2, <1>12
    <3>3. AllTaken(k, Recent') \in Seq(Byte)
      BY <1>2, <1>3, <2>1, <3>2, AllTakenNext, Zenon
    <3> QED BY <2>4, <3>1, <3>3, Zenon
  <2>6. PICK e : e = AllTaken(k, Recent') /\ e \in Seq(Byte)
    BY <2>5, Zenon
  <2>7. e \o (<< >> \o << >>) = e
    <3>1. << >> \o << >> = << >>
      OBVIOUS
    <3>2. e \o << >> = e
      BY <2>6, ConcatEmptySeq
    <3> QED BY <3>1, <3>2, Zenon
  <2>8. Seen(k, t \o x) = e
    BY <1>9, <2>3, <2>5, <2>6, Zenon
  <2> QED BY <1>1, <1>2, <2>1, <2>2, <2>6, <2>7, <2>8, Zenon DEF Divided
<1>13. CASE Measured(b)
  <2>1. /\ bytes' = << >> /\ Recent' = d /\ k = "object" /\ inObject' = TRUE
        /\ room' = Length(c \o x)
    BY <1>1, <1>8, <1>13, <1>15, Zenon DEF Measured, Calm
  <2>2. h = << >>
    BY <1>1, <1>13, Zenon DEF Header, Measured
  <2>3. Len(c \o x) = 4
    <3>1. Len(bytes) + 1 = 4 /\ Len(Append(bytes, b)) = Len(bytes) + 1
      BY <1>2, <1>13 DEF Measured, IType, Buffers
    <3> QED BY <1>8, <3>1, Zenon
  <2>4. Header' = c \o x
    <3>1. FourBytes(Length(c \o x)) = c \o x
      BY <1>4, <2>3, BytesLength, Zenon
    <3> QED BY <1>2, <2>1, <3>1, Zenon DEF Header
  <2>5. h \o (c \o x) = c \o x /\ (c \o x) \o << >> = c \o x
    BY <1>4, <2>2, ConcatEmptySeq
  <2>6. k # "ascii"
    BY <2>1
  <2> QED BY <1>1, <1>2, <1>9, <2>1, <2>4, <2>5, <2>6, Zenon DEF Divided
<1>14. CASE Thrown(b) /\ bytes' # bytes
  <2>1. bytes' = c \o x /\ Recent' = d /\ k = "object"
    BY <1>1, <1>8, <1>14, <1>15, Zenon DEF Thrown
  <2>2. Header' = h
    BY <1>1, <1>2, <1>14 DEF Thrown, Header
  <2>3. k # "ascii"
    BY <2>1
  <2> QED BY <1>1, <1>2, <1>9, <2>1, <2>2, <2>3, Zenon DEF Divided
<1> QED BY <1>10, <1>11, <1>12, <1>13, <1>14, Zenon DEF Decoded, Again

(* What is parsed grows by the byte, or, where process throws, by the rest *)
(* of the chunk too, none of which is decoded.                             *)
LEMMA ParsedByte ==
  ASSUME IType, NEW t \in Seq(Byte), Parsed(t), NEW b \in Byte, Decoded(b), Unsent, ~Again(b),
         Inert, ~threw, ~Refused(b), chunk # << >>
  PROVE  Parsed(t \o <<b>>)'
<1>1. PICK p, s \in Seq(Byte) : t = p \o s /\ Len(p) = cut /\ Divided(s)
  BY DEF Parsed
<1>2. PICK u : u = s \o <<b>>
  OBVIOUS
<1>3. Divided(u)'
  <2>1. Divided(s \o <<b>>)'
    BY <1>1, DividedByte
  <2> QED BY <1>2, <2>1 DEF Divided
<1>4. u \in Seq(Byte) /\ t \o <<b>> = p \o u
  BY <1>1, <1>2, OneMore, Zenon
<1>5. cut' = cut
  BY DEF Decoded, Kept, Skipped, Emitted, Measured, Thrown, Calm
<1>6. threw' \/ Len(t \o <<b>>) = Handed'
  <2>1. CASE Thrown(b)
    BY <2>1 DEF Thrown
  <2>2. CASE ~Thrown(b)
    <3>1. chunk' = Tail(chunk) /\ got' = got
      BY <2>2 DEF Decoded, Kept, Skipped, Emitted, Measured, Calm
    <3>2. Len(Tail(chunk)) = Len(chunk) - 1 /\ Len(chunk) \in Nat /\ got \in Nat
      BY DEF IType, Carries, Places
    <3>3. Len(t \o <<b>>) = Len(t) + 1
      OBVIOUS
    <3>4. Len(t) = got - Len(chunk)
      BY DEF Parsed, Handed
    <3> QED BY <3>1, <3>2, <3>3, <3>4 DEF Handed
  <2> QED BY <2>1, <2>2
<1> QED BY <1>1, <1>3, <1>4, <1>5, <1>6, Zenon DEF Parsed

LEMMA ParsedRefused ==
  ASSUME IType, NEW t \in Seq(Byte), NEW b \in Byte, Parsed(t), Refused(b), Unsent, ~threw,
         chunk # << >>, NEW u, u = (t \o <<b>>) \o Tail(chunk)
  PROVE  Parsed(u)'
<1>1. PICK y : y = Tail(chunk) /\ u = (t \o <<b>>) \o y
  OBVIOUS
<1>2. /\ y \in Seq(Byte) /\ u \in Seq(Byte) /\ Len(u) = (Len(t) + 1) + (Len(chunk) - 1)
      /\ Len(chunk) \in Nat /\ got \in Nat
  BY <1>1 DEF IType, Carries, Places
<1>3. Len(t) = got - Len(chunk)
  BY DEF Parsed, Handed
<1>4. Len(u) = got /\ Len(t) \in Nat
  BY <1>2, <1>3
<1>5. cut' = got /\ got' = got /\ chunk' = << >> /\ Len(<< >>) = 0
  BY DEF Refused
<1>6. Len(u) = cut' /\ Len(u) = Handed'
  BY <1>2, <1>4, <1>5 DEF Handed
<1>7. << >> \in Seq(Byte) /\ u = u \o << >>
  BY <1>2
<1>8. Divided(<< >>)'
  <2>1. Recent' = << >>
    <3>1. decoded' \in Seq(Seq(Byte)) /\ since' = Len(decoded')
      BY DEF Refused, IType, Buffers
    <3>2. 0 \in 0..Len(decoded')
      BY <3>1
    <3>3. After(decoded', Len(decoded')) = << >>
      BY <3>1, <3>2, AfterType
    <3> QED BY <3>1, <3>3 DEF Recent
  <2>2. Header' = << >> /\ bytes' = << >>
    BY DEF Header, Refused, Unsent
  <2>3. AllTaken(codec', << >>) = << >> /\ Seen(codec', << >>) = << >>
    BY NothingTaken, Zenon
  <2>4. << >> \o (<< >> \o << >>) = << >>
    OBVIOUS
  <2> QED BY <2>1, <2>2, <2>3, <2>4, Zenon DEF Divided
<1> QED BY <1>2, <1>6, <1>7, <1>8, Zenon DEF Parsed

(* While the decoder's state stays, so does what is parsed.                *)
LEMMA ParsedSame ==
  ASSUME NEW t, Parsed(t), codec' = codec, UNCHANGED <<decoder, cut, since>>,
         threw' \/ (threw' = threw /\ Handed' = Handed)
  PROVE  Parsed(t)'
<1>1. Recent' = Recent /\ Header' = Header
  BY DEF Recent, Header, decoder
<1>2. ASSUME NEW s, Divided(s) PROVE Divided(s)'
  BY <1>1, <1>2 DEF Divided, decoder
<1> QED BY <1>2 DEF Parsed

LEMMA FlowStart == Init => Flow
<1> SUFFICES ASSUME Init PROVE Flow
  OBVIOUS
<1>1. /\ offered = << >> /\ written = << >> /\ wire = << >> /\ chunk = << >> /\ bytes = << >>
      /\ decoded = << >> /\ inObject = FALSE
  BY DEF Init
<1>2. << >> \in Seq(Byte) /\ << >> \o << >> = << >>
  OBVIOUS
<1>3. Header = << >>
  BY <1>1, Zenon DEF Header
<1>4. Parsed(<< >>)
  <2>1. AllTaken(codec, << >>) = << >> /\ Seen(codec, << >>) = << >>
    BY NothingTaken, Zenon
  <2>2. Recent = << >>
    BY <1>1 DEF Init, Recent, After
  <2>3. Divided(<< >>)
    BY <1>1, <1>2, <1>3, <2>1, <2>2, Zenon DEF Divided
  <2>4. cut = 0 /\ Len(<< >>) = 0 /\ Handed = 0
    <3>1. cut = 0 /\ got = 0 /\ Len(<< >>) = 0
      BY DEF Init
    <3>2. Len(chunk) = 0
      BY <1>1, <3>1, Zenon
    <3> QED BY <3>1, <3>2 DEF Handed
  <2> QED BY <1>2, <2>3, <2>4, Zenon DEF Parsed
<1>5. Ahead(written, Stream(codec, offered), << >>, Way, << >>, << >>)
  <2>1. Stream(codec, << >>) = << >>
    BY StreamEmpty, Zenon
  <2> QED BY <1>1, <1>2, <2>1, Zenon DEF Ahead, Way
<1> QED BY <1>1, <1>2, <1>4, <1>5, Zenon DEF Flow

LEMMA FlowOffer ==
  ASSUME IType, Flow, NEW m \in Messages[codec], Offer(m)
  PROVE  Flow'
<1>1. PICK t : /\ t \in Seq(Byte) /\ Parsed(t) /\ \E v \in Seq(Byte) : written = t \o v
               /\ ~threw => \E r, q : /\ Ahead(written, Stream(codec, offered), t, Way, r, q)
                                      /\ ~broken => r = << >>
  BY Zenon DEF Flow
<1>2. /\ UNCHANGED <<codec, written, wire, broken, chunk, decoder, threw, got, cut, since>>
      /\ offered' = Append(offered, m)
  BY DEF Offer, setup, net, receiver, place
<1>3. Parsed(t)' /\ Way' = Way
  BY <1>1, <1>2, ParsedSame DEF Way, Handed
<1>4. ASSUME ~threw
      PROVE  \E r, q : /\ Ahead(written, Stream(codec, offered'), t, Way, r, q)
                       /\ ~broken => r = << >>
  <2>1. PICK r, q : /\ Ahead(written, Stream(codec, offered), t, Way, r, q)
                    /\ ~broken => r = << >>
    BY <1>1, <1>4, Zenon
  <2>2. codec \in Codec /\ offered \in Seq(Messages[codec])
    BY DEF IType, Set, Sends
  <2>3. PICK f : f = FlattenSeq(Calls(codec, m))
    OBVIOUS
  <2>4. f \in Seq(Byte) /\ Stream(codec, offered') = Stream(codec, offered) \o f
    BY <1>2, <2>2, <2>3, CallsOf, StreamNext, Zenon
  <2>5. Ahead(written, Stream(codec, offered) \o f, t, Way, r, q \o f)
    BY <2>1, <2>4, AheadOffer, Zenon
  <2> QED BY <2>1, <2>4, <2>5, Zenon
<1> QED BY <1>1, <1>2, <1>3, <1>4, Zenon DEF Flow

LEMMA FlowWrite ==
  ASSUME IType, Flow, Sending, WriteSome, IType', Sending'
  PROVE  Flow'
<1>1. PICK t : /\ t \in Seq(Byte) /\ Parsed(t) /\ \E v \in Seq(Byte) : written = t \o v
               /\ ~threw => \E r, q : /\ Ahead(written, Stream(codec, offered), t, Way, r, q)
                                      /\ ~broken => r = << >>
  BY Zenon DEF Flow
<1>2. PICK n \in 1..(Len(calls[1]) - tmp) : Take(tmp, n)
  BY DEF WriteSome
<1>3. PICK x : x = SubSeq(calls[1], tmp + 1, tmp + n)
  OBVIOUS
<1>4. /\ UNCHANGED <<codec, offered, failed, broken, chunk, decoder, threw, got, cut, since>>
      /\ written' = written \o x /\ wire' = (IF broken THEN wire ELSE wire \o x)
  BY <1>2, <1>3 DEF Take, setup, receiver, place
<1>5. x \in Seq(Byte)
  <2>1. calls # << >> /\ calls \in Seq(Seq(Byte)) /\ Len(calls) <= 2 /\ tmp \in Nat
    BY DEF WriteSome, IType, Sends
  <2>2. PICK a : a = calls[1]
    OBVIOUS
  <2>3. a \in Seq(Byte)
    BY <2>1, <2>2, FlattenFirst, Zenon
  <2>4. n \in 1..(Len(a) - tmp)
    BY <1>2, <2>2
  <2>5. SubSeq(a, tmp + 1, tmp + n) \in Seq(Byte)
    BY <2>1, <2>3, <2>4
  <2> QED BY <1>3, <2>2, <2>5
<1>6. Parsed(t)'
  BY <1>1, <1>4, ParsedSame DEF Handed
<1>7. \E v \in Seq(Byte) : written' = t \o v
  <2>1. PICK v : v \in Seq(Byte) /\ written = t \o v
    BY <1>1, Zenon
  <2>2. Joins(t, v, x)
    BY <1>1, <1>5, <2>1, Regroup, Zenon
  <2> QED BY <1>4, <2>1, <2>2, Zenon DEF Joins
<1>8. ASSUME ~threw
      PROVE  \E r, q : /\ Ahead(written', Stream(codec, offered), t, Way', r, q)
                       /\ ~broken => r = << >>
  <2>1. PICK r, q : /\ Ahead(written, Stream(codec, offered), t, Way, r, q)
                    /\ ~broken => r = << >>
    BY <1>1, <1>8, Zenon
  <2>2. CASE broken
    <3>1. Way' = Way
      BY <1>4, <2>2, Zenon DEF Way
    <3>2. Ahead(written \o x, Stream(codec, offered), t, Way, r \o x, q)
      BY <1>5, <2>1, AheadWritten, Zenon
    <3> QED BY <1>4, <2>2, <3>1, <3>2, Zenon
  <2>3. CASE ~broken
    <3>1. chunk \in Seq(Byte) /\ wire \in Seq(Byte)
      BY DEF IType, Carries
    <3>2. Joins(chunk, wire, x)
      BY <1>5, <3>1, Regroup, Zenon
    <3>3. Way' = Way \o x
      BY <1>4, <2>3, <3>2, Zenon DEF Way, Joins
    <3>4. ~failed'
      BY <1>4, <2>3 DEF Sending
    <3>5. AllWritten'
      BY <3>4, WrittenPending, PTL
    <3>6. PICK p : p = Pending'
      OBVIOUS
    <3>7. p \in Seq(Byte) /\ (written \o x) \o p = Stream(codec, offered)
      BY <1>4, <3>5, <3>6, Zenon DEF AllWritten
    <3>8. Ahead(written, Stream(codec, offered), t, Way, << >>, q)
      BY <2>1, <2>3, Zenon
    <3>9. Ahead(written \o x, Stream(codec, offered), t, Way \o x, << >>, p)
      BY <1>5, <3>7, <3>8, AheadTaken, Zenon
    <3> QED BY <1>4, <3>3, <3>9, Zenon
  <2> QED BY <2>2, <2>3
<1> QED BY <1>1, <1>4, <1>6, <1>7, <1>8, Zenon DEF Flow

LEMMA FlowBreak ==
  ASSUME IType, Flow, Break
  PROVE  Flow'
<1>1. PICK t : /\ t \in Seq(Byte) /\ Parsed(t) /\ \E v \in Seq(Byte) : written = t \o v
               /\ ~threw => \E r, q : Ahead(written, Stream(codec, offered), t, Way, r, q)
  BY Zenon DEF Flow
<1>2. PICK n \in 0..Len(wire) : wire' = SubSeq(wire, 1, n)
  BY DEF Break
<1>3. /\ UNCHANGED <<codec, offered, written, chunk, decoder, threw, got, cut, since>> /\ broken'
  BY DEF Break, setup, sender, receiver, place
<1>4. PICK l : l = SubSeq(wire, n + 1, Len(wire))
  OBVIOUS
<1>5. wire \in Seq(Byte) /\ chunk \in Seq(Byte)
  BY DEF IType, Carries
<1>6. wire' \in Seq(Byte) /\ l \in Seq(Byte) /\ wire = wire' \o l
  <2>1. wire' \in Seq(Byte) /\ l \in Seq(Byte)
    BY <1>2, <1>4, <1>5
  <2>2. 1 \in 1..(Len(wire) + 1) /\ n \in (1 - 1)..Len(wire) /\ Len(wire) \in n..Len(wire)
    BY <1>2, <1>5
  <2>3. SubSeq(wire, 1, n) \o SubSeq(wire, n + 1, Len(wire)) = SubSeq(wire, 1, Len(wire))
    BY <1>5, <2>2, ConcatAdjacentSubSeq, Zenon
  <2>4. SubSeq(wire, 1, Len(wire)) = wire
    BY <1>5
  <2> QED BY <1>2, <1>4, <2>1, <2>3, <2>4, Zenon
<1>7. Joins(chunk, wire', l)
  BY <1>5, <1>6, Regroup, Zenon
<1>8. Way = Way' \o l /\ Way' \in Seq(Byte)
  BY <1>3, <1>6, <1>7, Zenon DEF Way, Joins
<1>9. Parsed(t)'
  BY <1>1, <1>3, ParsedSame DEF Handed
<1>10. ASSUME ~threw
       PROVE  \E r, q : Ahead(written, Stream(codec, offered), t, Way', r, q)
  <2>1. PICK r, q : Ahead(written, Stream(codec, offered), t, Way' \o l, r, q)
    BY <1>1, <1>8, <1>10, Zenon
  <2>2. Ahead(written, Stream(codec, offered), t, Way', l \o r, l \o q)
    BY <1>6, <1>8, <2>1, AheadLost, Zenon
  <2> QED BY <2>2, Zenon
<1> QED BY <1>1, <1>3, <1>9, <1>10, Zenon DEF Flow

LEMMA FlowRead ==
  ASSUME IType, Read
  PROVE  /\ Way' = Way /\ Handed' = Handed
         /\ UNCHANGED <<codec, offered, written, broken, decoder, threw, cut, since>>
<1>1. PICK n \in 1..Len(wire) : /\ chunk' = SubSeq(wire, 1, n) /\ got' = got + n
                                /\ wire' = SubSeq(wire, n + 1, Len(wire))
  BY DEF Read
<1>2. wire \in Seq(Byte) /\ chunk = << >>
  BY DEF IType, Carries, Read
<1>3. 1 \in 1..(Len(wire) + 1) /\ n \in (1 - 1)..Len(wire) /\ Len(wire) \in n..Len(wire)
  BY <1>1, <1>2
<1>4. SubSeq(wire, 1, n) \o SubSeq(wire, n + 1, Len(wire)) = SubSeq(wire, 1, Len(wire))
  BY <1>2, <1>3, ConcatAdjacentSubSeq, Zenon
<1>5. SubSeq(wire, 1, Len(wire)) = wire /\ << >> \o wire = wire
  BY <1>2, ConcatEmptySeq
<1>6. Way' = Way
  BY <1>1, <1>2, <1>4, <1>5, Zenon DEF Way
<1>7. Handed' = Handed
  <2>1. Len(chunk') = n /\ Len(chunk) = 0
    BY <1>1, <1>2
  <2>2. got \in Nat
    BY DEF IType, Places
  <2> QED BY <1>1, <2>1, <2>2 DEF Handed
<1> QED BY <1>6, <1>7 DEF Read, setup, sender

LEMMA FlowSame ==
  ASSUME Flow, Way' = Way, Handed' = Handed,
         UNCHANGED <<codec, offered, written, broken, decoder, threw, cut, since>>
  PROVE  Flow'
<1>1. PICK t : /\ t \in Seq(Byte) /\ Parsed(t) /\ \E v \in Seq(Byte) : written = t \o v
               /\ ~threw => \E r, q : /\ Ahead(written, Stream(codec, offered), t, Way, r, q)
                                      /\ ~broken => r = << >>
  BY Zenon DEF Flow
<1>2. Parsed(t)'
  BY <1>1, ParsedSame
<1> QED BY <1>1, <1>2, Zenon DEF Flow

LEMMA FlowDecode ==
  ASSUME IType, Flow, Inert, NEW b \in Byte, b = Head(chunk), chunk # << >>, Unsent, Decoded(b)
  PROVE  Flow'
<1>1. UNCHANGED <<codec, offered, written>>
  BY DEF Unsent
<1>2. CASE Again(b)
  <2>1. PICK t : /\ t \in Seq(Byte) /\ Parsed(t) /\ \E v \in Seq(Byte) : written = t \o v
    BY Zenon DEF Flow
  <2>2. UNCHANGED <<decoder, cut, since>> /\ threw'
    BY <1>2 DEF Again, Thrown, decoder
  <2>3. Parsed(t)'
    BY <1>1, <2>1, <2>2, ParsedSame
  <2> QED BY <1>1, <2>1, <2>2, <2>3, Zenon DEF Flow
<1>3. CASE ~Again(b) /\ ~Refused(b)
  <2>1. ~threw
    BY <1>3, ThrownAgain
  <2>2. PICK t : AtByte(t, b)
    BY <2>1, ByteAhead, Zenon
  <2>3. PICK r, q : /\ Ahead(written, Stream(codec, offered), t \o <<b>>, Tail(chunk) \o wire, r, q)
                    /\ ~broken => r = << >>
    BY <2>2, Zenon DEF AtByte
  <2>4. t \in Seq(Byte) /\ Parsed(t)
    BY <2>2, Zenon DEF AtByte
  <2>5. Parsed(t \o <<b>>)'
    BY <1>3, <2>1, <2>4, ParsedByte
  <2>6. PICK u : u = t \o <<b>>
    OBVIOUS
  <2>7. Parsed(u)'
    BY <2>5, <2>6 DEF Parsed
  <2>8. u \in Seq(Byte) /\ \E v \in Seq(Byte) : written = u \o v
    <3>1. r \in Seq(Byte) /\ u \in Seq(Byte) /\ Tail(chunk) \o wire \in Seq(Byte)
          /\ written = u \o ((Tail(chunk) \o wire) \o r)
      BY <2>3, <2>6, Zenon DEF Ahead
    <3>2. PICK y : y = Tail(chunk) \o wire
      OBVIOUS
    <3>3. Joins(u, y, r)
      BY <3>1, <3>2, Regroup, Zenon
    <3> QED BY <3>1, <3>2, <3>3, Zenon DEF Joins
  <2>9. CASE Thrown(b)
    <3>1. threw'
      BY <2>9 DEF Thrown
    <3> QED BY <1>1, <2>7, <2>8, <3>1, Zenon DEF Flow
  <2>10. CASE Calm
    <3>1. Way' = Tail(chunk) \o wire /\ broken' = broken
      BY <2>10 DEF Calm, Way
    <3> QED BY <1>1, <2>3, <2>6, <2>7, <2>8, <3>1, Zenon DEF Flow
  <2> QED BY <1>3, <2>9, <2>10, Zenon DEF Decoded, Kept, Skipped, Emitted, Measured
<1>4. CASE Refused(b)
  <2>1. ~threw
    <3>1. ~Thrown(b)
      BY <1>4 DEF Refused, Thrown
    <3> QED BY <3>1, ThrownAgain DEF Again
  <2>2. PICK t : AtByte(t, b)
    BY <2>1, ByteAhead, Zenon
  <2>3. PICK r, q : /\ Ahead(written, Stream(codec, offered), t \o <<b>>, Tail(chunk) \o wire, r, q)
                    /\ ~broken => r = << >>
    BY <2>2, Zenon DEF AtByte
  <2>4. PICK u, y, l : u = (t \o <<b>>) \o Tail(chunk) /\ y = Tail(chunk) /\ l = wire
    OBVIOUS
  <2>5. y \in Seq(Byte) /\ l \in Seq(Byte) /\ << >> \in Seq(Byte)
    BY <2>4 DEF IType, Carries
  <2>6. Ahead(written, Stream(codec, offered), u, l, r, q)
    BY <2>3, <2>4, <2>5, AheadByte, Zenon
  <2>7. Parsed(u)'
    <3>1. t \in Seq(Byte) /\ Parsed(t)
      BY <2>2, Zenon DEF AtByte
    <3> QED BY <1>4, <2>1, <2>4, <3>1, ParsedRefused
  <2>8. u \in Seq(Byte) /\ \E v \in Seq(Byte) : written = u \o v
    <3>1. u \in Seq(Byte) /\ r \in Seq(Byte) /\ written = u \o (l \o r)
      BY <2>6, Zenon DEF Ahead
    <3>2. Joins(u, l, r)
      BY <2>5, <3>1, Regroup, Zenon
    <3> QED BY <3>1, <3>2, Zenon DEF Joins
  <2>9. chunk' = << >> /\ (wire' = wire \/ (wire' = << >> /\ broken')) /\ (broken => broken')
    BY <1>4 DEF Refused
  <2>10. CASE wire' = wire
    <3>1. Way' = l
      BY <2>4, <2>5, <2>9, <2>10, ConcatEmptySeq DEF Way
    <3> QED BY <1>1, <2>3, <2>6, <2>7, <2>8, <2>9, <3>1, Zenon DEF Flow
  <2>11. CASE wire' = << >> /\ broken'
    <3>1. Way' = << >>
      BY <2>9, <2>11 DEF Way
    <3>2. << >> \o l = l
      BY <2>5, ConcatEmptySeq
    <3>3. Ahead(written, Stream(codec, offered), u, << >>, l \o r, l \o q)
      BY <2>5, <2>6, <3>2, AheadLost, Zenon
    <3> QED BY <1>1, <2>7, <2>8, <2>11, <3>1, <3>3, Zenon DEF Flow
  <2> QED BY <2>9, <2>10, <2>11
<1> QED BY <1>2, <1>3, <1>4

LEMMA FlowStep ==
  ASSUME IType, Flow, Sending, Inert, [Next]_vars, IType', Sending'
  PROVE  Flow'
<1>1. CASE \E m \in Messages[codec] : Offer(m)
  BY <1>1, FlowOffer
<1>2. CASE WriteSome
  BY <1>2, FlowWrite
<1>3. CASE WriteDone \/ WriteFails \/ End \/ UNCHANGED vars
  <2>1. /\ Way' = Way /\ Handed' = Handed
        /\ UNCHANGED <<codec, offered, written, broken, decoder, threw, cut, since>>
    BY <1>3 DEF WriteDone, WriteFails, End, vars, setup, sender, net, receiver, place, Way, Handed
  <2> QED BY <2>1, FlowSame
<1>4. CASE Break
  BY <1>4, FlowBreak
<1>5. CASE Read
  BY <1>5, FlowRead, FlowSame
<1>6. CASE Decode
  BY <1>6, DecodeIs, FlowDecode
<1> QED BY <1>1, <1>2, <1>3, <1>4, <1>5, <1>6 DEF Next, Receiver

(* A decoder of lines or objects is within the next message m that was     *)
(* given to send.                                                          *)
Within(b, m) ==
  /\ m \in Messages[codec]
  /\ \E xs \in Seq(Messages[codec]) : offered = Append(decoded, m) \o xs
  /\ \E q, z \in Seq(Byte) : ((Header \o bytes) \o <<b>>) \o q = Taken(codec, m) \o z

LEMMA HeaderType ==
  ASSUME IType
  PROVE  Header \in Seq(Byte) /\ bytes \in Seq(Byte) /\ Header \o bytes \in Seq(Byte)
<1>1. room \in Nat /\ bytes \in Seq(Byte)
  BY DEF IType, Buffers
<1>2. FourBytes(room) \in Seq(Byte) /\ << >> \in Seq(Byte)
  BY <1>1, FourBytesType
<1>3. Header \in Seq(Byte)
  BY <1>2, Zenon DEF Header
<1>4. Joins(Header, bytes, bytes)
  BY <1>1, <1>3, Regroup, Zenon
<1> QED BY <1>1, <1>3, <1>4, Zenon DEF Joins

LEMMA ByteWithin ==
  ASSUME IType, Flow, Ordered, ~threw, chunk # << >>, codec \in Framed,
         NEW b \in Byte, b = Head(chunk)
  PROVE  \E m : Within(b, m)
<1>1. PICK t : AtByte(t, b)
  BY ByteAhead, Zenon
<1>2. PICK u, r, q : /\ u = Tail(chunk) \o wire
                     /\ Ahead(written, Stream(codec, offered), t \o <<b>>, u, r, q)
  BY <1>1, Zenon DEF AtByte
<1>3. PICK a, h, x : a = AllTaken(codec, decoded) /\ h = Header \o bytes /\ x = <<b>>
  OBVIOUS
<1>4. codec # "ascii" /\ codec \in Codec /\ codec \in {"line", "object"}
  BY DEF Framed, Codec
<1>5. /\ a \in Seq(Byte) /\ h \in Seq(Byte) /\ x \in Seq(Byte) /\ decoded \in Seq(Seq(Byte))
      /\ offered \in Seq(Messages[codec])
  <2>1. decoded \in Seq(Seq(Byte)) /\ << >> \in Seq(Byte) /\ offered \in Seq(Messages[codec])
    BY DEF IType, Buffers, Sends
  <2>2. a \in Seq(Byte)
    BY <1>3, <1>4, <2>1, AllTakenNext, Zenon
  <2> QED BY <1>1, <1>3, <2>1, <2>2, HeaderType, Zenon DEF AtByte
<1>6. t = a \o h
  <2>1. PICK p, s \in Seq(Byte) : t = p \o s /\ Len(p) = cut /\ Divided(s)
    BY <1>1, Zenon DEF AtByte, Parsed
  <2>2. cut = 0 /\ Recent = decoded
    BY <1>4, RecentType DEF IType, Places
  <2>3. t = s
    <3>1. p = << >>
      BY <2>1, <2>2, EmptySeq
    <3> QED BY <2>1, <3>1, ConcatEmptySeq
  <2>4. Seen(codec, s) = s
    BY <1>4, Zenon DEF Seen
  <2> QED BY <1>3, <2>1, <2>2, <2>3, <2>4, Zenon DEF Divided
<1>7. Joins(a, h, x)
  BY <1>5, Regroup, Zenon
<1>8. PICK y : y = h \o x /\ y \in Seq(Byte)
  BY <1>7, Zenon DEF Joins
<1>9. (a \o y) \o u \in Seq(Byte) /\ ((a \o y) \o u) \o q = Stream(codec, offered)
      /\ u \in Seq(Byte) /\ q \in Seq(Byte) /\ a \o y \in Seq(Byte)
  <2>1. t \o x = a \o y
    BY <1>6, <1>7, <1>8, Zenon DEF Joins
  <2>2. /\ u \in Seq(Byte) /\ q \in Seq(Byte) /\ a \o y \in Seq(Byte)
        /\ ((a \o y) \o u) \o q = Stream(codec, offered)
    BY <1>2, <1>3, <2>1, Zenon DEF Ahead
  <2>3. Joins(a \o y, u, q)
    BY <2>2, Regroup, Zenon
  <2> QED BY <2>2, <2>3, Zenon DEF Joins
<1>10. PICK w : w = u \o q /\ w \in Seq(Byte) /\ (a \o y) \o w = Stream(codec, offered)
  <2>1. Joins(a \o y, u, q)
    BY <1>9, Regroup, Zenon
  <2> QED BY <1>9, <2>1, Zenon DEF Joins
<1>11. y # << >>
  <2>1. Len(h \o x) = Len(h) + 1 /\ Len(h) \in Nat
    BY <1>3, <1>5
  <2>2. Len(h \o x) # 0 /\ Len(<< >>) = 0
    BY <2>1
  <2> QED BY <1>8, <2>2, Zenon
<1>12. IsPrefix(decoded, offered)
  BY <1>4 DEF Ordered
<1>13. \E m \in Messages[codec], xs \in Seq(Messages[codec]), z \in Seq(Byte) :
         offered = Append(decoded, m) \o xs /\ y \o w = Taken(codec, m) \o z
  <2>1. codec \in Framed /\ offered \in Seq(Messages[codec]) /\ decoded \in Seq(Seq(Byte))
    BY <1>5, Zenon
  <2>2. y \in Seq(Byte) /\ w \in Seq(Byte) /\ y # << >>
    BY <1>8, <1>10, <1>11, Zenon
  <2>3. (AllTaken(codec, decoded) \o y) \o w = Stream(codec, offered)
    BY <1>3, <1>10, Zenon
  <2>4. GoesOn(codec, offered, decoded, y, w)
    BY <1>12, <2>1, <2>2, <2>3, NextMessage, Zenon
  <2> QED BY <2>4, Zenon DEF GoesOn
<1> QED BY <1>3, <1>8, <1>10, <1>13, Zenon DEF Within

LEMMA MessageBytes ==
  ASSUME IType, NEW b, NEW m, Within(b, m)
  PROVE  m \in Seq(Byte)
<1>1. codec \in Codec
  BY DEF IType, Set
<1> QED BY <1>1, CallsOf, Zenon DEF Within

(* The line is the one that was sent.                                      *)
LEMMA LineIs ==
  ASSUME IType, Shape, codec = "line", NEW m, Within(Newline, m)
  PROVE  m = bytes
<1>1. m \in Seq(Byte) /\ bytes \in Seq(Byte)
  BY MessageBytes DEF IType, Buffers
<1>2. PICK q, z : /\ q \in Seq(Byte) /\ z \in Seq(Byte)
                  /\ ((Header \o bytes) \o <<Newline>>) \o q = Taken(codec, m) \o z
  BY Zenon DEF Within
<1>3. Header = << >> /\ << >> \o bytes = bytes
  <2>1. codec # "object"
    OBVIOUS
  <2> QED BY <1>1, <2>1, ConcatEmptySeq, Zenon DEF Header
<1>4. Taken(codec, m) = Append(m, Newline)
  BY DEF Taken
<1>5. (bytes \o <<Newline>>) \o q = Append(m, Newline) \o z
  BY <1>2, <1>3, <1>4, Zenon
<1>6. \A i \in 1..Len(m) : m[i] # Newline
  <2>1. m \in Messages["line"]
    BY DEF Within
  <2>2. \A i \in DOMAIN m : m[i] # Newline
    BY <2>1, FramingAssumption
  <2>3. DOMAIN m = 1..Len(m)
    BY <1>1
  <2> QED BY <2>2, <2>3
<1>7. \A i \in 1..Len(bytes) : bytes[i] # Newline
  BY DEF Shape, Plain
<1> QED BY <1>1, <1>2, <1>5, <1>6, <1>7, LineCut

(* Where two sequences go on as one, equal lengths make equal beginnings.  *)
Agree(s, t, u, v) == s \o u = t \o v /\ Len(s) = Len(t) => s = t /\ u = v

LEMMA AgreeParts ==
  ASSUME NEW s \in Seq(Byte), NEW t \in Seq(Byte), NEW u \in Seq(Byte), NEW v \in Seq(Byte)
  PROVE  Agree(s, t, u, v)
BY EqualParts DEF Agree

LEMMA ObjectLength ==
  ASSUME NEW m, m \in Messages["object"]
  PROVE  /\ Len(m) \in Nat /\ Len(m) \in 1..MaxInt
         /\ FourBytes(Len(m)) \in Seq(Byte) /\ Len(FourBytes(Len(m))) = 4
         /\ Length(FourBytes(Len(m))) = Len(m)
<1>1. MaxInt \in Nat
  BY SMT DEF MaxInt
<1>2. Len(m) \in 1..MaxInt
  BY FramingAssumption
<1>3. Len(m) \in Nat /\ Len(m) <= MaxInt
  BY <1>1, <1>2
<1> QED BY <1>2, <1>3, LengthBytes

(* The number that has been read is the length of the next object.         *)
LEMMA LengthIs ==
  ASSUME IType, codec = "object", ~inObject, NEW b \in Byte, Len(bytes) + 1 = room,
         NEW m, Within(b, m)
  PROVE  Length(Append(bytes, b)) = Len(m) /\ Len(m) \in 1..MaxInt
<1>1. m \in Seq(Byte) /\ bytes \in Seq(Byte) /\ Len(bytes) + 1 = 4
  BY MessageBytes DEF IType, Buffers
<1>2. PICK q, z : /\ q \in Seq(Byte) /\ z \in Seq(Byte)
                  /\ ((Header \o bytes) \o <<b>>) \o q = Taken(codec, m) \o z
  BY Zenon DEF Within
<1>3. PICK f : f = FourBytes(Len(m))
  OBVIOUS
<1>4. Len(m) \in 1..MaxInt /\ f \in Seq(Byte) /\ Len(f) = 4 /\ Length(f) = Len(m)
  <2>1. m \in Messages["object"]
    BY DEF Within
  <2> QED BY <1>3, <2>1, ObjectLength, Zenon
<1>5. Header = << >> /\ << >> \o bytes = bytes
  BY <1>1, ConcatEmptySeq DEF Header
<1>6. Taken(codec, m) = f \o m
  BY <1>3 DEF Taken
<1>7. PICK x : x = Append(bytes, b) /\ x = bytes \o <<b>> /\ x \in Seq(Byte) /\ Len(x) = 4
  <2>1. Append(bytes, b) \in Seq(Byte) /\ Len(Append(bytes, b)) = 4
    BY <1>1
  <2>2. Append(bytes, b) = bytes \o <<b>>
    BY <1>1, AppendIsConcat
  <2> QED BY <2>1, <2>2, Zenon
<1>8. Joins(f, m, z)
  BY <1>1, <1>2, <1>4, Regroup, Zenon
<1>9. x \o q = f \o (m \o z) /\ m \o z \in Seq(Byte)
  BY <1>2, <1>5, <1>6, <1>7, <1>8, Zenon DEF Joins
<1>10. Agree(x, f, q, m \o z)
  BY <1>2, <1>4, <1>7, <1>9, AgreeParts, Zenon
<1>11. x = f
  BY <1>4, <1>7, <1>9, <1>10, Zenon DEF Agree
<1> QED BY <1>4, <1>7, <1>11, Zenon

(* The object is the one that was sent.                                    *)
LEMMA ObjectIs ==
  ASSUME IType, Inert, ~threw, codec = "object", inObject, NEW b \in Byte,
         Len(bytes) + 1 = room, NEW m, Within(b, m)
  PROVE  m = Append(bytes, b)
<1>1. m \in Seq(Byte) /\ bytes \in Seq(Byte) /\ room \in Nat /\ room \in 1..MaxInt
  BY MessageBytes DEF IType, Buffers, Inert
<1>2. PICK q, z : /\ q \in Seq(Byte) /\ z \in Seq(Byte)
                  /\ ((Header \o bytes) \o <<b>>) \o q = Taken(codec, m) \o z
  BY Zenon DEF Within
<1>3. PICK f, h : f = FourBytes(Len(m)) /\ h = FourBytes(room)
  OBVIOUS
<1>4. /\ Len(m) \in Nat /\ f \in Seq(Byte) /\ Len(f) = 4 /\ Length(f) = Len(m)
      /\ h \in Seq(Byte) /\ Len(h) = 4 /\ Length(h) = room
  <2>1. m \in Messages["object"]
    BY DEF Within
  <2>2. MaxInt \in Nat
    BY SMT DEF MaxInt
  <2>3. room <= MaxInt
    BY <1>1, <2>2
  <2>4. h \in Seq(Byte) /\ Len(h) = 4 /\ Length(h) = room
    BY <1>1, <1>3, <2>3, LengthBytes, Zenon
  <2> QED BY <1>3, <2>1, <2>4, ObjectLength, Zenon
<1>5. Header = h
  BY <1>3, Zenon DEF Header
<1>6. Taken(codec, m) = f \o m
  BY <1>3 DEF Taken
<1>7. PICK x, e : /\ x = Append(bytes, b) /\ x = bytes \o e /\ x \in Seq(Byte) /\ Len(x) = room
                  /\ e = <<b>> /\ e \in Seq(Byte)
  <2>1. Append(bytes, b) \in Seq(Byte) /\ Len(Append(bytes, b)) = room /\ <<b>> \in Seq(Byte)
    BY <1>1
  <2>2. Append(bytes, b) = bytes \o <<b>>
    BY <1>1, AppendIsConcat
  <2> QED BY <2>1, <2>2, Zenon
<1>8. Joins(h, bytes, e) /\ Joins(h, x, q) /\ Joins(f, m, z)
  BY <1>1, <1>2, <1>4, <1>7, Regroup, Zenon
<1>9. h \o (x \o q) = f \o (m \o z) /\ m \o z \in Seq(Byte) /\ x \o q \in Seq(Byte)
  BY <1>2, <1>5, <1>6, <1>7, <1>8, Zenon DEF Joins
<1>10. Agree(h, f, x \o q, m \o z)
  BY <1>4, <1>9, AgreeParts, Zenon
<1>11. h = f /\ x \o q = m \o z
  BY <1>4, <1>9, <1>10, Zenon DEF Agree
<1>12. Len(x) = Len(m)
  BY <1>4, <1>7, <1>11, Zenon
<1>13. Agree(x, m, q, z)
  BY <1>1, <1>2, <1>7, AgreeParts, Zenon
<1> QED BY <1>7, <1>11, <1>12, <1>13, Zenon DEF Agree

-----------------------------------------------------------------------------
(* The invariant of the receiver is kept.                                  *)
LEMMA ReadingStart == Init => Reading
<1> SUFFICES ASSUME Init PROVE Reading
  OBVIOUS
<1>1. /\ bytes = << >> /\ decoded = << >> /\ offered = << >> /\ threw = FALSE /\ inObject = FALSE
  BY DEF Init
<1>2. Len(bytes) = 0 /\ Len(decoded) = 0 /\ IsPrefix(decoded, offered)
  <2>1. << >> \in Seq(Byte) /\ << >> \o << >> = << >> /\ Len(<< >>) = 0
    OBVIOUS
  <2>2. IsPrefix(<< >>, << >> \o << >>)
    BY <2>1, PrefixOfConcat
  <2> QED BY <1>1, <2>1, <2>2, Zenon
<1>3. Shape
  BY <1>2 DEF Shape, Plain
<1>4. Inert /\ Ordered /\ ThrowsOnlyOn
  BY <1>1, <1>2, Zenon DEF Inert, Ordered, ThrowsOnlyOn
<1> QED BY <1>3, <1>4, FlowStart DEF Reading

LEMMA ShapeByte ==
  ASSUME IType, Shape, NEW b \in Byte, Unsent, Decoded(b)
  PROVE  Shape'
<1>1. codec' = codec /\ codec \in Codec /\ bytes \in Seq(Byte) /\ decoded \in Seq(Seq(Byte))
  BY DEF Unsent, IType, Set, Buffers
<1>2. Append(bytes, b) \in Seq(Byte) /\ Len(Append(bytes, b)) = Len(bytes) + 1
      /\ Append(bytes, b)[Len(bytes) + 1] = b
      /\ \A i \in 1..Len(bytes) : Append(bytes, b)[i] = bytes[i]
  BY <1>1
<1>3. PICK n, x : /\ n = Len(bytes) /\ x = Append(bytes, b)
  OBVIOUS
<1>4. /\ n \in Nat /\ Len(x) = n + 1 /\ x[n + 1] = b /\ \A i \in 1..n : x[i] = bytes[i]
      /\ \A i \in 1..Len(x) : i \in 1..n \/ i = n + 1
  BY <1>1, <1>2, <1>3
<1>5. Plain(codec, << >>)
  <2>1. Len(<< >>) = 0
    OBVIOUS
  <2> QED BY <2>1 DEF Plain
<1>6. \A i \in 1..n : /\ codec = "stomp" => bytes[i] # Caret
                      /\ codec \in {"line", "ascii"} => bytes[i] # Newline
  BY <1>3 DEF Shape, Plain
<1>7. ASSUME decoded' = decoded, Plain(codec, bytes') PROVE Shape'
  BY <1>1, <1>7 DEF Shape, Plain
<1>13. ASSUME NEW m \in Seq(Byte), bytes' = << >>, decoded' = Append(decoded, m), Whole(codec, m)
       PROVE  Shape'
  <2>3. \A i \in 1..Len(decoded') : Whole(codec, decoded'[i])
    <3>1. \A i \in 1..Len(decoded) : Whole(codec, decoded[i])
      BY DEF Shape
    <3>2. PICK d, k : d = decoded' /\ k = Len(decoded)
      OBVIOUS
    <3>3. /\ k \in Nat /\ Len(d) = k + 1 /\ d[k + 1] = m /\ \A i \in 1..k : d[i] = decoded[i]
          /\ \A i \in 1..Len(d) : i \in 1..k \/ i = k + 1
      BY <1>1, <1>13, <3>2
    <3>4. ASSUME NEW i \in 1..Len(d) PROVE Whole(codec, d[i])
      <4>1. CASE i = k + 1
        BY <1>13, <3>3, <4>1, Zenon
      <4>2. CASE i \in 1..k
        BY <3>1, <3>2, <3>3, <4>2, Zenon
      <4> QED BY <3>3, <3>4, <4>1, <4>2
    <3> QED BY <3>2, <3>4, Zenon
  <2> QED BY <1>1, <1>5, <1>13, <2>3, Zenon DEF Shape
<1>8. CASE Kept(b)
  <2>1. codec = "stomp" => b # Caret
    BY <1>8 DEF Kept
  <2>2. codec \in {"line", "ascii"} => b # Newline
    BY <1>8 DEF Kept
  <2>3. Plain(codec, x)
    BY <1>4, <1>6, <2>1, <2>2 DEF Plain
  <2> QED BY <1>3, <1>7, <1>8, <2>3, Zenon DEF Kept
<1>9. CASE Skipped(b)
  <2>1. bytes' = bytes /\ decoded' = decoded
    BY <1>9 DEF Skipped
  <2> QED BY <1>7, <2>1, Zenon DEF Shape
<1>10. ASSUME NEW m \in Seq(Byte), Emitted(b, m) PROVE Shape'
  <2>1. bytes' = << >> /\ decoded' = Append(decoded, m)
    BY <1>10, Zenon DEF Emitted
  <2>2. Whole(codec, m)
    <3>1. CASE codec = "stomp"
      <4>1. m = bytes
        BY <1>10, <3>1 DEF Emitted
      <4> QED BY <1>3, <1>6, <3>1, <4>1 DEF Whole
    <3>2. CASE codec = "line"
      <4>1. m = bytes
        BY <1>10, <3>2 DEF Emitted
      <4> QED BY <1>3, <1>6, <3>2, <4>1 DEF Whole
    <3>3. CASE codec = "ascii"
      <4>1. m = x /\ b = Newline
        BY <1>3, <1>10, <3>3 DEF Emitted
      <4>2. m # << >>
        <5>1. Len(m) # 0 /\ Len(<< >>) = 0
          BY <1>4, <4>1
        <5> QED BY <5>1, Zenon
      <4>3. \A i \in 1..Len(m) : m[i] = Newline <=> i = Len(m)
        BY <1>4, <1>6, <3>3, <4>1
      <4> QED BY <3>3, <4>2, <4>3 DEF Whole
    <3>4. CASE codec = "object"
      BY <3>4 DEF Whole
    <3> QED BY <1>1, <3>1, <3>2, <3>3, <3>4 DEF Codec
  <2> QED BY <1>13, <2>1, <2>2
<1>11. CASE Measured(b)
  <2>1. bytes' = << >> /\ decoded' = decoded
    BY <1>11, Zenon DEF Measured
  <2> QED BY <1>5, <1>7, <2>1, Zenon
<1>12. CASE Thrown(b)
  <2>1. decoded' = decoded
    BY <1>12 DEF Thrown
  <2>2. CASE bytes' = bytes
    BY <1>7, <2>1, <2>2, Zenon DEF Shape
  <2>3. CASE codec = "object"
    <3>1. Plain(codec, bytes')
      BY <2>3 DEF Plain
    <3> QED BY <1>7, <2>1, <3>1, Zenon
  <2> QED BY <1>12, <2>2, <2>3 DEF Thrown
<1>14. CASE Refused(b)
  <2>1. codec = "stomp" /\ bytes' = << >> /\ decoded' = Append(decoded, bytes)
    BY <1>14 DEF Refused
  <2>2. Whole(codec, bytes)
    BY <1>3, <1>6, <2>1 DEF Whole
  <2> QED BY <1>1, <1>13, <2>1, <2>2
<1> QED BY <1>8, <1>9, <1>10, <1>11, <1>12, <1>14 DEF Decoded

LEMMA InertByte ==
  ASSUME IType, Flow, Ordered, Inert, NEW b \in Byte, b = Head(chunk), chunk # << >>, Unsent,
         Decoded(b)
  PROVE  Inert'
<1>1. codec' = codec /\ bytes \in Seq(Byte) /\ room \in Nat /\ (inObject => codec = "object")
  BY DEF Unsent, IType, Buffers
<1>2. Len(bytes) \in Nat /\ Len(Append(bytes, b)) = Len(bytes) + 1 /\ Len(<< >>) = 0
  BY <1>1
<1>3. CASE Thrown(b)
  <2>1. threw' /\ room' = room /\ inObject' = inObject
    BY <1>3 DEF Thrown
  <2>2. CASE Full /\ (codec = "stomp" \/ inObject) /\ bytes' = bytes
    BY <1>1, <2>1, <2>2 DEF Inert, Full
  <2>3. CASE inObject /\ Len(bytes) + 1 = room /\ bytes' = Append(bytes, b)
    <3>1. Len(bytes') = room
      BY <1>2, <2>3
    <3> QED BY <1>1, <2>1, <2>3, <3>1 DEF Inert, Full
  <2> QED BY <1>3, <2>2, <2>3, Zenon DEF Thrown
<1>4. CASE ~Thrown(b)
  <2>1. ~threw
    BY <1>4, ThrownAgain DEF Again
  <2>2. threw' = threw
    BY <1>4 DEF Decoded, Kept, Skipped, Emitted, Measured, Refused, Calm
  <2>3. ~threw'
    BY <2>1, <2>2
  <2>4. inObject' => room' \in 1..MaxInt /\ Len(bytes') < room'
    <3>1. CASE Kept(b)
      <4>1. SUFFICES ASSUME inObject' PROVE room' \in 1..MaxInt /\ Len(bytes') < room'
        OBVIOUS
      <4>2. inObject /\ codec = "object" /\ bytes' = Append(bytes, b)
        BY <1>1, <3>1, <4>1 DEF Kept
      <4>3. room' = room /\ Len(bytes) + 1 # room
        BY <3>1, <4>2 DEF Kept
      <4>4. room \in 1..MaxInt /\ Len(bytes) < room
        BY <2>1, <4>2 DEF Inert
      <4>5. Len(bytes') = Len(bytes) + 1
        BY <1>2, <4>2
      <4> QED BY <1>1, <1>2, <4>3, <4>4, <4>5
    <3>2. CASE Skipped(b)
      BY <1>1, <3>2 DEF Skipped
    <3>3. ASSUME NEW m \in Seq(Byte), Emitted(b, m) PROVE ~inObject'
      BY <1>1, <3>3 DEF Emitted
    <3>4. CASE Measured(b)
      <4>1. /\ codec = "object" /\ ~inObject /\ Len(bytes) + 1 = room
            /\ bytes' = << >> /\ room' = Length(Append(bytes, b))
        BY <3>4 DEF Measured
      <4>2. codec \in Framed
        BY <4>1 DEF Framed
      <4>3. PICK m : Within(b, m)
        BY <2>1, <4>2, ByteWithin, Zenon
      <4>4. room' = Len(m) /\ Len(m) \in 1..MaxInt
        BY <4>1, <4>3, LengthIs
      <4>5. MaxInt \in Nat
        BY SMT DEF MaxInt
      <4> QED BY <1>2, <4>1, <4>4, <4>5
    <3>5. CASE Refused(b)
      BY <1>1, <3>5 DEF Refused
    <3> QED BY <1>4, <3>1, <3>2, <3>3, <3>4, <3>5 DEF Decoded
  <2> QED BY <2>3, <2>4 DEF Inert
<1> QED BY <1>3, <1>4

LEMMA PrefixKept ==
  ASSUME NEW S, NEW s \in Seq(S), NEW t \in Seq(S), NEW m \in S, IsPrefix(s, t)
  PROVE  IsPrefix(s, Append(t, m))
<1>1. PICK v \in Seq(S) : t = s \o v
  BY ConcatOfPrefix
<1>2. PICK e : e = <<m>> /\ e \in Seq(S)
  <2>1. <<m>> \in Seq(S)
    OBVIOUS
  <2> QED BY <2>1, Zenon
<1>3. Append(t, m) = t \o e
  BY <1>2, AppendIsConcat
<1>4. t \o e = s \o (v \o e)
  BY <1>1, <1>2, ConcatAssociative
<1>5. v \o e \in Seq(S)
  BY <1>1, <1>2, ConcatProperties
<1>6. IsPrefix(s, s \o (v \o e))
  BY <1>5, PrefixOfConcat
<1> QED BY <1>3, <1>4, <1>6

LEMMA OrderedByte ==
  ASSUME IType, Flow, Shape, Ordered, Inert, NEW b \in Byte, b = Head(chunk), chunk # << >>,
         Unsent, Decoded(b)
  PROVE  Ordered'
<1>1. codec' = codec /\ offered' = offered
  BY DEF Unsent
<1>2. CASE decoded' = decoded
  BY <1>1, <1>2 DEF Ordered
<1>3. ASSUME NEW n \in Seq(Byte), Emitted(b, n), codec \in Framed
      PROVE  IsPrefix(decoded', offered)
  <2>1. ~threw
    <3>1. codec # "stomp" /\ (codec = "object" => Len(bytes) + 1 = room)
      BY <1>3 DEF Emitted, Framed
    <3> QED BY <3>1 DEF Inert, Full, IType, Buffers
  <2>2. PICK m : Within(b, m)
    BY <1>3, <2>1, ByteWithin, Zenon
  <2>3. m = n
    <3>1. CASE codec = "line"
      <4>1. b = Newline /\ n = bytes
        BY <1>3, <3>1 DEF Emitted
      <4> QED BY <2>2, <3>1, <4>1, LineIs
    <3>2. CASE codec = "object"
      <4>1. inObject /\ Len(bytes) + 1 = room /\ n = Append(bytes, b)
        BY <1>3, <3>2 DEF Emitted
      <4> QED BY <2>1, <2>2, <3>2, <4>1, ObjectIs
    <3> QED BY <1>3, <3>1, <3>2 DEF Framed
  <2>4. PICK xs : xs \in Seq(Messages[codec]) /\ offered = Append(decoded, n) \o xs
    BY <2>2, <2>3, Zenon DEF Within
  <2>5. codec \in Codec /\ decoded \in Seq(Seq(Byte))
    BY DEF IType, Set, Buffers
  <2>6. xs \in Seq(Seq(Byte)) /\ Append(decoded, n) \in Seq(Seq(Byte))
    <3>1. Messages[codec] \subseteq Seq(Byte)
      BY <2>5, FramingAssumption
    <3>2. PICK S : S = Messages[codec]
      OBVIOUS
    <3>3. xs \in Seq(S) /\ S \subseteq Seq(Byte)
      BY <2>4, <3>1, <3>2, Zenon
    <3>4. xs \in Seq(Seq(Byte))
      BY <3>3, SeqMonotonic, Zenon
    <3>5. Append(decoded, n) \in Seq(Seq(Byte))
      BY <2>5
    <3> QED BY <3>4, <3>5
  <2>7. IsPrefix(Append(decoded, n), Append(decoded, n) \o xs)
    BY <2>6, PrefixOfConcat
  <2>8. decoded' = Append(decoded, n)
    BY <1>3, Zenon DEF Emitted
  <2> QED BY <2>4, <2>7, <2>8, Zenon
<1>4. ASSUME NEW n \in Seq(Byte), Emitted(b, n) PROVE Ordered'
  <2>1. codec \in Framed => IsPrefix(decoded', offered)
    BY <1>3, <1>4
  <2> QED BY <1>1, <2>1 DEF Ordered, Framed
<1>5. Kept(b) \/ Skipped(b) \/ Measured(b) \/ Thrown(b) => decoded' = decoded
  BY DEF Kept, Skipped, Measured, Thrown
<1>6. CASE Refused(b)
  BY <1>1, <1>6 DEF Refused, Ordered
<1> QED BY <1>2, <1>4, <1>5, <1>6 DEF Decoded

(* Where the parts of a sequence are.                                      *)
Placed(s, t, m, n) ==
  /\ s \o t \in Seq(Byte) /\ Len(s \o t) = m + n
  /\ \A j \in 1..m : (s \o t)[j] = s[j]
  /\ \A j \in 1..n : (s \o t)[m + j] = t[j]

LEMMA PlacedParts ==
  ASSUME NEW s \in Seq(Byte), NEW t \in Seq(Byte)
  PROVE  Placed(s, t, Len(s), Len(t))
<1>1. \A j \in 1..Len(t) : (s \o t)[Len(s) + j] = t[j]
  OBVIOUS
<1>2. \A j \in 1..Len(s) : (s \o t)[j] = s[j]
  OBVIOUS
<1>3. s \o t \in Seq(Byte) /\ Len(s \o t) = Len(s) + Len(t)
  OBVIOUS
<1> QED BY <1>1, <1>2, <1>3, Zenon DEF Placed

(* The full buffer of stomp was written after the messages decoded, with   *)
(* the byte it has no room for.                                            *)
LEMMA LongMessage ==
  ASSUME IType, Flow, Shape, ~threw, codec = "stomp", Full, NEW b \in Byte, b = Head(chunk),
         chunk # << >>
  PROVE  \E i \in 1..(Len(written) - Room["stomp"]) :
           \A j \in i..(i + Room["stomp"] - 1) : written[j] # Caret
<1>1. PICK t, u, r, q : /\ t \in Seq(Byte) /\ Parsed(t) /\ u = Tail(chunk) \o wire
                        /\ Ahead(written, Stream(codec, offered), t \o <<b>>, u, r, q)
  BY ByteAhead, Zenon DEF AtByte
<1>0. PICK p, s \in Seq(Byte) : t = p \o s /\ Divided(s)
  BY <1>1, Zenon DEF Parsed
<1>2. PICK a, e, c, x : e = AllTaken(codec, Recent) /\ a = p \o e /\ c = bytes /\ x = <<b>>
  OBVIOUS
<1>14. e \in Seq(Byte) /\ c \in Seq(Byte) /\ x \in Seq(Byte) /\ Len(x) = 1
  <2>1. /\ codec \in Codec /\ Recent \in Seq(Seq(Byte)) /\ bytes \in Seq(Byte)
        /\ << >> \in Seq(Byte)
    BY RecentType DEF IType, Set, Buffers
  <2>2. <<b>> \in Seq(Byte) /\ Len(<<b>>) = 1
    OBVIOUS
  <2> QED BY <1>2, <2>1, <2>2, AllTakenNext, Zenon
<1>15. Joins(p, e, c)
  BY <1>0, <1>14, Regroup, Zenon
<1>3. a \in Seq(Byte) /\ c \in Seq(Byte) /\ x \in Seq(Byte) /\ Len(x) = 1
  BY <1>2, <1>14, <1>15, Zenon DEF Joins
<1>4. t = a \o c
  <2>1. codec # "ascii" /\ codec # "object"
    OBVIOUS
  <2>2. Seen(codec, s) = s /\ Header = << >>
    BY <2>1, Zenon DEF Seen, Header
  <2>3. << >> \o c = c
    BY <1>3, ConcatEmptySeq
  <2>4. s = e \o c
    BY <1>0, <1>2, <2>2, <2>3, Zenon DEF Divided
  <2> QED BY <1>0, <1>2, <1>15, <2>4, Zenon DEF Joins
<1>5. PICK z : z \in Seq(Byte) /\ written = (t \o x) \o z
  <2>1. /\ u \in Seq(Byte) /\ r \in Seq(Byte) /\ t \o x \in Seq(Byte)
        /\ written = (t \o x) \o (u \o r)
    BY <1>1, <1>2, Zenon DEF Ahead
  <2>2. Joins(t, u, r)
    BY <1>1, <2>1, Regroup, Zenon
  <2> QED BY <2>1, <2>2, Zenon DEF Joins
<1>6. PICK k, n, l : k = Len(a) /\ n = Len(c) /\ l = Len(z)
  OBVIOUS
<1>7. k \in Nat /\ n \in Nat /\ l \in Nat /\ n = Room["stomp"]
  <2>1. Len(bytes) = room /\ room = Room["stomp"]
    BY DEF Full, IType, Buffers
  <2> QED BY <1>2, <1>3, <1>5, <1>6, <2>1
<1>8. t \in Seq(Byte) /\ Len(t) = k + n /\ \A j \in 1..n : t[k + j] = c[j]
  <2>1. Placed(a, c, k, n)
    BY <1>3, <1>6, PlacedParts, Zenon
  <2> QED BY <1>4, <2>1, Zenon DEF Placed
<1>9. PICK y : y = t \o x
  OBVIOUS
<1>10. y \in Seq(Byte) /\ Len(y) = k + n + 1 /\ \A j \in 1..(k + n) : y[j] = t[j]
  <2>1. Placed(t, x, k + n, 1)
    BY <1>3, <1>8, PlacedParts, Zenon
  <2> QED BY <1>9, <2>1, Zenon DEF Placed
<1>11. Len(written) = k + n + 1 + l /\ \A j \in 1..(k + n + 1) : written[j] = y[j]
  <2>1. Placed(y, z, k + n + 1, l)
    BY <1>5, <1>6, <1>10, PlacedParts, Zenon
  <2> QED BY <1>5, <1>9, <2>1, Zenon DEF Placed
<1>12. \A j \in 1..n : c[j] # Caret
  BY <1>2, <1>6 DEF Shape, Plain
<1>13. \A j \in (k + 1)..(k + n) : written[j] # Caret
  <2> TAKE j \in (k + 1)..(k + n)
  <2>1. j \in Int /\ j - k \in 1..n /\ j \in 1..(k + n) /\ j \in 1..(k + n + 1) /\ k + (j - k) = j
    BY <1>7
  <2>2. t[k + (j - k)] = c[j - k] /\ c[j - k] # Caret
    BY <1>8, <1>12, <2>1, Zenon
  <2>3. written[j] = t[j]
    BY <1>10, <1>11, <2>1, Zenon
  <2> QED BY <2>1, <2>2, <2>3, Zenon
<1>16. k + 1 \in 1..(Len(written) - Room["stomp"]) /\ (k + 1) + Room["stomp"] - 1 = k + n
  BY <1>7, <1>11
<1> QED BY <1>13, <1>16

LEMMA ThrowsByte ==
  ASSUME IType, Flow, Shape, Ordered, Inert, ThrowsOnlyOn, NEW b \in Byte, b = Head(chunk),
         chunk # << >>, Unsent, Decoded(b)
  PROVE  ThrowsOnlyOn'
<1>1. UNCHANGED <<codec, offered, written>>
  BY DEF Unsent
<1>2. CASE threw
  BY <1>1, <1>2, Zenon DEF ThrowsOnlyOn
<1>3. CASE ~threw /\ Thrown(b)
  <2>1. CASE Full /\ codec = "stomp"
    BY <1>1, <1>3, <2>1, LongMessage, Zenon DEF ThrowsOnlyOn
  <2>2. codec = "object" => ~(inObject /\ Full)
    BY <1>3 DEF Inert, Full, IType, Buffers
  <2>3. CASE codec = "object" /\ inObject /\ Len(bytes) + 1 = room /\ Append(bytes, b) \in Unknown
    <3>1. codec \in Framed
      BY <2>3 DEF Framed
    <3>2. PICK m : Within(b, m)
      BY <1>3, <3>1, ByteWithin, Zenon
    <3>3. m \in Unknown
      BY <1>3, <2>3, <3>2, ObjectIs
    <3>4. PICK xs : xs \in Seq(Messages[codec]) /\ offered = Append(decoded, m) \o xs
      BY <3>2, Zenon DEF Within
    <3>5. decoded \in Seq(Seq(Byte)) /\ m \in Seq(Byte)
      BY <3>2, MessageBytes DEF IType, Buffers
    <3>6. PICK d : d = Append(decoded, m)
      OBVIOUS
    <3>7. d \in Seq(Seq(Byte)) /\ Len(d) = Len(decoded) + 1 /\ d[Len(decoded) + 1] = m
          /\ Len(decoded) \in Nat
      BY <3>5, <3>6
    <3>8. xs \in Seq(Seq(Byte))
      <4>1. Messages[codec] \subseteq Seq(Byte)
        BY <2>3, FramingAssumption DEF Codec
      <4>2. PICK S : S = Messages[codec]
        OBVIOUS
      <4>3. xs \in Seq(S) /\ S \subseteq Seq(Byte)
        BY <3>4, <4>1, <4>2, Zenon
      <4> QED BY <4>3, SeqMonotonic, Zenon
    <3>9. Len(decoded) + 1 \in DOMAIN offered /\ offered[Len(decoded) + 1] = m
      BY <3>4, <3>6, <3>7, <3>8
    <3> QED BY <1>1, <2>3, <3>3, <3>9, Zenon DEF ThrowsOnlyOn
  <2>4. inObject => codec = "object"
    BY DEF IType, Buffers
  <2> QED BY <1>3, <2>1, <2>2, <2>3, <2>4, Zenon DEF Thrown
<1>4. CASE ~threw /\ ~Thrown(b)
  <2>1. threw' = threw
    BY <1>4 DEF Decoded, Kept, Skipped, Emitted, Measured, Refused, Calm
  <2> QED BY <1>4, <2>1 DEF ThrowsOnlyOn
<1> QED BY <1>2, <1>3, <1>4

LEMMA ThrowsWrite ==
  ASSUME IType, ThrowsOnlyOn, UNCHANGED <<codec, offered, threw>>, NEW x \in Seq(Byte),
         written' = written \o x
  PROVE  ThrowsOnlyOn'
<1>1. SUFFICES ASSUME threw, codec = "stomp"
               PROVE  \E i \in 1..(Len(written') - Room["stomp"]) :
                        \A j \in i..(i + Room["stomp"] - 1) : written'[j] # Caret
  BY Zenon DEF ThrowsOnlyOn
<1>2. PICK n : n = Room["stomp"]
  OBVIOUS
<1>3. n \in Nat
  BY <1>2, FramingAssumption DEF Codec
<1>4. PICK i \in 1..(Len(written) - n) : \A j \in i..(i + n - 1) : written[j] # Caret
  <2>1. codec # "object"
    BY <1>1
  <2> QED BY <1>1, <1>2, <2>1, Zenon DEF ThrowsOnlyOn
<1>5. /\ written \in Seq(Byte) /\ Len(written) \in Nat /\ Len(x) \in Nat
      /\ Len(written') = Len(written) + Len(x)
      /\ \A j \in 1..Len(written) : written'[j] = written[j]
  BY DEF IType, Carries
<1>6. i \in 1..(Len(written') - n) /\ \A j \in i..(i + n - 1) : j \in 1..Len(written)
  BY <1>3, <1>4, <1>5
<1>7. \A j \in i..(i + n - 1) : written'[j] # Caret
  BY <1>4, <1>5, <1>6, Zenon
<1> QED BY <1>2, <1>6, <1>7, Zenon

LEMMA ReadingStep ==
  ASSUME IType, Sending, Reading, [Next]_vars, IType', Sending'
  PROVE  Reading'
<1>1. Flow /\ Shape /\ Inert /\ Ordered /\ ThrowsOnlyOn
  BY DEF Reading
<1>2. Flow'
  BY <1>1, FlowStep
<1>3. ASSUME NEW m \in Messages[codec], Offer(m) PROVE Reading'
  <2>1. /\ UNCHANGED <<codec, written, receiver>> /\ offered' = Append(offered, m)
    BY <1>3 DEF Offer, setup, net
  <2>2. Shape' /\ Inert'
    BY <1>1, <2>1 DEF Shape, Plain, Inert, Full, receiver, decoder
  <2>3. codec \in Codec /\ decoded \in Seq(Seq(Byte)) /\ offered \in Seq(Messages[codec])
    BY DEF IType, Set, Buffers, Sends
  <2>4. offered \in Seq(Seq(Byte)) /\ m \in Seq(Byte)
    <3>1. Messages[codec] \subseteq Seq(Byte)
      BY <2>3, FramingAssumption
    <3>2. PICK S : S = Messages[codec]
      OBVIOUS
    <3>3. offered \in Seq(S) /\ S \subseteq Seq(Byte)
      BY <2>3, <3>1, <3>2, Zenon
    <3> QED BY <3>1, <3>3, SeqMonotonic, Zenon
  <2>5. IsPrefix(decoded, offered) => IsPrefix(decoded, offered')
    BY <2>1, <2>3, <2>4, PrefixKept
  <2>6. Ordered'
    <3>1. decoded' = decoded /\ codec' = codec
      BY <2>1 DEF receiver, decoder
    <3> QED BY <1>1, <2>5, <3>1, Zenon DEF Ordered
  <2>7. ThrowsOnlyOn'
    <3>1. \A i \in DOMAIN offered : i \in DOMAIN offered' /\ offered'[i] = offered[i]
      BY <2>1, <2>3
    <3>2. threw' = threw /\ codec' = codec /\ written' = written
      BY <2>1 DEF receiver
    <3> QED BY <1>1, <3>1, <3>2, Zenon DEF ThrowsOnlyOn
  <2> QED BY <1>2, <2>2, <2>6, <2>7 DEF Reading
<1>4. CASE WriteSome
  <2>1. PICK n \in 1..(Len(calls[1]) - tmp) : Take(tmp, n)
    BY <1>4 DEF WriteSome
  <2>2. PICK x : x = SubSeq(calls[1], tmp + 1, tmp + n)
    OBVIOUS
  <2>3. UNCHANGED <<codec, offered, receiver>> /\ written' = written \o x
    BY <2>1, <2>2 DEF Take, setup
  <2>4. x \in Seq(Byte)
    <3>1. calls # << >> /\ calls \in Seq(Seq(Byte)) /\ Len(calls) <= 2 /\ tmp \in Nat
      BY <1>4 DEF WriteSome, IType, Sends
    <3>2. PICK a : a = calls[1]
      OBVIOUS
    <3>3. a \in Seq(Byte)
      BY <3>1, <3>2, FlattenFirst, Zenon
    <3>4. n \in 1..(Len(a) - tmp)
      BY <2>1, <3>2
    <3>5. SubSeq(a, tmp + 1, tmp + n) \in Seq(Byte)
      BY <3>1, <3>3, <3>4
    <3> QED BY <2>2, <3>2, <3>5
  <2>5. ThrowsOnlyOn'
    BY <1>1, <2>3, <2>4, ThrowsWrite DEF receiver
  <2>6. Shape' /\ Inert' /\ Ordered'
    BY <1>1, <2>3 DEF Shape, Plain, Inert, Full, Ordered, receiver, decoder
  <2> QED BY <1>2, <2>5, <2>6 DEF Reading
<1>5. CASE UNCHANGED <<codec, offered, written, decoder, threw>>
  <2>1. Shape' /\ Inert' /\ Ordered'
    BY <1>1, <1>5 DEF Shape, Plain, Inert, Full, Ordered, decoder
  <2>2. ThrowsOnlyOn'
    BY <1>1, <1>5, Zenon DEF ThrowsOnlyOn
  <2> QED BY <1>2, <2>1, <2>2 DEF Reading
<1>6. WriteDone \/ WriteFails \/ Break \/ Read \/ End \/ UNCHANGED vars
        => UNCHANGED <<codec, offered, written, decoder, threw>>
  BY DEF WriteDone, WriteFails, Break, Read, End, vars, setup, sender, net, receiver
<1>7. CASE Decode
  <2>1. PICK b : b \in Byte /\ chunk # << >> /\ Unsent /\ b = Head(chunk) /\ Decoded(b)
    BY <1>7, DecodeIs, Zenon
  <2>2. Shape'
    BY <1>1, <2>1, ShapeByte
  <2>3. Inert'
    BY <1>1, <2>1, InertByte
  <2>4. Ordered'
    BY <1>1, <2>1, OrderedByte
  <2>5. ThrowsOnlyOn'
    BY <1>1, <2>1, ThrowsByte
  <2> QED BY <1>2, <2>2, <2>3, <2>4, <2>5 DEF Reading
<1> QED BY <1>3, <1>4, <1>5, <1>6, <1>7 DEF Next, Receiver

LEMMA ReadingDecodes == IType /\ Reading => DecodesStream
<1> SUFFICES ASSUME IType, Reading PROVE DecodesStream
  OBVIOUS
<1>1. PICK t, v : t \in Seq(Byte) /\ Parsed(t) /\ v \in Seq(Byte) /\ written = t \o v
  BY Zenon DEF Reading, Flow
<1>2. PICK p, s \in Seq(Byte) : t = p \o s /\ Len(p) = cut /\ Divided(s)
  BY <1>1, Zenon DEF Parsed
<1>3. PICK u : u = s \o v /\ u \in Seq(Byte) /\ After(written, cut) = u
  <2>1. Joins(p, s, v)
    BY <1>1, <1>2, Regroup, Zenon
  <2>2. PICK u : u = s \o v /\ u \in Seq(Byte) /\ written = p \o u
    BY <1>1, <1>2, <2>1, Zenon DEF Joins
  <2>3. After(p \o u, Len(p)) = u
    BY <1>2, <2>2, AfterConcat, Zenon
  <2> QED BY <1>2, <2>2, <2>3, Zenon
<1>4. PICK a, h : a = AllTaken(codec, Recent) /\ h = Header \o bytes
  OBVIOUS
<1>5. a \in Seq(Byte) /\ h \in Seq(Byte)
  <2>1. codec \in Codec /\ Recent \in Seq(Seq(Byte)) /\ << >> \in Seq(Byte)
    BY RecentType DEF IType, Set
  <2> QED BY <1>4, <2>1, AllTakenNext, HeaderType, Zenon
<1>6. Seen(codec, s) = a \o h
  BY <1>2, <1>4, Zenon DEF Divided
<1>7. PICK z : z \in Seq(Byte) /\ Seen(codec, u) = (a \o h) \o z
  <2>1. \E z \in Seq(Byte) : Seen(codec, s \o v) = Seen(codec, s) \o z
    BY <1>1, <1>2, SeenFirst
  <2> QED BY <1>3, <1>6, <2>1, Zenon
<1>8. Joins(a, h, z)
  BY <1>5, <1>7, Regroup, Zenon
<1>9. PICK w : w = h \o z /\ w \in Seq(Byte) /\ Seen(codec, u) = a \o w
  BY <1>7, <1>8, Zenon DEF Joins
<1>10. IsPrefix(a, a \o w)
  BY <1>5, <1>9, PrefixOfConcat
<1>11. IsPrefix(AllTaken(codec, After(decoded, since)), Seen(codec, After(written, cut)))
  BY <1>3, <1>4, <1>9, <1>10, Zenon DEF Recent
<1> QED BY <1>11 DEF Reading, Shape, Ordered, DecodesStream

LEMMA ReadingNext == IType /\ Sending /\ Reading /\ [Next]_vars /\ IType' /\ Sending' => Reading'
BY ReadingStep

LEMMA ReadingThrows == Reading => ThrowsOnlyOn
BY DEF Reading

(* However writes and reads cut the stream, and wherever it breaks, the    *)
(* receiver decodes whole messages from it; where process throws, the rest *)
(* of the chunk is left out, and from the byte read next the messages are  *)
(* again one after the other and without a gap.  Lines and objects are     *)
(* those that were sent, in order.                                         *)
THEOREM DecodesStreamAlways == Spec => []DecodesStream
BY TypeStart, TypeStep, SendingStart, SendingStep, ReadingStart, ReadingNext, ReadingDecodes,
   PTL DEF Spec

(* The decoder throws only on a message with more bytes than the buffer of *)
(* the STOMP server has room for, or on an object that was sent and cannot *)
(* be deserialized.                                                        *)
THEOREM ThrowsOnlyOnAlways == Spec => []ThrowsOnlyOn
BY TypeStart, TypeStep, SendingStart, SendingStep, ReadingStart, ReadingNext, ReadingThrows,
   PTL DEF Spec

====
