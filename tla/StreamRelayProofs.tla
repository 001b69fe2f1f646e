-------------------------- MODULE StreamRelayProofs --------------------------
(***************************************************************************)
(* What a relayed call is billed, for any answer of the provider and any      *)
(* headers in front of the ones the relay looks for; what the client reads   *)
(* of it in the dialect it asked for, whoever gives up and wherever; and that *)
(* conversations and answers of any length are translated as they were said.  *)
(***************************************************************************)
EXTENDS StreamRelay, SequenceTheorems, FiniteSetTheorems, PartialSumsTheorems, TLAPS

(***************************************************************************)
(* The header parser, for blocks of any length.  HeadersFrom is a recursive   *)
(* function: it exists because a header ends behind the place it starts at.   *)
(***************************************************************************)
Blob == Seq(Nat)

LEMMA WidthIsNat ==
  ASSUME NEW b \in Blob, NEW t \in 0..9, NEW v \in Nat \ {0}
  PROVE  ValueWidth(b, t, v) \in Nat
<1>1. CASE t \in LengthPrefixed
  <2>1. v + 1 <= Len(b) => b[v] \in Nat /\ b[v + 1] \in Nat
    BY DEF Blob
  <2>2. v + 1 <= Len(b) => 256 * b[v] + b[v + 1] \in Nat
    BY <2>1
  <2> QED BY <1>1, <2>2 DEF ValueWidth
<1>2. CASE t \notin LengthPrefixed
  <2>1. FixedWidth(t) \in Nat
    BY <1>2 DEF FixedWidth, LengthPrefixed, BoolTypes, StringType
  <2> QED BY <1>2, <2>1 DEF ValueWidth
<1> QED BY <1>1, <1>2

LEMMA WholeIsAhead ==
  ASSUME NEW b \in Blob, NEW i \in 1..Len(b)
  PROVE  /\ TypeAt(b, i) \in Nat /\ TypeAt(b, i) > i
         /\ WholeAt(b, i) => /\ ValueWidth(b, b[TypeAt(b, i)], TypeAt(b, i) + 1) \in Nat
                             /\ EndAt(b, i) \in Nat /\ EndAt(b, i) >= TypeAt(b, i)
                             /\ EndAt(b, i) + 1 \in (i + 1)..(Len(b) + 1)
<1>1. TypeAt(b, i) \in Nat /\ TypeAt(b, i) > i
  <2>1. b[i] \in Nat /\ i \in Nat
    BY DEF Blob
  <2> QED BY <2>1 DEF TypeAt
<1> DEFINE w == ValueWidth(b, b[TypeAt(b, i)], TypeAt(b, i) + 1)
<1>2. WholeAt(b, i) => w \in Nat
  <2>1. TypeAt(b, i) + 1 \in Nat \ {0}
    BY <1>1
  <2>2. WholeAt(b, i) => b[TypeAt(b, i)] \in 0..9
    BY DEF WholeAt
  <2> QED BY <2>1, <2>2, WidthIsNat
<1> HIDE DEF w
<1>3. EndAt(b, i) = TypeAt(b, i) + w
  BY DEF EndAt, w
<1>4. WholeAt(b, i) => EndAt(b, i) <= Len(b)
  BY DEF WholeAt
<1>5. Len(b) \in Nat
  BY DEF Blob
<1>6. WholeAt(b, i) => EndAt(b, i) \in Nat /\ EndAt(b, i) >= TypeAt(b, i) /\ EndAt(b, i) + 1 \in (i + 1)..(Len(b) + 1)
  BY <1>1, <1>2, <1>3, <1>4, <1>5
<1> QED BY <1>1, <1>2, <1>6 DEF w

\* What is read at position i when p says what is read behind it.
ReadAt(b, p, i) ==
  IF i = Len(b) + 1 THEN [ok |-> TRUE, headers |-> NoHeaders]
  ELSE IF ~WholeAt(b, i) THEN [ok |-> FALSE, headers |-> NoHeaders]
  ELSE [ok |-> p[EndAt(b, i) + 1].ok, headers |-> Overlay(p[EndAt(b, i) + 1].headers, HeaderAt(b, i))]

LEMMA HeadersExist ==
  ASSUME NEW b \in Blob
  PROVE  \E p : p = [i \in 1..(Len(b) + 1) |-> ReadAt(b, p, i)]
<1> DEFINE n == Len(b)
           Dom(k) == {i \in 1..(n + 1) : i + k >= n + 1}
           S == {k \in Nat : \E p : \A i \in Dom(k) : p[i] = ReadAt(b, p, i)}
<1>1. n \in Nat
  BY DEF Blob
<1>2. 0 \in S
  <2> DEFINE p == [i \in 1..(n + 1) |-> [ok |-> TRUE, headers |-> NoHeaders]]
  <2>1. \A i \in Dom(0) : i = n + 1
    BY <1>1
  <2>2. \A i \in Dom(0) : p[i] = ReadAt(b, p, i)
    BY <1>1, <2>1 DEF ReadAt
  <2> HIDE DEF p
  <2>3. \E q : \A i \in Dom(0) : q[i] = ReadAt(b, q, i)
    BY <2>2
  <2> QED BY <2>3
<1>3. ASSUME NEW k \in Nat, k \in S PROVE k + 1 \in S
  <2>1. PICK p : \A i \in Dom(k) : p[i] = ReadAt(b, p, i)
    BY <1>3
  <2> DEFINE q == [i \in 1..(n + 1) |-> IF i \in Dom(k) THEN p[i] ELSE ReadAt(b, p, i)]
  <2>2. ASSUME NEW i \in Dom(k + 1) PROVE q[i] = ReadAt(b, p, i)
    BY <2>1
  <2>3. ASSUME NEW i \in Dom(k + 1) PROVE ReadAt(b, q, i) = ReadAt(b, p, i)
    <3>1. CASE i = n + 1 \/ ~WholeAt(b, i)
      BY <3>1 DEF ReadAt
    <3>2. CASE i # n + 1 /\ WholeAt(b, i)
      <4>1. i \in 1..n
        BY <1>1, <3>2
      <4>2. EndAt(b, i) + 1 \in (i + 1)..(n + 1)
        BY <4>1, <3>2, WholeIsAhead
      <4>3. EndAt(b, i) + 1 \in Dom(k)
        BY <1>1, <4>1, <4>2
      <4>4. q[EndAt(b, i) + 1] = p[EndAt(b, i) + 1]
        BY <4>3
      <4> QED BY <4>4, Zenon DEF ReadAt
    <3> QED BY <3>1, <3>2
  <2> HIDE DEF q
  <2>4. \A i \in Dom(k + 1) : q[i] = ReadAt(b, q, i)
    BY <2>2, <2>3
  <2>5. \E r : \A i \in Dom(k + 1) : r[i] = ReadAt(b, r, i)
    BY <2>4
  <2> QED BY <2>5
<1> HIDE DEF S
<1>4. n \in S
  BY <1>1, <1>2, <1>3, SetInduction
<1>5. PICK p : \A i \in Dom(n) : p[i] = ReadAt(b, p, i)
  BY <1>4 DEF S
<1> DEFINE q == [i \in 1..(n + 1) |-> p[i]]
<1>6. \A i \in 1..(n + 1) : q[i] = ReadAt(b, p, i)
  BY <1>1, <1>5
<1>7. \A i \in 1..(n + 1) : ReadAt(b, p, i) = ReadAt(b, q, i)
  <2> TAKE i \in 1..(n + 1)
  <2>1. CASE i = n + 1 \/ ~WholeAt(b, i)
    BY <2>1 DEF ReadAt
  <2>2. CASE i # n + 1 /\ WholeAt(b, i)
    <3>1. i \in 1..n
      BY <1>1, <2>2
    <3>2. EndAt(b, i) + 1 \in (i + 1)..(n + 1)
      BY <3>1, <2>2, WholeIsAhead
    <3>3. q[EndAt(b, i) + 1] = p[EndAt(b, i) + 1]
      BY <1>1, <3>1, <3>2
    <3> QED BY <3>3, Zenon DEF ReadAt
  <2> QED BY <2>1, <2>2
<1>8. q = [i \in 1..(n + 1) |-> q[i]]
  OBVIOUS
<1> HIDE DEF q
<1>9. q = [i \in 1..(n + 1) |-> ReadAt(b, q, i)]
  BY <1>6, <1>7, <1>8
<1> QED BY <1>9 DEF n

LEMMA HeadersEquation ==
  ASSUME NEW b \in Blob
  PROVE  HeadersFrom(b) = [i \in 1..(Len(b) + 1) |-> ReadAt(b, HeadersFrom(b), i)]
<1>1. \E p : p = [i \in 1..(Len(b) + 1) |-> ReadAt(b, p, i)]
  BY HeadersExist
<1> QED BY <1>1, Zenon DEF HeadersFrom, ReadAt

LEMMA HeadersAt ==
  ASSUME NEW b \in Blob, NEW i \in 1..(Len(b) + 1)
  PROVE  HeadersFrom(b)[i] = ReadAt(b, HeadersFrom(b), i)
<1> DEFINE f == HeadersFrom(b)
<1>1. f = [j \in 1..(Len(b) + 1) |-> ReadAt(b, f, j)]
  BY HeadersEquation
<1> HIDE DEF f
<1> QED BY <1>1 DEF f

(***************************************************************************)
(* A block a with a block c behind it.  The headers of c are read as if a     *)
(* were not there, and those of a as if c were not there.                     *)
(***************************************************************************)
LEMMA BlocksJoined ==
  ASSUME NEW a \in Blob, NEW c \in Blob
  PROVE  /\ a \o c \in Blob /\ Len(a) \in Nat /\ Len(c) \in Nat /\ Len(a \o c) = Len(a) + Len(c)
         /\ \A i \in 1..Len(a) : (a \o c)[i] = a[i] /\ a[i] \in Nat
         /\ \A i \in 1..Len(c) : (a \o c)[Len(a) + i] = c[i] /\ c[i] \in Nat
<1>1. a \o c \in Blob /\ Len(a) \in Nat /\ Len(c) \in Nat /\ Len(a \o c) = Len(a) + Len(c)
  BY ConcatProperties DEF Blob
<1>2. \A i \in 1..Len(a) : (a \o c)[i] = a[i] /\ a[i] \in Nat
  BY <1>1, ConcatProperties DEF Blob
<1>3. ASSUME NEW i \in 1..Len(c) PROVE (a \o c)[Len(a) + i] = c[i] /\ c[i] \in Nat
  <2>1. Len(a) + i \in 1..(Len(a) + Len(c)) /\ ~(Len(a) + i <= Len(a)) /\ (Len(a) + i) - Len(a) = i
    BY <1>1
  <2>2. (a \o c)[Len(a) + i] = c[(Len(a) + i) - Len(a)]
    BY <2>1, ConcatProperties DEF Blob
  <2> QED BY <2>1, <2>2 DEF Blob
<1> QED BY <1>1, <1>2, <1>3

LEMMA SameParts ==
  ASSUME NEW s, NEW t, NEW l \in Nat, NEW m \in Nat, NEW n \in Nat,
         \A i \in m..n : t[i] \in Nat /\ s[l + i] = t[i]
  PROVE  SubSeq(s, l + m, l + n) = SubSeq(t, m, n)
<1> DEFINE p == SubSeq(s, l + m, l + n)
           q == SubSeq(t, m, n)
<1>1. \A i \in (l + m)..(l + n) : s[i] \in Nat
  <2> TAKE i \in (l + m)..(l + n)
  <2>1. i - l \in m..n /\ l + (i - l) = i
    OBVIOUS
  <2> QED BY <2>1
<1>2. p \in Seq(Nat) /\ Len(p) = (IF l + m <= l + n THEN (l + n) - (l + m) + 1 ELSE 0)
      /\ \A i \in 1..((l + n) - (l + m) + 1) : p[i] = s[(l + m) + i - 1]
  BY <1>1, l + m \in Int, l + n \in Int, SubSeqProperties
<1>3. q \in Seq(Nat) /\ Len(q) = (IF m <= n THEN n - m + 1 ELSE 0)
      /\ \A i \in 1..(n - m + 1) : q[i] = t[m + i - 1]
  BY SubSeqProperties
<1> HIDE DEF p, q
<1>4. Len(p) = Len(q)
  BY <1>2, <1>3
<1>5. ASSUME NEW i \in 1..Len(p) PROVE p[i] = q[i]
  <2>1. i \in 1..(n - m + 1) /\ i \in 1..((l + n) - (l + m) + 1) /\ m + i - 1 \in m..n /\ (l + m) + i - 1 = l + (m + i - 1)
    BY <1>3, <1>4
  <2> QED BY <1>2, <1>3, <2>1
<1>6. p = q
  BY <1>2, <1>3, <1>4, <1>5, SeqEqual
<1> QED BY <1>6 DEF p, q

LEMMA BehindHeader ==
  ASSUME NEW a \in Blob, NEW c \in Blob, NEW i \in 1..Len(c)
  PROVE  /\ TypeAt(a \o c, Len(a) + i) = Len(a) + TypeAt(c, i)
         /\ WholeAt(a \o c, Len(a) + i) <=> WholeAt(c, i)
         /\ WholeAt(c, i) => /\ EndAt(a \o c, Len(a) + i) = Len(a) + EndAt(c, i)
                             /\ HeaderAt(a \o c, Len(a) + i) = HeaderAt(c, i)
<1> DEFINE b == a \o c
           l == Len(a)
           tag == TypeAt(c, i)
<1>1. l \in Nat /\ Len(c) \in Nat /\ Len(b) = l + Len(c) /\ \A j \in 1..Len(c) : b[l + j] = c[j] /\ c[j] \in Nat
  BY BlocksJoined
<1>2. tag \in Nat /\ tag > i
  BY WholeIsAhead
<1> HIDE DEF b, l
<1>3. TypeAt(b, l + i) = l + tag
  <2>1. b[l + i] = c[i] /\ c[i] \in Nat
    BY <1>1
  <2> QED BY <1>1, <2>1 DEF TypeAt
<1> HIDE DEF tag
<1>4. l + tag <= Len(b) <=> tag <= Len(c)
  BY <1>1, <1>2
<1>5. CASE tag > Len(c)
  BY <1>1, <1>2, <1>3, <1>4, <1>5 DEF WholeAt, b, l, tag
<1>6. CASE tag <= Len(c)
  <2>1. b[l + tag] = c[tag] /\ c[tag] \in Nat
    BY <1>1, <1>2, <1>6
  <2>2. ValueWidth(b, c[tag], (l + tag) + 1) = ValueWidth(c, c[tag], tag + 1)
    <3>1. ((l + tag) + 1) + 1 <= Len(b) <=> (tag + 1) + 1 <= Len(c)
      BY <1>1, <1>2
    <3>2. (tag + 1) + 1 <= Len(c) => b[(l + tag) + 1] = c[tag + 1] /\ b[((l + tag) + 1) + 1] = c[(tag + 1) + 1]
      <4>1. (l + tag) + 1 = l + (tag + 1) /\ ((l + tag) + 1) + 1 = l + ((tag + 1) + 1)
        BY <1>1, <1>2
      <4>2. (tag + 1) + 1 <= Len(c) => tag + 1 \in 1..Len(c) /\ (tag + 1) + 1 \in 1..Len(c)
        BY <1>1, <1>2
      <4> QED BY <1>1, <4>1, <4>2
    <3> QED BY <3>1, <3>2 DEF ValueWidth
  <2> DEFINE w == ValueWidth(c, c[tag], tag + 1)
  <2>3. c[tag] \in 0..9 => w \in Nat
    BY <1>2, tag + 1 \in Nat \ {0}, WidthIsNat
  <2>4. EndAt(c, i) = tag + w /\ EndAt(b, l + i) = (l + tag) + w
    BY <1>3, <2>1, <2>2 DEF EndAt, tag
  <2> HIDE DEF w
  <2>5. WholeAt(b, l + i) <=> WholeAt(c, i)
    <3>1. c[tag] \in 0..9 => (EndAt(b, l + i) <= Len(b) <=> EndAt(c, i) <= Len(c))
      BY <1>1, <1>2, <2>3, <2>4
    <3> QED BY <1>3, <1>4, <2>1, <3>1 DEF WholeAt, tag
  <2>6. ASSUME WholeAt(c, i) PROVE EndAt(b, l + i) = l + EndAt(c, i) /\ HeaderAt(b, l + i) = HeaderAt(c, i)
    <3>1. c[tag] \in 0..9 /\ EndAt(c, i) <= Len(c)
      BY <2>6 DEF WholeAt, tag
    <3>2. EndAt(b, l + i) = l + EndAt(c, i) /\ EndAt(c, i) \in Nat
      BY <1>1, <1>2, <2>3, <2>4, <3>1
    <3>3. SubSeq(b, (l + i) + 1, (l + tag) - 1) = SubSeq(c, i + 1, tag - 1)
      <4>1. (l + i) + 1 = l + (i + 1) /\ (l + tag) - 1 = l + (tag - 1) /\ i + 1 \in Nat /\ tag - 1 \in Nat
        BY <1>1, <1>2
      <4>2. \A j \in (i + 1)..(tag - 1) : j \in 1..Len(c)
        BY <1>1, <1>2, <1>6
      <4>3. \A j \in (i + 1)..(tag - 1) : c[j] \in Nat /\ b[l + j] = c[j]
        BY <1>1, <4>2
      <4>4. SubSeq(b, l + (i + 1), l + (tag - 1)) = SubSeq(c, i + 1, tag - 1)
        BY <1>1, <4>1, <4>3, SameParts
      <4> QED BY <4>1, <4>4
    <3>4. SubSeq(b, (l + tag) + 3, EndAt(b, l + i)) = SubSeq(c, tag + 3, EndAt(c, i))
      <4>1. (l + tag) + 3 = l + (tag + 3) /\ tag + 3 \in Nat
        BY <1>1, <1>2
      <4>2. \A j \in (tag + 3)..EndAt(c, i) : j \in 1..Len(c)
        BY <1>1, <1>2, <3>1, <3>2
      <4>3. \A j \in (tag + 3)..EndAt(c, i) : c[j] \in Nat /\ b[l + j] = c[j]
        BY <1>1, <4>2
      <4>4. SubSeq(b, l + (tag + 3), l + EndAt(c, i)) = SubSeq(c, tag + 3, EndAt(c, i))
        <5> DEFINE d == tag + 3
                   e == EndAt(c, i)
        <5>1. l \in Nat /\ d \in Nat /\ e \in Nat /\ \A j \in d..e : c[j] \in Nat /\ b[l + j] = c[j]
          BY <1>1, <3>2, <4>1, <4>3
        <5> HIDE DEF d, e
        <5>2. SubSeq(b, l + d, l + e) = SubSeq(c, d, e)
          BY <5>1, SameParts
        <5> QED BY <5>2 DEF d, e
      <4> QED BY <3>2, <4>1, <4>4
    <3>5. HeaderAt(b, l + i) = HeaderAt(c, i)
      BY <1>3, <2>1, <3>3, <3>4, Zenon DEF HeaderAt, tag
    <3> QED BY <3>2, <3>5
  <2> QED BY <1>3, <2>5, <2>6 DEF b, l, tag
<1> QED BY <1>1, <1>2, <1>5, <1>6

LEMMA FrontHeader ==
  ASSUME NEW a \in Blob, NEW c \in Blob, NEW i \in 1..Len(a), WholeAt(a, i)
  PROVE  /\ WholeAt(a \o c, i) /\ EndAt(a \o c, i) = EndAt(a, i)
         /\ HeaderAt(a \o c, i) = HeaderAt(a, i)
<1> DEFINE b == a \o c
           tag == TypeAt(a, i)
           w == ValueWidth(a, a[tag], tag + 1)
<1>1. Len(a) \in Nat /\ Len(b) \in Nat /\ Len(b) >= Len(a) /\ \A j \in 1..Len(a) : b[j] = a[j] /\ a[j] \in Nat
  <2>1. Len(a) \in Nat /\ Len(c) \in Nat /\ Len(b) = Len(a) + Len(c) /\ \A j \in 1..Len(a) : b[j] = a[j] /\ a[j] \in Nat
    BY BlocksJoined
  <2> HIDE DEF b
  <2> QED BY <2>1
<1>2. tag \in Nat /\ tag > i /\ w \in Nat /\ EndAt(a, i) = tag + w /\ EndAt(a, i) \in Nat
  BY WholeIsAhead DEF EndAt
<1>3. tag <= Len(a) /\ a[tag] \in 0..9 /\ EndAt(a, i) <= Len(a)
  BY DEF WholeAt
<1> HIDE DEF b
<1>4. TypeAt(b, i) = tag
  BY <1>1 DEF TypeAt
<1>5. b[tag] = a[tag]
  BY <1>1, <1>2, <1>3
<1>6. ValueWidth(b, a[tag], tag + 1) = w
  <2>1. CASE a[tag] \notin LengthPrefixed
    BY <2>1 DEF ValueWidth
  <2>2. CASE a[tag] \in LengthPrefixed
    <3> HIDE DEF tag
    <3>1. (tag + 1) + 1 <= Len(a)
      <4>1. (tag + 1) + 1 > Len(a) => w = 2 + 0
        BY <1>1, <1>2, <2>2 DEF ValueWidth
      <4>2. (tag + 1) + 1 <= Len(a) => 256 * a[tag + 1] + a[(tag + 1) + 1] \in Nat
        <5>1. (tag + 1) + 1 <= Len(a) => a[tag + 1] \in Nat /\ a[(tag + 1) + 1] \in Nat
          BY <1>1, <1>2
        <5> QED BY <5>1
      <4> HIDE DEF w
      <4> QED BY <1>1, <1>2, <1>3, <4>1
    <3>2. (tag + 1) + 1 <= Len(b) /\ b[tag + 1] = a[tag + 1] /\ b[(tag + 1) + 1] = a[(tag + 1) + 1]
      BY <1>1, <1>2, <3>1
    <3> QED BY <2>2, <3>1, <3>2 DEF ValueWidth
  <2> QED BY <2>1, <2>2
<1>7. EndAt(b, i) = EndAt(a, i)
  BY <1>4, <1>5, <1>6, Zenon DEF EndAt
<1> HIDE DEF tag, w
<1>8. WholeAt(b, i)
  <2>1. tag <= Len(b) /\ EndAt(a, i) <= Len(b)
    BY <1>1, <1>2, <1>3
  <2> QED BY <1>3, <1>4, <1>5, <1>7, <2>1 DEF WholeAt
<1>9. SubSeq(b, i + 1, tag - 1) = SubSeq(a, i + 1, tag - 1)
  <2>1. i + 1 \in Nat /\ tag - 1 \in Nat /\ 0 + (i + 1) = i + 1 /\ 0 + (tag - 1) = tag - 1
    BY <1>2
  <2>2. \A j \in (i + 1)..(tag - 1) : a[j] \in Nat /\ b[0 + j] = a[j]
    BY <1>1, <1>2, <1>3
  <2>3. SubSeq(b, 0 + (i + 1), 0 + (tag - 1)) = SubSeq(a, i + 1, tag - 1)
    BY <2>1, <2>2, SameParts
  <2> QED BY <2>1, <2>3
<1>10. SubSeq(b, tag + 3, EndAt(a, i)) = SubSeq(a, tag + 3, EndAt(a, i))
  <2>1. tag + 3 \in Nat /\ 0 + (tag + 3) = tag + 3 /\ 0 + EndAt(a, i) = EndAt(a, i)
    BY <1>2
  <2>2. \A j \in (tag + 3)..EndAt(a, i) : a[j] \in Nat /\ b[0 + j] = a[j]
    BY <1>1, <1>2, <1>3
  <2>3. SubSeq(b, 0 + (tag + 3), 0 + EndAt(a, i)) = SubSeq(a, tag + 3, EndAt(a, i))
    BY <1>2, <2>1, <2>2, SameParts
  <2> QED BY <2>1, <2>3
<1>11. HeaderAt(b, i) = HeaderAt(a, i)
  BY <1>4, <1>5, <1>7, <1>9, <1>10, Zenon DEF HeaderAt, tag
<1> QED BY <1>7, <1>8, <1>11 DEF b

IsHeaders(f) == f = [name \in DOMAIN f |-> f[name]]

LEMMA OverlayIs ==
  ASSUME NEW f, NEW g
  PROVE  /\ IsHeaders(Overlay(f, g)) /\ DOMAIN Overlay(f, g) = DOMAIN f \cup DOMAIN g
         /\ \A name \in DOMAIN f \cup DOMAIN g : Overlay(f, g)[name] = IF name \in DOMAIN f THEN f[name] ELSE g[name]
BY DEF Overlay, IsHeaders

LEMMA OverlayNone ==
  ASSUME NEW f, IsHeaders(f)
  PROVE  Overlay(f, NoHeaders) = f /\ Overlay(NoHeaders, f) = f
<1>1. DOMAIN NoHeaders = {}
  BY DEF NoHeaders
<1>2. Overlay(f, NoHeaders) = [name \in DOMAIN f |-> f[name]]
  BY <1>1 DEF Overlay
<1>3. Overlay(NoHeaders, f) = [name \in DOMAIN f |-> f[name]]
  BY <1>1 DEF Overlay
<1> QED BY <1>2, <1>3 DEF IsHeaders

LEMMA OverlayAssociates ==
  ASSUME NEW f, NEW g, NEW h
  PROVE  Overlay(Overlay(f, g), h) = Overlay(f, Overlay(g, h))
<1> DEFINE u == Overlay(f, g)
           v == Overlay(g, h)
           p == Overlay(u, h)
           q == Overlay(f, v)
<1>1. DOMAIN u = DOMAIN f \cup DOMAIN g
      /\ \A name \in DOMAIN f \cup DOMAIN g : u[name] = IF name \in DOMAIN f THEN f[name] ELSE g[name]
  BY DEF Overlay, IsHeaders
<1>2. DOMAIN v = DOMAIN g \cup DOMAIN h
      /\ \A name \in DOMAIN g \cup DOMAIN h : v[name] = IF name \in DOMAIN g THEN g[name] ELSE h[name]
  BY DEF Overlay, IsHeaders
<1> HIDE DEF u, v
<1>3. IsHeaders(p) /\ DOMAIN p = DOMAIN u \cup DOMAIN h
      /\ \A name \in DOMAIN u \cup DOMAIN h : p[name] = IF name \in DOMAIN u THEN u[name] ELSE h[name]
  BY DEF Overlay, IsHeaders
<1>4. IsHeaders(q) /\ DOMAIN q = DOMAIN f \cup DOMAIN v
      /\ \A name \in DOMAIN f \cup DOMAIN v : q[name] = IF name \in DOMAIN f THEN f[name] ELSE v[name]
  BY DEF Overlay, IsHeaders
<1> HIDE DEF p, q
<1>5. DOMAIN p = DOMAIN q
  BY <1>1, <1>2, <1>3, <1>4
<1>6. ASSUME NEW name \in DOMAIN p PROVE p[name] = q[name]
  BY <1>1, <1>2, <1>3, <1>4
<1>7. p = q
  BY <1>3, <1>4, <1>5, <1>6 DEF IsHeaders
<1> QED BY <1>7 DEF p, q, u, v

LEMMA HeadersAreFunctions ==
  ASSUME NEW b \in Blob, NEW i \in 1..(Len(b) + 1)
  PROVE  /\ HeadersFrom(b)[i] = [ok |-> HeadersFrom(b)[i].ok, headers |-> HeadersFrom(b)[i].headers]
         /\ IsHeaders(HeadersFrom(b)[i].headers)
<1>1. IsHeaders(NoHeaders)
  BY DEF IsHeaders, NoHeaders
<1> DEFINE p == HeadersFrom(b)
           h == Overlay(p[EndAt(b, i) + 1].headers, HeaderAt(b, i))
<1>2. IsHeaders(h)
  BY OverlayIs
<1>3. p[i] = ReadAt(b, p, i)
  BY HeadersAt
<1> HIDE DEF p
<1>4. \/ p[i] = [ok |-> TRUE, headers |-> NoHeaders]
      \/ p[i] = [ok |-> FALSE, headers |-> NoHeaders]
      \/ p[i] = [ok |-> p[EndAt(b, i) + 1].ok, headers |-> h]
  BY <1>3 DEF ReadAt
<1> HIDE DEF h
<1>5. p[i] = [ok |-> p[i].ok, headers |-> p[i].headers] /\ IsHeaders(p[i].headers)
  BY <1>1, <1>2, <1>4
<1> QED BY <1>5 DEF p

LEMMA BehindHeaders ==
  ASSUME NEW a \in Blob, NEW c \in Blob
  PROVE  \A i \in 1..(Len(c) + 1) : HeadersFrom(a \o c)[Len(a) + i] = HeadersFrom(c)[i]
<1> DEFINE b == a \o c
           l == Len(a)
           n == Len(c)
           f == HeadersFrom(b)
           g == HeadersFrom(c)
           S == {k \in Nat : \A i \in 1..(n + 1) : i + k >= n + 1 => f[l + i] = g[i]}
<1>1. l \in Nat /\ n \in Nat /\ b \in Blob /\ Len(b) = l + n
  BY BlocksJoined
<1>2. \A i \in 1..(n + 1) : g[i] = ReadAt(c, g, i)
  BY HeadersAt
<1>3. \A i \in 1..(n + 1) : f[l + i] = ReadAt(b, f, l + i)
  <2> TAKE i \in 1..(n + 1)
  <2>1. l + i \in 1..(Len(b) + 1)
    BY <1>1
  <2> QED BY <1>1, <2>1, HeadersAt
<1>4. \A i \in 1..n : /\ WholeAt(b, l + i) <=> WholeAt(c, i)
                      /\ WholeAt(c, i) => /\ EndAt(b, l + i) = l + EndAt(c, i)
                                          /\ HeaderAt(b, l + i) = HeaderAt(c, i)
                                          /\ EndAt(c, i) \in Nat /\ EndAt(c, i) + 1 \in (i + 1)..(n + 1)
  BY BehindHeader, WholeIsAhead
<1> HIDE DEF b, l, n, f, g
<1>5. f[l + (n + 1)] = g[n + 1]
  <2>1. l + (n + 1) = Len(b) + 1 /\ n + 1 \in 1..(n + 1)
    BY <1>1
  <2> QED BY <1>2, <1>3, <2>1 DEF ReadAt, n
<1>6. 0 \in S
  BY <1>1, <1>5
<1>7. ASSUME NEW k \in Nat, k \in S PROVE k + 1 \in S
  <2> SUFFICES ASSUME NEW i \in 1..(n + 1), i + (k + 1) >= n + 1 PROVE f[l + i] = g[i]
    OBVIOUS
  <2>1. CASE i = n + 1
    BY <1>5, <2>1
  <2>2. CASE i # n + 1
    <3>1. i \in 1..n /\ l + i # Len(b) + 1
      BY <1>1, <2>2
    <3>2. CASE ~WholeAt(c, i)
      <4>1. ~WholeAt(b, l + i)
        BY <1>4, <3>1, <3>2
      <4>2. f[l + i] = [ok |-> FALSE, headers |-> NoHeaders]
        BY <1>3, <3>1, <4>1 DEF ReadAt
      <4>3. g[i] = [ok |-> FALSE, headers |-> NoHeaders]
        BY <1>2, <2>2, <3>2 DEF ReadAt, n
      <4> QED BY <4>2, <4>3
    <3>3. CASE WholeAt(c, i)
      <4> DEFINE e == EndAt(c, i)
      <4>1. WholeAt(b, l + i) /\ EndAt(b, l + i) = l + e /\ HeaderAt(b, l + i) = HeaderAt(c, i)
            /\ e \in Nat /\ e + 1 \in (i + 1)..(n + 1)
        BY <1>4, <3>1, <3>3
      <4>2. f[l + i] = [ok |-> f[EndAt(b, l + i) + 1].ok,
                        headers |-> Overlay(f[EndAt(b, l + i) + 1].headers, HeaderAt(b, l + i))]
        BY <1>3, <3>1, <4>1, Zenon DEF ReadAt
      <4>3. g[i] = [ok |-> g[e + 1].ok, headers |-> Overlay(g[e + 1].headers, HeaderAt(c, i))]
        BY <1>2, <2>2, <3>3, Zenon DEF ReadAt, n
      <4> HIDE DEF e
      <4>4. (l + e) + 1 = l + (e + 1) /\ e + 1 \in 1..(n + 1) /\ (e + 1) + k >= n + 1
        BY <1>1, <4>1
      <4>5. f[l + (e + 1)] = g[e + 1]
        BY <1>7, <4>4
      <4>6. f[EndAt(b, l + i) + 1] = g[e + 1]
        BY <4>1, <4>4, <4>5
      <4> QED BY <4>1, <4>2, <4>3, <4>6
    <3> QED BY <3>2, <3>3
  <2> QED BY <2>1, <2>2
<1> HIDE DEF S
<1>8. n \in S
  BY <1>1, <1>6, <1>7, SetInduction
<1>9. \A i \in 1..(n + 1) : f[l + i] = g[i]
  BY <1>1, <1>8 DEF S
<1> QED BY <1>9 DEF b, l, n, f, g

LEMMA FrontHeaders ==
  ASSUME NEW a \in Blob, NEW c \in Blob
  PROVE  \A i \in 1..(Len(a) + 1) :
           HeadersFrom(a)[i].ok =>
             HeadersFrom(a \o c)[i] = [ok |-> ParseHeaders(c).ok,
                                       headers |-> Overlay(ParseHeaders(c).headers, HeadersFrom(a)[i].headers)]
<1> DEFINE b == a \o c
           n == Len(a)
           f == HeadersFrom(b)
           g == HeadersFrom(a)
           r == ParseHeaders(c)
           Good(i) == g[i].ok => f[i] = [ok |-> r.ok, headers |-> Overlay(r.headers, g[i].headers)]
           S == {k \in Nat : \A i \in 1..(n + 1) : i + k >= n + 1 => Good(i)}
<1>1. n \in Nat /\ Len(c) \in Nat /\ b \in Blob /\ Len(b) = n + Len(c)
  BY BlocksJoined
<1>2. \A i \in 1..(n + 1) : g[i] = ReadAt(a, g, i)
  BY HeadersAt
<1>3. \A i \in 1..n : f[i] = ReadAt(b, f, i)
  <2> TAKE i \in 1..n
  <2>1. i \in 1..(Len(b) + 1)
    BY <1>1
  <2> QED BY <1>1, <2>1, HeadersAt
<1>4. \A i \in 1..n : WholeAt(a, i) => /\ WholeAt(b, i) /\ EndAt(b, i) = EndAt(a, i)
                                       /\ HeaderAt(b, i) = HeaderAt(a, i)
                                       /\ EndAt(a, i) \in Nat /\ EndAt(a, i) + 1 \in (i + 1)..(n + 1)
  BY FrontHeader, WholeIsAhead
<1>5. f[n + 1] = r /\ r = [ok |-> r.ok, headers |-> r.headers] /\ IsHeaders(r.headers)
  <2>1. 1 \in 1..(Len(c) + 1)
    BY <1>1
  <2> QED BY <2>1, BehindHeaders, HeadersAreFunctions DEF ParseHeaders
<1> HIDE DEF b, n, f, g, r
<1>6. Good(n + 1)
  <2>1. g[n + 1] = [ok |-> TRUE, headers |-> NoHeaders]
    BY <1>1, <1>2, n + 1 \in 1..(n + 1) DEF ReadAt, n
  <2>2. g[n + 1].headers = NoHeaders
    BY <2>1
  <2>3. Overlay(r.headers, NoHeaders) = r.headers
    BY <1>5, OverlayNone
  <2> QED BY <1>5, <2>2, <2>3
<1> HIDE DEF Good
<1>7. 0 \in S
  <2>1. \A i \in 1..(n + 1) : i + 0 >= n + 1 => i = n + 1
    BY <1>1
  <2> QED BY <1>6, <2>1
<1>8. ASSUME NEW k \in Nat, k \in S PROVE k + 1 \in S
  <2> SUFFICES ASSUME NEW i \in 1..(n + 1), i + (k + 1) >= n + 1 PROVE Good(i)
    OBVIOUS
  <2>1. CASE i = n + 1
    BY <1>6, <2>1
  <2>2. CASE i # n + 1
    <3>1. i \in 1..n /\ i # Len(b) + 1
      BY <1>1, <2>2
    <3>2. CASE ~WholeAt(a, i)
      <4>1. g[i] = [ok |-> FALSE, headers |-> NoHeaders]
        BY <1>2, <2>2, <3>2 DEF ReadAt, n
      <4>2. ~g[i].ok
        BY <4>1
      <4> QED BY <4>2 DEF Good
    <3>3. CASE WholeAt(a, i)
      <4> DEFINE e == EndAt(a, i)
                 h == HeaderAt(a, i)
      <4>1. WholeAt(b, i) /\ EndAt(b, i) = e /\ HeaderAt(b, i) = h /\ e \in Nat /\ e + 1 \in (i + 1)..(n + 1)
        BY <1>4, <3>1, <3>3
      <4>2. f[i] = [ok |-> f[e + 1].ok, headers |-> Overlay(f[e + 1].headers, h)]
        BY <1>3, <3>1, <4>1, Zenon DEF ReadAt
      <4>3. g[i] = [ok |-> g[e + 1].ok, headers |-> Overlay(g[e + 1].headers, h)]
        BY <1>2, <2>2, <3>3, Zenon DEF ReadAt, n
      <4> HIDE DEF e, h
      <4>4. g[i].ok = g[e + 1].ok /\ g[i].headers = Overlay(g[e + 1].headers, h)
        BY <4>3
      <4>5. Good(e + 1)
        <5>1. e + 1 \in 1..(n + 1) /\ (e + 1) + k >= n + 1
          BY <1>1, <4>1
        <5> QED BY <1>8, <5>1
      <4>6. SUFFICES ASSUME g[i].ok PROVE f[i] = [ok |-> r.ok, headers |-> Overlay(r.headers, g[i].headers)]
        BY DEF Good
      <4>7. f[e + 1] = [ok |-> r.ok, headers |-> Overlay(r.headers, g[e + 1].headers)]
        BY <4>4, <4>5, <4>6 DEF Good
      <4>8. f[e + 1].ok = r.ok /\ f[e + 1].headers = Overlay(r.headers, g[e + 1].headers)
        BY <4>7
      <4>9. Overlay(f[e + 1].headers, h) = Overlay(r.headers, g[i].headers)
        BY <4>4, <4>8, OverlayAssociates
      <4> QED BY <4>2, <4>8, <4>9
    <3> QED BY <3>2, <3>3
  <2> QED BY <2>1, <2>2
<1> HIDE DEF S
<1>9. n \in S
  BY <1>1, <1>7, <1>8, SetInduction
<1>10. \A i \in 1..(n + 1) : Good(i)
  BY <1>1, <1>9 DEF S
<1> QED BY <1>10 DEF b, n, f, g, r, Good

LEMMA BytesAreNumbers == Seq(Bytes) \subseteq Blob
<1>1. Bytes \subseteq Nat
  BY DEF Bytes
<1> QED BY <1>1, SeqMonotonic DEF Blob

(***************************************************************************)
(* Whatever well-formed headers come first, of any type, number and length,   *)
(* the rest of the block is read as it would be alone, and its headers win:   *)
(* parseEventStreamHeaders skips every type "so a header of an unexpected     *)
(* type can't desync the rest of the block".                                  *)
(***************************************************************************)
THEOREM HeadersStayInStep ==
  ASSUME NEW a \in Seq(Bytes), NEW c \in Seq(Bytes), ParseHeaders(a).ok
  PROVE  ParseHeaders(a \o c) = [ok |-> ParseHeaders(c).ok,
                                 headers |-> Overlay(ParseHeaders(c).headers, ParseHeaders(a).headers)]
<1>1. a \in Blob /\ c \in Blob
  BY BytesAreNumbers
<1>2. Len(a) \in Nat /\ 1 \in 1..(Len(a) + 1)
  BY LenProperties
<1> QED BY <1>1, <1>2, FrontHeaders DEF ParseHeaders

LEMMA OneByte ==
  ASSUME NEW s \in Seq(Bytes), NEW m \in 1..Len(s)
  PROVE  SubSeq(s, m, m) = <<s[m]>>
<1>1. SubSeq(s, m, m) = <<s[m]>> \o SubSeq(s, m + 1, m)
  BY LenProperties, m \in m..Len(s), SubSeqRecursiveFirst
<1>2. SubSeq(s, m + 1, m) = << >>
  BY LenProperties, m + 1 \in Int, m \in Int, m < m + 1, SubSeqEmpty
<1>3. <<s[m]>> \in Seq(Bytes)
  BY ElementOfSeq
<1> QED BY <1>1, <1>2, <1>3, ConcatEmptySeq

\* The headers the relay looks for: a name and a value of one byte each.
LEMMA StringHeader ==
  ASSUME NEW n \in Bytes, NEW x \in Bytes
  PROVE  /\ EncodeHeader(<<n>>, StringType, <<x>>) \in Seq(Bytes)
         /\ ParseHeaders(EncodeHeader(<<n>>, StringType, <<x>>)) =
              [ok |-> TRUE, headers |-> [name \in {<<n>>} |-> <<x>>]]
<1> DEFINE b == <<1, n, 7, 0, 1, x>>
           f == HeadersFrom(b)
<1>1. EncodeHeader(<<n>>, StringType, <<x>>) = b
  <2>1. Len(<<n>>) = 1 /\ Len(<<x>>) = 1 /\ StringType = 7 /\ StringType \in LengthPrefixed
    BY DEF StringType, LengthPrefixed
  <2>2. EncodeHeader(<<n>>, StringType, <<x>>) = <<1>> \o <<n>> \o <<7>> \o <<0, 1>> \o <<x>>
    BY <2>1, Zenon DEF EncodeHeader
  <2> DEFINE p == <<1>> \o <<n>>
             q == p \o <<7>>
             r == q \o <<0, 1>>
             z == r \o <<x>>
  <2>3. p \in Seq(Bytes) /\ Len(p) = 2 /\ p[1] = 1 /\ p[2] = n
    <3>1. <<1>> \in Seq(Bytes) /\ <<n>> \in Seq(Bytes) /\ Len(<<1>>) = 1 /\ Len(<<n>>) = 1
      BY DEF Bytes
    <3> QED BY <3>1, ConcatProperties
  <2> HIDE DEF p
  <2>4. q \in Seq(Bytes) /\ Len(q) = 3 /\ q[1] = 1 /\ q[2] = n /\ q[3] = 7
    <3>1. <<7>> \in Seq(Bytes) /\ Len(<<7>>) = 1
      BY DEF Bytes
    <3> QED BY <2>3, <3>1, ConcatProperties
  <2> HIDE DEF q
  <2>5. r \in Seq(Bytes) /\ Len(r) = 5 /\ r[1] = 1 /\ r[2] = n /\ r[3] = 7 /\ r[4] = 0 /\ r[5] = 1
    <3> DEFINE t == <<0, 1>>
    <3>1. t \in Seq(Bytes) /\ Len(t) = 2 /\ t[1] = 0 /\ t[2] = 1 /\ r = q \o t
      BY DEF Bytes
    <3> HIDE DEF t, r
    <3>2. /\ r \in Seq(Bytes) /\ Len(r) = Len(q) + Len(t)
          /\ \A i \in 1..Len(q) + Len(t) : r[i] = IF i <= Len(q) THEN q[i] ELSE t[i - Len(q)]
      BY <2>4, <3>1, ConcatProperties
    <3> QED BY <2>4, <3>1, <3>2
  <2> HIDE DEF r
  <2>6. z \in Seq(Bytes) /\ Len(z) = 6 /\ z[1] = 1 /\ z[2] = n /\ z[3] = 7 /\ z[4] = 0 /\ z[5] = 1 /\ z[6] = x
    <3> DEFINE t == <<x>>
    <3>1. t \in Seq(Bytes) /\ Len(t) = 1 /\ t[1] = x /\ z = r \o t
      BY DEF Bytes
    <3> HIDE DEF t, z
    <3>2. /\ z \in Seq(Bytes) /\ Len(z) = Len(r) + Len(t)
          /\ \A i \in 1..Len(r) + Len(t) : z[i] = IF i <= Len(r) THEN r[i] ELSE t[i - Len(r)]
      BY <2>5, <3>1, ConcatProperties
    <3> QED BY <2>5, <3>1, <3>2
  <2> HIDE DEF z
  <2>7. b \in Seq(Bytes) /\ Len(b) = 6 /\ b[1] = 1 /\ b[2] = n /\ b[3] = 7 /\ b[4] = 0 /\ b[5] = 1 /\ b[6] = x
    BY DEF Bytes
  <2> HIDE DEF b
  <2>8. \A i \in 1..6 : z[i] = b[i]
    BY <2>6, <2>7
  <2>9. z = b
    BY <2>6, <2>7, <2>8, SeqEqual
  <2> QED BY <2>2, <2>9 DEF z, r, q, p
<1>2. b \in Seq(Bytes) /\ Len(b) = 6
  BY DEF Bytes
<1>3. b \in Blob
  BY <1>2, BytesAreNumbers
<1>4. f[1] = ReadAt(b, f, 1) /\ f[7] = ReadAt(b, f, 7)
  <2>1. 1 \in 1..(Len(b) + 1) /\ 7 \in 1..(Len(b) + 1)
    BY <1>2
  <2> HIDE DEF b
  <2> QED BY <1>3, <2>1, HeadersAt
<1>5. TypeAt(b, 1) = 3 /\ b[3] = 7
  BY DEF TypeAt
<1>6. EndAt(b, 1) = 6
  <2>1. ValueWidth(b, 7, 4) = 3
    BY <1>2 DEF ValueWidth, LengthPrefixed, StringType
  <2> HIDE DEF b
  <2> QED BY <1>5, <2>1 DEF EndAt
<1>7. WholeAt(b, 1)
  <2> HIDE DEF b
  <2> QED BY <1>2, <1>5, <1>6 DEF WholeAt
<1>8. SubSeq(b, 2, 2) = <<n>> /\ SubSeq(b, 6, 6) = <<x>>
  <2>1. b[2] = n /\ b[6] = x
    OBVIOUS
  <2>2. 2 \in 1..Len(b) /\ 6 \in 1..Len(b)
    BY <1>2
  <2> HIDE DEF b
  <2> QED BY <1>2, <2>1, <2>2, OneByte
<1> DEFINE h == [name \in {<<n>>} |-> <<x>>]
<1>9. HeaderAt(b, 1) = h
  <2> HIDE DEF b
  <2>1. TypeAt(b, 1) - 1 = 2 /\ TypeAt(b, 1) + 3 = 6 /\ 1 + 1 = 2
    BY <1>5
  <2>2. HeaderAt(b, 1) = [name \in {SubSeq(b, 1 + 1, TypeAt(b, 1) - 1)} |-> SubSeq(b, TypeAt(b, 1) + 3, EndAt(b, 1))]
    <3>1. b[TypeAt(b, 1)] = StringType /\ b[TypeAt(b, 1)] \notin BoolTypes
      BY <1>5 DEF StringType, BoolTypes
    <3> QED BY <3>1, Zenon DEF HeaderAt
  <2> QED BY <1>6, <1>8, <2>1, <2>2
<1>10. IsHeaders(h)
  BY DEF IsHeaders
<1> HIDE DEF b, f, h
<1>11. f[7] = [ok |-> TRUE, headers |-> NoHeaders]
  BY <1>2, <1>4 DEF ReadAt
<1>12. f[1] = [ok |-> f[7].ok, headers |-> Overlay(f[7].headers, h)]
  <2>1. EndAt(b, 1) + 1 = 7 /\ 1 # Len(b) + 1
    BY <1>2, <1>6
  <2> QED BY <1>4, <1>7, <1>9, <2>1, Zenon DEF ReadAt
<1>13. f[1] = [ok |-> TRUE, headers |-> h]
  <2>1. f[7].ok = TRUE /\ f[7].headers = NoHeaders
    BY <1>11
  <2>2. Overlay(NoHeaders, h) = h
    BY <1>10, OverlayNone
  <2> QED BY <1>12, <2>1, <2>2
<1> QED BY <1>1, <1>2, <1>13 DEF ParseHeaders, f, h

LEMMA UnknownHeader ==
  ASSUME NEW a \in Seq(Bytes), NEW c \in Seq(Bytes), StartsUnknown(a)
  PROVE  ~ParseHeaders(a \o c).ok
<1> DEFINE b == a \o c
<1>1. a \in Blob /\ c \in Blob
  BY BytesAreNumbers
<1>2. b \in Blob /\ Len(a) \in Nat /\ Len(b) >= Len(a) /\ Len(b) \in Nat /\ \A j \in 1..Len(a) : b[j] = a[j] /\ a[j] \in Nat
  <2>1. b \in Blob /\ Len(a) \in Nat /\ Len(c) \in Nat /\ Len(b) = Len(a) + Len(c) /\ \A j \in 1..Len(a) : b[j] = a[j] /\ a[j] \in Nat
    BY <1>1, BlocksJoined
  <2> HIDE DEF b
  <2> QED BY <2>1
<1> HIDE DEF b
<1>3. 1 \in 1..Len(a)
  BY <1>2, EmptySeq DEF StartsUnknown
<1>4. TypeAt(a, 1) \in 1..Len(a) /\ a[TypeAt(a, 1)] \notin 0..9
  BY <1>1, <1>3, WholeIsAhead DEF StartsUnknown
<1>5. TypeAt(b, 1) = TypeAt(a, 1)
  BY <1>2, <1>3 DEF TypeAt
<1>6. ~WholeAt(b, 1)
  BY <1>2, <1>4, <1>5 DEF WholeAt
<1>7. 1 \in 1..(Len(b) + 1) /\ 1 # Len(b) + 1
  BY <1>2, <1>3
<1>8. HeadersFrom(b)[1] = [ok |-> FALSE, headers |-> NoHeaders]
  <2>1. HeadersFrom(b)[1] = ReadAt(b, HeadersFrom(b), 1)
    BY <1>2, <1>7, HeadersAt
  <2> QED BY <1>6, <1>7, <2>1 DEF ReadAt
<1> QED BY <1>8 DEF ParseHeaders, b

(***************************************************************************)
(* A frame is read as what it is, or as broken, whatever headers come before  *)
(* the ones the relay looks for.                                              *)
(***************************************************************************)
LEMMA FrameIsRead ==
  ASSUME NEW said \in DOMAIN FrameOf \cup {"exception"}, NEW extra \in Extras,
         ParseHeaders(HeaderBlock(said, extra)).ok
  PROVE  /\ IsException(ParseHeaders(HeaderBlock(said, extra)).headers) <=> said = "exception"
         /\ FrameKind(ParseHeaders(HeaderBlock(said, extra)).headers) =
              (IF said = "exception" THEN "error" ELSE FrameOf[said])
<1> DEFINE Str(n, x) == EncodeHeader(<<n>>, StringType, <<x>>)
           Maps(n, x) == [name \in {<<n>>} |-> <<x>>]
           before == ParseHeaders(extra).headers
<1>1. extra \in Seq(Bytes) /\ (ParseHeaders(extra).ok \/ StartsUnknown(extra))
  BY HeadersAssumption
<1>2. 1 \in Bytes /\ 2 \in Bytes /\ 98 \in Bytes /\ 99 \in Bytes
  BY DEF Bytes
<1>3. <<1>> # <<2>> /\ <<98>> # <<99>>
  OBVIOUS
<1>4. CASE said = "exception"
  <2> DEFINE block == Str(2, 99)
             read == Overlay(Maps(2, 99), before)
  <2>1. block \in Seq(Bytes) /\ ParseHeaders(block) = [ok |-> TRUE, headers |-> Maps(2, 99)]
    BY <1>2, StringHeader
  <2>2. HeaderBlock(said, extra) = extra \o block
    BY <1>4 DEF HeaderBlock, MessageType
  <2> HIDE DEF block
  <2>3. ParseHeaders(extra).ok
    BY <1>1, <2>1, <2>2, UnknownHeader
  <2>4. ParseHeaders(extra \o block).headers = read
    <3>1. ParseHeaders(extra \o block) = [ok |-> ParseHeaders(block).ok,
                                          headers |-> Overlay(ParseHeaders(block).headers, before)]
      BY <1>1, <2>1, <2>3, HeadersStayInStep
    <3> QED BY <2>1, <3>1
  <2>5. <<2>> \in DOMAIN read /\ read[<<2>>] = <<99>>
    BY DEF Overlay
  <2> HIDE DEF read
  <2>6. IsException(read)
    BY <2>5 DEF IsException, HeaderValue, MessageType
  <2>7. FrameKind(read) = "error"
    BY <2>6 DEF FrameKind
  <2> QED BY <1>4, <2>2, <2>4, <2>6, <2>7
<1>5. CASE said # "exception"
  <2>1. said \in DOMAIN FrameOf
    BY <1>5
  <2> DEFINE k == CHOOSE i \in DOMAIN EventNames : EventNames[i] = said
  <2>2. k \in 1..7 /\ EventNames[k] = said
    <3>1. said \in {"messageStart", "toolStart", "textDelta", "toolDelta", "blockStop", "messageStop", "metadata"}
      BY <2>1 DEF FrameOf
    <3>2. DOMAIN EventNames = 1..7
      BY DEF EventNames
    <3>3. \E i \in DOMAIN EventNames : EventNames[i] = said
      BY <3>1, <3>2 DEF EventNames
    <3>4. k \in DOMAIN EventNames /\ EventNames[k] = said
      BY <3>3
    <3> QED BY <3>2, <3>4
  <2>3. k \in Bytes
    BY <2>2 DEF Bytes
  <2> DEFINE first == Str(2, 98)
             second == Str(1, k)
             block == first \o second
             read == Overlay(Overlay(Maps(1, k), Maps(2, 98)), before)
  <2>4. HeaderBlock(said, extra) = extra \o block
    BY <1>5, Zenon DEF HeaderBlock, MessageType, EventType
  <2> HIDE DEF k
  <2>5. first \in Seq(Bytes) /\ ParseHeaders(first) = [ok |-> TRUE, headers |-> Maps(2, 98)]
    BY <1>2, StringHeader
  <2>6. second \in Seq(Bytes) /\ ParseHeaders(second) = [ok |-> TRUE, headers |-> Maps(1, k)]
    BY <1>2, <2>3, StringHeader
  <2> HIDE DEF first, second
  <2>7. block \in Seq(Bytes) /\ ParseHeaders(block) = [ok |-> TRUE, headers |-> Overlay(Maps(1, k), Maps(2, 98))]
    <3>1. ParseHeaders(block) = [ok |-> ParseHeaders(second).ok,
                                 headers |-> Overlay(ParseHeaders(second).headers, ParseHeaders(first).headers)]
      <4>1. ParseHeaders(first).ok
        BY <2>5
      <4> QED BY <2>5, <2>6, <4>1, HeadersStayInStep
    <3>2. ParseHeaders(second).ok = TRUE /\ ParseHeaders(second).headers = Maps(1, k) /\ ParseHeaders(first).headers = Maps(2, 98)
      BY <2>5, <2>6
    <3> QED BY <2>5, <2>6, <3>1, <3>2, ConcatProperties
  <2> HIDE DEF block
  <2>8. ParseHeaders(extra).ok
    BY <1>1, <2>4, <2>7, UnknownHeader
  <2>9. ParseHeaders(extra \o block).headers = read
    <3>1. ParseHeaders(extra \o block) = [ok |-> ParseHeaders(block).ok,
                                          headers |-> Overlay(ParseHeaders(block).headers, before)]
      BY <1>1, <2>7, <2>8, HeadersStayInStep
    <3> QED BY <2>7, <3>1
  <2>10. /\ <<1>> \in DOMAIN read /\ read[<<1>>] = <<k>>
         /\ <<2>> \in DOMAIN read /\ read[<<2>>] = <<98>>
    BY <1>3 DEF Overlay
  <2> HIDE DEF read
  <2>11. ~IsException(read)
    BY <1>3, <2>10 DEF IsException, HeaderValue, MessageType
  <2>12. FrameKind(read) = FrameOf[said]
    <3>1. HeaderValue(read, EventType) = <<k>> /\ <<k>> # << >> /\ <<k>>[1] = k
      BY <2>10 DEF HeaderValue, EventType
    <3> QED BY <2>2, <2>11, <3>1 DEF FrameKind
  <2> QED BY <1>5, <2>4, <2>9, <2>11, <2>12
<1> QED BY <1>4, <1>5

Places == {"idle", "buffered", "start", "between", "text", "tool", "stopped", "over", "aborted", "cut"}

\* While the relay runs, its error flag says whether the provider gave up; a
\* request in the handler's hands has not been sent, an answer is not streamed.
FlagIsTrue ==
  /\ body.stage = "request" => upstream.at = "idle"
  /\ body.stage = "answer" => upstream.at = "buffered"
  /\ upstream \in [at : Places, block : 0..MaxBlocks, deltas : Nat]
  /\ failed \in BOOLEAN
  /\ client \in {"here", "gone"}
  /\ Running => (failed <=> upstream.at = "aborted")

OutcomeInv == FlagIsTrue /\ OutcomeIsTrue

LEMMA OutcomeInit == Init => OutcomeInv
<1> SUFFICES ASSUME Init PROVE OutcomeInv
  OBVIOUS
<1>0. body.stage \notin {"request", "answer"}
  BY DEF Init, NoBody
<1>1. failed = FALSE /\ client = "here" /\ cause = "" /\ upstream = [at |-> "idle", block |-> 0, deltas |-> 0]
  BY DEF Init
<1>2. upstream \in [at : Places, block : 0..MaxBlocks, deltas : Nat] /\ upstream.at # "aborted"
  <2>1. 0 \in 0..MaxBlocks
    BY RelayAssumption
  <2> QED BY <1>1, <2>1 DEF Places
<1> QED BY <1>0, <1>1, <1>2 DEF OutcomeInv, FlagIsTrue, OutcomeIsTrue, StreamEnded, Running

LEMMA SaysWhat == Says \subseteq DOMAIN FrameOf \cup {"exception"}
BY DEF Says, FrameOf

\* What the provider says next changes its place, and only an exception aborts it.
LEMMA Advances ==
  ASSUME FlagIsTrue, NEW said \in Says
  PROVE  /\ Advance(said) \in [at : Places, block : 0..MaxBlocks, deltas : Nat]
         /\ Advance(said).at \notin {"idle", "buffered"}
         /\ Advance(said).at = "aborted" <=> said = "exception"
         /\ upstream.at \notin {"idle", "buffered", "aborted"}
BY RelayAssumption DEF FlagIsTrue, Says, Advance, Places

\* The end of a relay tells what happened.
LEMMA EndTells ==
  ASSUME FlagIsTrue, Running, UNCHANGED <<client, body>>, 
         upstream.at \in {"idle", "buffered"} => UNCHANGED upstream, failed \in BOOLEAN,
         NEW why \in {"eof", "broken", "writeError", "canceled", "abort"},
         why \in {"canceled", "abort"} => client = "gone",
         NEW deltas, NEW snk, NEW before, End(why, failed, deltas, snk, before),
         upstream' \in [at : Places, block : 0..MaxBlocks, deltas : Nat],
         upstream'.at \in {upstream.at, "cut"} \/ why = "broken",
         why \in {"canceled", "abort"} => upstream' = upstream
  PROVE  OutcomeInv'
<1>1. cause' = why /\ failed' = failed
  BY DEF End
<1>2. /\ result'.status = (IF failed \/ why \in {"broken", "writeError"} THEN 502 ELSE 200)
      /\ result'.cancelled <=> ~failed /\ why \in {"canceled", "abort"}
  <2>1. result' = Ended(why, failed, output, deltas)
    BY DEF End
  <2>2. Ended(why, failed, output, deltas) =
          [status |-> IF failed \/ why \in {"broken", "writeError"} THEN 502 ELSE 200,
           cancelled |-> (~failed /\ why \in {"canceled", "abort"}) /\ ~(failed \/ why \in {"broken", "writeError"}),
           output |-> Estimated(output, deltas)]
    BY DEF Ended, BedrockFails, BedrockCancels, MantleFails, MantleCancels
  <2>3. result'.status = (IF failed \/ why \in {"broken", "writeError"} THEN 502 ELSE 200)
    BY <2>1, <2>2
  <2>4. result'.cancelled = ((~failed /\ why \in {"canceled", "abort"}) /\ ~(failed \/ why \in {"broken", "writeError"}))
    BY <2>1, <2>2
  <2> QED BY <2>3, <2>4
<1>3. FlagIsTrue'
  <2>1. failed' \in BOOLEAN
    BY <1>1
  <2>2. /\ cause' # "" /\ (body'.stage = "request" => upstream'.at = "idle")
        /\ body'.stage = "answer" => upstream'.at = "buffered"
    BY <1>1 DEF FlagIsTrue
  <2> QED BY <2>1, <2>2 DEF FlagIsTrue, Running
<1>4. OutcomeIsTrue'
  <2>1. failed <=> upstream.at = "aborted"
    BY DEF FlagIsTrue
  <2>2. cause' = "broken" \/ upstream'.at = "aborted" => result'.status = 502
    BY <1>1, <1>2, <2>1
  <2>3. result'.cancelled => client' = "gone" /\ result'.status = 200
    BY <1>2
  <2>4. result'.status = 200 => cause' = "eof" \/ client' = "gone"
    BY <1>1, <1>2
  <2>5. cause' \in {"canceled", "abort"} /\ upstream'.at # "aborted" => result'.cancelled
    BY <1>1, <1>2, <2>1
  <2> QED BY <2>2, <2>3, <2>4, <2>5 DEF OutcomeIsTrue
<1> QED BY <1>3, <1>4 DEF OutcomeInv

LEMMA OutcomeNext == OutcomeInv /\ [Next]_vars => OutcomeInv'
<1> SUFFICES ASSUME OutcomeInv, [Next]_vars PROVE OutcomeInv'
  OBVIOUS
<1>0. FlagIsTrue /\ OutcomeIsTrue
  BY DEF OutcomeInv
<1>1. CASE TakeRequest \/ RejectRequest \/ SendRequest \/ ReceiveAnswer \/ ReturnAnswer \/ CallFails
  <2>1. UNCHANGED <<failed, client>>
    BY <1>1 DEF TakeRequest, RejectRequest, SendRequest, ReceiveAnswer, ReturnAnswer, CallFails, relayState
  <2>2. \/ UNCHANGED upstream
        \/ upstream.at = "idle" /\ \E at \in {"start", "buffered"} : upstream' = [upstream EXCEPT !.at = at]
    BY <1>0, <1>1 DEF FlagIsTrue, TakeRequest, RejectRequest, SendRequest, ReceiveAnswer, ReturnAnswer, CallFails
  <2>3. ~Running' => cause' \in {"invalid", "error", "buffered"} \/ UNCHANGED <<cause, result>>
    BY <1>1 DEF TakeRequest, RejectRequest, SendRequest, ReceiveAnswer, ReturnAnswer, CallFails
  <2>4. /\ body'.stage = "request" => upstream'.at = "idle"
        /\ body'.stage = "answer" => upstream'.at = "buffered"
    BY <1>0, <1>1 DEF FlagIsTrue, TakeRequest, RejectRequest, SendRequest, ReceiveAnswer, ReturnAnswer, CallFails, NoBody
  <2>5. upstream' \in [at : Places, block : 0..MaxBlocks, deltas : Nat] /\ (upstream'.at = "aborted" <=> upstream.at = "aborted")
    BY <1>0, <2>2 DEF FlagIsTrue, Places
  <2>6. Running' => Running
    BY <1>1 DEF Running, TakeRequest, RejectRequest, SendRequest, ReceiveAnswer, ReturnAnswer, CallFails
  <2>7. FlagIsTrue'
    BY <1>0, <2>1, <2>4, <2>5, <2>6 DEF FlagIsTrue
  <2>8. OutcomeIsTrue'
    <3> SUFFICES ASSUME StreamEnded' PROVE OutcomeIsTrue'
      BY DEF OutcomeIsTrue
    <3>1. cause' = cause /\ result' = result /\ StreamEnded
      BY <2>3 DEF StreamEnded, Running
    <3>2. client' = client /\ (upstream'.at = "aborted" <=> upstream.at = "aborted")
      BY <2>1, <2>5
    <3> QED BY <1>0, <3>1, <3>2 DEF OutcomeIsTrue
  <2> QED BY <2>7, <2>8 DEF OutcomeInv
<1>2. CASE ReadBedrock
  <2>1. PICK said \in Says, extra \in Extras :
          LET parsed == ParseHeaders(HeaderBlock(said, extra))
          IN /\ upstream' = Advance(said)
             /\ \/ /\ parsed.ok
                   /\ failed' = (failed \/ IsException(parsed.headers))
                   /\ UNCHANGED <<cause, result>>
                \/ End("broken", failed, streamed, sink, wire)
    BY <1>2 DEF ReadBedrock
  <2> DEFINE parsed == ParseHeaders(HeaderBlock(said, extra))
  <2>2. Running /\ UNCHANGED <<client, body>>
    BY <1>2 DEF ReadBedrock
  <2>3. CASE parsed.ok /\ failed' = (failed \/ IsException(parsed.headers)) /\ UNCHANGED <<cause, result>>
    <3>1. IsException(parsed.headers) <=> said = "exception"
      BY <2>3, SaysWhat, FrameIsRead
    <3> HIDE DEF parsed
    <3>2. /\ upstream' = Advance(said) /\ upstream' \in [at : Places, block : 0..MaxBlocks, deltas : Nat]
          /\ upstream'.at = "aborted" <=> said = "exception"
          /\ upstream.at \notin {"idle", "buffered", "aborted"}
      BY <1>0, <2>1, Advances
    <3>3. failed = FALSE
      BY <1>0, <2>2, <3>2 DEF FlagIsTrue
    <3>4. failed' \in BOOLEAN /\ (failed' <=> said = "exception")
      BY <2>3, <3>1, <3>3
    <3>5. Running'
      BY <2>2, <2>3 DEF Running
    <3> QED BY <1>0, <2>2, <3>2, <3>4, <3>5 DEF OutcomeInv, FlagIsTrue, OutcomeIsTrue, StreamEnded
  <2>4. CASE End("broken", failed, streamed, sink, wire)
    BY <1>0, <2>1, <2>2, <2>4, Advances, EndTells DEF FlagIsTrue
  <2> QED BY <2>1, <2>3, <2>4
<1>3. CASE ReadMantle
  <2>1. PICK said \in Says \ {"metadata"} :
          /\ upstream' = (IF said = "messageStop" THEN [Advance(said) EXCEPT !.at = "over"] ELSE Advance(said))
          /\ failed' = (failed \/ said = "exception")
    BY <1>3 DEF ReadMantle
  <2>2. Running /\ UNCHANGED <<client, body, cause, result>>
    BY <1>3 DEF ReadMantle
  <2>3. /\ upstream' \in [at : Places, block : 0..MaxBlocks, deltas : Nat]
        /\ upstream'.at = "aborted" <=> said = "exception"
        /\ upstream.at \notin {"idle", "buffered", "aborted"}
    <3>1. Advance(said) \in [at : Places, block : 0..MaxBlocks, deltas : Nat] /\ (Advance(said).at = "aborted" <=> said = "exception")
      BY <1>0, Advances
    <3> QED BY <1>0, <2>1, <3>1, Advances DEF Places
  <2>4. failed = FALSE
    BY <1>0, <2>2, <2>3 DEF FlagIsTrue
  <2>5. failed' \in BOOLEAN /\ (failed' <=> said = "exception")
    BY <2>1, <2>4
  <2>6. Running'
    BY <2>2 DEF Running
  <2> QED BY <1>0, <2>2, <2>3, <2>5, <2>6 DEF OutcomeInv, FlagIsTrue, OutcomeIsTrue, StreamEnded
<1>4. CASE Deliver \/ HangUp \/ Finished \/ UNCHANGED vars
  <2>1. UNCHANGED <<body, upstream, failed, cause, result>> /\ (UNCHANGED client \/ (Running /\ client' = "gone"))
    BY <1>4 DEF Deliver, HangUp, Finished, vars, relayState
  <2>2. FlagIsTrue'
    BY <1>0, <2>1 DEF FlagIsTrue, Running
  <2>3. OutcomeIsTrue'
    <3> SUFFICES ASSUME StreamEnded' PROVE OutcomeIsTrue'
      BY DEF OutcomeIsTrue
    <3>1. StreamEnded /\ UNCHANGED <<upstream, cause, result, client>>
      BY <2>1 DEF StreamEnded, Running
    <3> QED BY <1>0, <3>1 DEF OutcomeIsTrue
  <2> QED BY <2>2, <2>3 DEF OutcomeInv
<1>5. CASE WriteFails
  BY <1>0, <1>5, EndTells DEF WriteFails, FlagIsTrue
<1>6. CASE BodyEnds
  <2>1. PICK avail \in {0, 5, PreludeLen, PreludeLen + 1} :
          /\ End(ReadFrame([avail |-> avail, total |-> 64, headers |-> 40, preludeOK |-> TRUE, messageOK |-> TRUE]),
                 failed, streamed, sink, wire)
          /\ upstream' = (IF avail = 0 THEN upstream ELSE [upstream EXCEPT !.at = "cut"])
    BY <1>6 DEF BodyEnds
  <2>2. ReadFrame([avail |-> avail, total |-> 64, headers |-> 40, preludeOK |-> TRUE, messageOK |-> TRUE])
          \in {"eof", "broken"}
    BY <2>1 DEF ReadFrame, WellFormedPrelude, PreludeLen, TrailerLen, MaxFrameLen
  <2>3. Running /\ UNCHANGED <<client, body>> /\ upstream.at \notin {"idle", "buffered"}
    BY <1>6 DEF BodyEnds
  <2> QED BY <1>0, <2>1, <2>2, <2>3, EndTells DEF FlagIsTrue, Places
<1>7. CASE ReadFails
  BY <1>0, <1>7, EndTells DEF ReadFails, FlagIsTrue
<1> QED BY <1>1, <1>2, <1>3, <1>4, <1>5, <1>6, <1>7 DEF Next

\* A provider that failed is refunded, and only a client that left is billed as
\* cancelled, wherever the stream was cut.
THEOREM OutcomesAreTrue == Spec => []OutcomeIsTrue
<1>1. OutcomeInv => OutcomeIsTrue
  BY DEF OutcomeInv
<1> QED BY <1>1, OutcomeInit, OutcomeNext, PTL DEF Spec

-----------------------------------------------------------------------------
(***************************************************************************)
(* Sequences of events.                                                       *)
(***************************************************************************)
IsSeq(s) == s \in Seq(Range(s))
HasText(s) == \E e \in Range(s) : e.kind \in {"text", "textDelta"}

LEMMA Elements == ASSUME NEW S, NEW s \in Seq(S) PROVE IsSeq(s) /\ Range(s) \subseteq S
BY SeqOfRange, RangeOfSeq DEF IsSeq

LEMMA Joined ==
  ASSUME NEW s, NEW t, IsSeq(s), IsSeq(t)
  PROVE  IsSeq(s \o t) /\ Range(s \o t) = Range(s) \cup Range(t)
<1> DEFINE A == Range(s) \cup Range(t)
<1>1. s \in Seq(A) /\ t \in Seq(A)
  BY SeqMonotonic DEF IsSeq
<1>2. s \o t \in Seq(A) /\ Range(s \o t) = A
  BY <1>1, ConcatProperties, RangeConcatenation
<1> QED BY <1>2 DEF IsSeq

LEMMA Rest ==
  ASSUME NEW s, IsSeq(s), s # << >>
  PROVE  Head(s) \in Range(s) /\ IsSeq(Tail(s)) /\ Range(Tail(s)) \subseteq Range(s)
BY HeadTailProperties, Elements DEF IsSeq

LEMMA Prefix ==
  ASSUME NEW s, IsSeq(s), NEW n \in 0..Len(s)
  PROVE  IsSeq(SubSeq(s, 1, n)) /\ Range(SubSeq(s, 1, n)) \subseteq Range(s)
<1>1. SubSeq(s, 1, n) \in Seq(Range(s))
  BY SubSeqProperties, LenProperties DEF IsSeq
<1> QED BY <1>1, Elements

LEMMA NoEvent == IsSeq(<< >>) /\ Range(<< >>) = {} /\ ~HasText(<< >>)
BY DEF IsSeq, Range, HasText

LEMMA OneEvent ==
  ASSUME NEW k, NEW b
  PROVE  /\ IsSeq(<<Frame(k, b)>>) /\ Range(<<Frame(k, b)>>) = {Frame(k, b)}
         /\ k \notin {"text", "textDelta"} => ~HasText(<<Frame(k, b)>>)
<1>1. IsSeq(<<Frame(k, b)>>) /\ Range(<<Frame(k, b)>>) = {Frame(k, b)}
  BY DEF IsSeq, Range
<1>2. Frame(k, b).kind = k
  BY DEF Frame
<1> QED BY <1>1, <1>2 DEF HasText

LEMMA FinishWrites == IsSeq(Finish) /\ ~HasText(Finish)
<1> DEFINE a == Frame("message_delta", NoBlock)
           b == Frame("message_stop", NoBlock)
<1>1. IsSeq(<<a, b>>) /\ Range(<<a, b>>) = {a, b}
  BY DEF IsSeq, Range
<1>2. a.kind = "message_delta" /\ b.kind = "message_stop"
  BY DEF Frame
<1> QED BY <1>1, <1>2 DEF HasText, Finish

(***************************************************************************)
(* Only a text delta makes a sink write text.                                 *)
(***************************************************************************)
LEMMA WritesText ==
  ASSUME NEW d \in Dialects, NEW use, NEW snk, NEW f, f.kind \in FrameKinds
  PROVE  /\ IsSeq(Writes(d, use, snk, f))
         /\ HasText(Writes(d, use, snk, f)) => f.kind = "textDelta"
<1>1. CASE d = "native"
  <2>1. Writes(d, use, snk, f) = <<f>>
    BY <1>1 DEF Writes
  <2>2. IsSeq(<<f>>) /\ Range(<<f>>) = {f}
    BY DEF IsSeq, Range
  <2> QED BY <2>1, <2>2 DEF HasText, FrameKinds
<1>2. CASE d = "openai"
  <2>1. ASSUME NEW k, NEW b, k \notin {"text", "textDelta"} \/ f.kind = "textDelta"
        PROVE  /\ IsSeq(WithRole(snk, <<Frame(k, b)>>))
               /\ HasText(WithRole(snk, <<Frame(k, b)>>)) => f.kind = "textDelta"
    <3>1. /\ Range(<<Frame("role", NoBlock)>> \o <<Frame(k, b)>>) = {Frame("role", NoBlock), Frame(k, b)}
          /\ IsSeq(<<Frame("role", NoBlock)>> \o <<Frame(k, b)>>)
      BY OneEvent, Joined
    <3>2. Range(<<Frame(k, b)>>) = {Frame(k, b)} /\ IsSeq(<<Frame(k, b)>>)
      BY OneEvent
    <3>3. Frame("role", NoBlock).kind = "role" /\ Frame(k, b).kind = k
      BY DEF Frame
    <3> QED BY <2>1, <3>1, <3>2, <3>3 DEF WithRole, HasText
  <2> QED BY <1>2, <2>1, OneEvent, NoEvent DEF Writes, OpenAIWrites
<1>3. CASE d = "anthropic"
  <2>1. IsSeq(LazyStart(snk, f.block) \o <<Frame("text", f.block)>>)
    <3>1. IsSeq(LazyStart(snk, f.block)) /\ IsSeq(<<Frame("text", f.block)>>)
      BY OneEvent, NoEvent DEF LazyStart
    <3> QED BY <3>1, Joined
  <2> QED BY <1>3, <2>1, OneEvent, NoEvent, FinishWrites DEF Writes, AnthropicWrites
<1> QED BY <1>1, <1>2, <1>3 DEF Dialects

LEMMA CloseWritesNoText ==
  ASSUME NEW d \in Dialects, NEW snk
  PROVE  IsSeq(CloseWrites(d, snk)) /\ ~HasText(CloseWrites(d, snk))
<1>1. IsSeq(OpenAIClose(snk)) /\ ~HasText(OpenAIClose(snk))
  <2>1. Frame("finish", NoBlock).kind = "finish" /\ Frame("DONE", NoBlock).kind = "DONE"
    BY DEF Frame
  <2>2. ASSUME NEW s, s \in {<< >>, <<Frame("finish", NoBlock)>>}
        PROVE  IsSeq(s \o <<Frame("DONE", NoBlock)>>) /\ ~HasText(s \o <<Frame("DONE", NoBlock)>>)
    <3>1. IsSeq(s) /\ Range(s) \subseteq {Frame("finish", NoBlock)}
      BY <2>2, OneEvent, NoEvent
    <3>2. /\ IsSeq(s \o <<Frame("DONE", NoBlock)>>)
          /\ Range(s \o <<Frame("DONE", NoBlock)>>) \subseteq {Frame("finish", NoBlock), Frame("DONE", NoBlock)}
      BY <3>1, OneEvent, Joined
    <3> QED BY <2>1, <3>2 DEF HasText
  <2> QED BY <2>2 DEF OpenAIClose
<1> QED BY <1>1, NoEvent, FinishWrites DEF CloseWrites, AnthropicClose, Dialects

(***************************************************************************)
(* Text on the wire is counted.                                               *)
(***************************************************************************)
Adapters == [started : BOOLEAN, next : Nat, last : Nat, index : [1..MaxBlocks -> Nat], open : SUBSET Nat]

FramesOK(s) == IsSeq(s) /\ \A f \in Range(s) : f.kind \in FrameKinds

TextIsCounted ==
  /\ dialect \in Dialects
  /\ adapter \in Adapters /\ IsFiniteSet(adapter.open)
  /\ streamed \in Nat /\ output \in Nat
  /\ FramesOK(pending) /\ IsSeq(wire)
  /\ Running => result.status = 0 /\ (HasText(wire) => streamed > 0)
  /\ upstream.at \in {"idle", "buffered"} => wire = << >> /\ pending = << >>

TextInv == TextIsCounted /\ TextIsBilled

LEMMA TextInit == Init => TextInv
<1> SUFFICES ASSUME Init PROVE TextInv
  OBVIOUS
<1>1. adapter \in Adapters /\ IsFiniteSet(adapter.open)
  BY FS_EmptySet DEF Init, NewAdapter, Adapters
<1>2. wire = << >> /\ pending = << >> /\ result.status = 0
  BY DEF Init, NoResult
<1>3. FramesOK(pending) /\ IsSeq(wire) /\ ~HasText(wire)
  BY <1>2, NoEvent DEF FramesOK
<1>4. TextIsBilled
  BY <1>2 DEF TextIsBilled
<1>5. dialect \in Dialects /\ streamed = 0 /\ output = 0
  BY DEF Init
<1>6. TextIsCounted
  BY <1>1, <1>2, <1>3, <1>5 DEF TextIsCounted
<1> QED BY <1>4, <1>6 DEF TextInv

\* The end of a relay bills what was gathered.
LEMMA EndBills ==
  ASSUME TextIsCounted, upstream.at \notin {"idle", "buffered"}, upstream'.at \notin {"idle", "buffered"},
         UNCHANGED <<dialect, adapter>>,
         NEW why \in {"eof", "broken", "writeError", "canceled", "abort"},
         NEW deltas \in Nat, NEW snk, NEW before, IsSeq(before), HasText(before) => deltas > 0,
         End(why, failed, deltas, snk, before)
  PROVE  TextInv'
<1>1. PICK closing \in Sendings(CloseWrites(dialect, snk), client = "gone" \/ why = "writeError") : wire' = before \o closing
  BY DEF End
<1>2. IsSeq(closing) /\ ~HasText(closing)
  <2> DEFINE all == CloseWrites(dialect, snk)
  <2>1. IsSeq(all) /\ ~HasText(all)
    BY CloseWritesNoText DEF TextIsCounted
  <2>2. Len(all) \in Nat
    BY <2>1, LenProperties DEF IsSeq
  <2>3. PICK n \in 0..Len(all) : closing = SubSeq(all, 1, n)
    BY <1>1, <2>2 DEF Sendings
  <2> QED BY <2>1, <2>3, Prefix DEF HasText
<1>3. IsSeq(wire') /\ (HasText(wire') => deltas > 0)
  BY <1>1, <1>2, Joined DEF HasText
<1>4. /\ result'.output = (IF output = 0 THEN deltas ELSE output)
      /\ output' = result'.output /\ streamed' = deltas /\ pending' = << >> /\ cause' = why
  BY DEF End, Ended, Estimated
<1>5. output' \in Nat /\ (HasText(wire') => result'.output > 0)
  BY <1>3, <1>4 DEF TextIsCounted
<1>6. TextIsBilled'
  <2>1. DOMAIN wire' = 1..Len(wire')
    BY <1>3, LenProperties DEF IsSeq
  <2>2. Landed({"text", "textDelta"})' => HasText(wire')
    BY <2>1 DEF Landed, HasText, Range
  <2> QED BY <1>5, <2>2 DEF TextIsBilled
<1>7. FramesOK(pending')
  BY <1>4, NoEvent DEF FramesOK
<1>8. TextIsCounted'
  BY <1>3, <1>4, <1>5, <1>7 DEF TextIsCounted, Running
<1> QED BY <1>6, <1>8 DEF TextInv

\* What Mantle's adapter makes of an event is a sequence of frames.
LEMMA AdapterSpeaks ==
  ASSUME NEW a \in Adapters, IsFiniteSet(a.open),
         NEW said \in {"textDelta", "toolStart", "toolDelta", "completed", "exception", "messageStart", "blockStop"},
         NEW item \in 0..MaxBlocks
  PROVE  /\ AdapterAfter(a, said, item) \in Adapters /\ IsFiniteSet(AdapterAfter(a, said, item).open)
         /\ FramesOK(AdapterFrames(a, said, item))
<1>1. EnsureStarted(a) \in Adapters /\ EnsureStarted(a).open = a.open
  BY DEF EnsureStarted, Adapters
<1>2. LookupTool(a, item) \in Nat
  BY RelayAssumption DEF LookupTool, Adapters
<1>3. AddTool(a, item) \in Adapters /\ IsFiniteSet(AddTool(a, item).open)
  <2> DEFINE b == EnsureStarted(a)
             idx == IF b.next = 0 THEN 1 ELSE b.next
  <2>1. idx \in Nat
    BY <1>1 DEF Adapters
  <2>2. IsFiniteSet(b.open \cup {idx})
    BY <1>1, FS_AddElement
  <2>3. AddTool(a, item) = [b EXCEPT !.next = idx + 1, !.last = idx, !.index[item] = idx, !.open = @ \cup {idx}]
    BY DEF AddTool
  <2>4. b \in Adapters
    BY <1>1
  <2> HIDE DEF b, idx
  <2>5. [b.index EXCEPT ![item] = idx] \in [1..MaxBlocks -> Nat]
    BY <2>1, <2>4 DEF Adapters
  <2>6. AddTool(a, item) = [started |-> b.started, next |-> idx + 1, last |-> idx,
                            index |-> [b.index EXCEPT ![item] = idx], open |-> b.open \cup {idx}]
    BY <2>3, <2>4 DEF Adapters
  <2> QED BY <2>1, <2>2, <2>4, <2>5, <2>6 DEF Adapters
<1>4. AdapterAfter(a, said, item) \in Adapters /\ IsFiniteSet(AdapterAfter(a, said, item).open)
  <2>1. IsFiniteSet(a.open \cup {0}) /\ IsFiniteSet(a.open \cup {LookupTool(a, item)}) /\ IsFiniteSet({})
    BY FS_AddElement, FS_EmptySet
  <2>2. ASSUME NEW b \in Adapters, NEW o \in SUBSET Nat
        PROVE  [b EXCEPT !.open = o] \in Adapters /\ [b EXCEPT !.open = o].open = o
    BY DEF Adapters
  <2>3. a.open \cup {0} \in SUBSET Nat /\ a.open \cup {LookupTool(a, item)} \in SUBSET Nat
    BY <1>2 DEF Adapters
  <2> QED BY <1>1, <1>3, <2>1, <2>2, <2>3 DEF AdapterAfter
<1>5. ASSUME NEW k \in FrameKinds, NEW b PROVE FramesOK(<<Frame(k, b)>>)
  BY OneEvent DEF FramesOK, Frame
<1>6. FramesOK(StartFrames(a))
  BY <1>5, NoEvent DEF FramesOK, StartFrames, FrameKinds
<1>7. ASSUME NEW s, NEW t, FramesOK(s), FramesOK(t) PROVE FramesOK(s \o t)
  BY <1>7, Joined DEF FramesOK
<1>8. FramesOK(CloseFrames(a.open))
  <2> DEFINE n == Cardinality(a.open)
             F == [kind : FrameKinds, block : {ByIndex(a.open)[i] : i \in 1..n}]
  <2>1. n \in Nat
    BY FS_CardinalityType
  <2>2. CloseFrames(a.open) \in [1..n -> F]
    BY DEF CloseFrames, Frame, FrameKinds
  <2>3. CloseFrames(a.open) \in Seq(F)
    <3> HIDE DEF n, F
    <3> QED BY <2>1, <2>2, SeqDef
  <2>4. IsSeq(CloseFrames(a.open)) /\ Range(CloseFrames(a.open)) \subseteq F
    <3> HIDE DEF n, F
    <3> QED BY <2>3, Elements
  <2> QED BY <2>4 DEF FramesOK
<1>9. FramesOK(<<Frame("messageStop", NoBlock), Frame("metadata", NoBlock)>>)
  BY DEF FramesOK, IsSeq, Range, Frame, FrameKinds
<1>10. FramesOK(AdapterFrames(a, said, item))
  BY <1>5, <1>6, <1>7, <1>8, <1>9, NoEvent DEF AdapterFrames, FrameKinds, FramesOK
<1> QED BY <1>4, <1>10

LEMMA TextNext == OutcomeInv /\ TextInv /\ [Next]_vars => TextInv'
<1> SUFFICES ASSUME OutcomeInv, TextInv, [Next]_vars PROVE TextInv'
  OBVIOUS
<1>0. FlagIsTrue /\ TextIsCounted /\ TextIsBilled
  BY DEF OutcomeInv, TextInv
<1>1. CASE TakeRequest \/ RejectRequest \/ SendRequest \/ ReceiveAnswer \/ ReturnAnswer \/ CallFails
  <2>1. UNCHANGED <<dialect, relayState>>
    BY <1>1 DEF TakeRequest, RejectRequest, SendRequest, ReceiveAnswer, ReturnAnswer, CallFails, choice
  <2>2. upstream'.at \in {"idle", "buffered"} => upstream.at \in {"idle", "buffered"}
    BY <1>0, <1>1 DEF FlagIsTrue, TakeRequest, RejectRequest, SendRequest, ReceiveAnswer, ReturnAnswer, CallFails
  <2>3. \/ UNCHANGED <<cause, result>>
        \/ cause' # "" /\ (wire = << >> \/ result'.status # 200)
    <3>1. CASE ReturnAnswer
      BY <1>0, <3>1 DEF ReturnAnswer, FlagIsTrue, TextIsCounted
    <3>2. CASE RejectRequest
      BY <3>2 DEF RejectRequest, NoResult
    <3>3. CASE CallFails
      BY <1>0, <3>3 DEF CallFails, TextIsCounted
    <3> QED BY <1>1, <3>1, <3>2, <3>3 DEF TakeRequest, SendRequest, ReceiveAnswer
  <2>4. TextIsCounted'
    BY <1>0, <2>1, <2>2, <2>3 DEF TextIsCounted, Running, relayState
  <2>5. TextIsBilled'
    <3>1. wire' = wire
      BY <2>1 DEF relayState
    <3>2. CASE UNCHANGED <<cause, result>>
      BY <1>0, <3>1, <3>2 DEF TextIsBilled, Landed
    <3>3. CASE wire = << >> \/ result'.status # 200
      BY <3>1, <3>3 DEF TextIsBilled, Landed
    <3> QED BY <2>3, <3>2, <3>3
  <2> QED BY <2>4, <2>5 DEF TextInv
<1>2. CASE ReadBedrock
  <2>1. PICK said \in Says, extra \in Extras :
          LET parsed == ParseHeaders(HeaderBlock(said, extra))
              block == IF said \in {"toolStart", "textDelta", "toolDelta", "blockStop"}
                         THEN Advance(said).block - 1 ELSE NoBlock
          IN /\ upstream' = Advance(said)
             /\ \/ /\ parsed.ok
                   /\ pending' = <<Frame(FrameKind(parsed.headers), block)>>
                   /\ UNCHANGED <<streamed, output, wire, cause, result>>
                \/ End("broken", failed, streamed, sink, wire)
    BY <1>2 DEF ReadBedrock
  <2> DEFINE parsed == ParseHeaders(HeaderBlock(said, extra))
             block == IF said \in {"toolStart", "textDelta", "toolDelta", "blockStop"}
                        THEN Advance(said).block - 1 ELSE NoBlock
  <2>2. Running /\ UNCHANGED <<dialect, adapter>>
    BY <1>2 DEF ReadBedrock, choice
  <2>3. upstream.at \notin {"idle", "buffered"} /\ upstream'.at \notin {"idle", "buffered"}
    <3>1. upstream' = Advance(said)
      BY <2>1
    <3> QED BY <1>0, <3>1, Advances
  <2>4. ASSUME parsed.ok, pending' = <<Frame(FrameKind(parsed.headers), block)>>,
               UNCHANGED <<streamed, output, wire, cause, result>>
        PROVE  TextInv'
    <3>1. FrameKind(parsed.headers) \in FrameKinds
      BY <2>4, SaysWhat, FrameIsRead DEF FrameOf, FrameKinds
    <3> HIDE DEF parsed, block
    <3>2. FramesOK(pending')
      BY <2>4, <3>1, OneEvent DEF FramesOK, Frame
    <3>3. TextIsCounted'
      BY <1>0, <2>2, <2>3, <2>4, <3>2 DEF TextIsCounted, Running
    <3>4. TextIsBilled'
      BY <1>0, <2>4 DEF TextIsBilled, Landed
    <3> QED BY <3>3, <3>4 DEF TextInv
  <2>5. ASSUME End("broken", failed, streamed, sink, wire)
        PROVE  TextInv'
    BY <1>0, <2>2, <2>3, <2>5, EndBills DEF TextIsCounted
  <2> QED BY <2>1, <2>4, <2>5
<1>3. CASE ReadMantle
  <2>0. PICK said \in Says \ {"metadata"} :
          \E item \in {0, Advance(said).block}, tokens \in Reported :
            /\ upstream' = (IF said = "messageStop" THEN [Advance(said) EXCEPT !.at = "over"] ELSE Advance(said))
            /\ adapter' = AdapterAfter(adapter, MantleSays(said), item)
            /\ pending' = AdapterFrames(adapter, MantleSays(said), item)
            /\ output' = (IF said = "messageStop" THEN tokens ELSE output)
    BY <1>3 DEF ReadMantle
  <2>1. PICK item \in {0, Advance(said).block}, tokens \in Reported :
          /\ upstream' = (IF said = "messageStop" THEN [Advance(said) EXCEPT !.at = "over"] ELSE Advance(said))
          /\ adapter' = AdapterAfter(adapter, MantleSays(said), item)
          /\ pending' = AdapterFrames(adapter, MantleSays(said), item)
          /\ output' = (IF said = "messageStop" THEN tokens ELSE output)
    BY <2>0
  <2>2. Running /\ UNCHANGED <<dialect, streamed, wire, cause, result>>
    BY <1>3 DEF ReadMantle, choice
  <2>3. /\ Advance(said) \in [at : Places, block : 0..MaxBlocks, deltas : Nat]
        /\ upstream.at \notin {"idle", "buffered"}
        /\ upstream'.at \notin {"idle", "buffered"}
    <3>1. /\ Advance(said) \in [at : Places, block : 0..MaxBlocks, deltas : Nat]
          /\ Advance(said).at \notin {"idle", "buffered"} /\ upstream.at \notin {"idle", "buffered"}
      BY <1>0, Advances
    <3> QED BY <2>1, <3>1
  <2>4. item \in 0..MaxBlocks
    BY <2>3, RelayAssumption
  <2>5. MantleSays(said) \in {"textDelta", "toolStart", "toolDelta", "completed", "exception", "messageStart", "blockStop"}
    BY SaysWhat DEF FrameOf, MantleSays
  <2>6. adapter' \in Adapters /\ IsFiniteSet(adapter'.open) /\ FramesOK(pending')
    BY <1>0, <2>1, <2>4, <2>5, AdapterSpeaks DEF TextIsCounted
  <2>7. output' \in Nat
    BY <1>0, <2>1, RelayAssumption DEF TextIsCounted
  <2>8. TextIsCounted'
    BY <1>0, <2>2, <2>3, <2>6, <2>7 DEF TextIsCounted, Running
  <2>9. TextIsBilled'
    BY <1>0, <2>2 DEF TextIsBilled, Landed, TextIsCounted
  <2> QED BY <2>8, <2>9 DEF TextInv
<1>4. ASSUME pending # << >>
      PROVE  LET f == Head(pending)
                 w == Writes(dialect, includeUsage, sink, f)
             IN /\ IsSeq(w) /\ Gathered(f) \in Nat
                /\ (HasText(wire) => streamed > 0) => (HasText(wire) \/ HasText(w) => Gathered(f) > 0)
                /\ FramesOK(Tail(pending))
                /\ upstream.at \notin {"idle", "buffered"}
  <2> DEFINE f == Head(pending)
             w == Writes(dialect, includeUsage, sink, f)
  <2>1. f.kind \in FrameKinds /\ FramesOK(Tail(pending))
    BY <1>0, <1>4, Rest DEF TextIsCounted, FramesOK
  <2>2. IsSeq(w) /\ (HasText(w) => f.kind = "textDelta")
    BY <1>0, <2>1, WritesText DEF TextIsCounted
  <2> HIDE DEF f, w
  <2>3. Gathered(f) \in Nat /\ Gathered(f) >= streamed /\ (f.kind = "textDelta" => Gathered(f) > 0)
    BY <1>0 DEF Gathered, TextIsCounted
  <2>4. (HasText(wire) => streamed > 0) => (HasText(wire) \/ HasText(w) => Gathered(f) > 0)
    BY <1>0, <2>2, <2>3 DEF TextIsCounted
  <2>5. upstream.at \notin {"idle", "buffered"}
    BY <1>0, <1>4 DEF TextIsCounted
  <2> QED BY <2>1, <2>2, <2>3, <2>4, <2>5 DEF f, w
<1>5. CASE Deliver
  <2> DEFINE f == Head(pending)
             w == Writes(dialect, includeUsage, sink, f)
  <2>1. /\ Running /\ wire' = wire \o w /\ streamed' = Gathered(f) /\ pending' = Tail(pending)
        /\ UNCHANGED <<dialect, upstream, adapter, cause, result>>
        /\ pending # << >>
    BY <1>5 DEF Deliver, choice
  <2>2. output' \in Nat
    BY <1>0, <1>5, RelayAssumption DEF Deliver, TextIsCounted
  <2>3. /\ IsSeq(w) /\ Gathered(f) \in Nat /\ FramesOK(Tail(pending))
        /\ (HasText(wire) => streamed > 0) => (HasText(wire) \/ HasText(w) => Gathered(f) > 0)
        /\ upstream.at \notin {"idle", "buffered"}
    BY <1>4, <2>1
  <2> HIDE DEF f, w
  <2>4. IsSeq(wire') /\ (HasText(wire') => HasText(wire) \/ HasText(w))
    BY <1>0, <2>1, <2>3, Joined DEF TextIsCounted, HasText
  <2>5. TextIsCounted'
    BY <1>0, <2>1, <2>2, <2>3, <2>4 DEF TextIsCounted, Running
  <2>6. TextIsBilled'
    BY <1>0, <2>1 DEF TextIsBilled, TextIsCounted
  <2> QED BY <2>5, <2>6 DEF TextInv
<1>6. CASE WriteFails
  <2> DEFINE f == Head(pending)
             w == Writes(dialect, includeUsage, sink, f)
  <2>1. /\ Running /\ UNCHANGED <<dialect, upstream, adapter>>
        /\ pending # << >>
    BY <1>6 DEF WriteFails, choice
  <2>2. PICK why \in {"writeError", "abort"}, n \in 0..(Len(w) - 1) :
          End(why, failed, Gathered(f), SinkAfter(dialect, sink, f), wire \o SubSeq(w, 1, n))
    BY <1>6 DEF WriteFails
  <2>3. /\ IsSeq(w) /\ Gathered(f) \in Nat
        /\ (HasText(wire) => streamed > 0) => (HasText(wire) \/ HasText(w) => Gathered(f) > 0)
        /\ upstream.at \notin {"idle", "buffered"}
    BY <1>4, <2>1
  <2> HIDE DEF f, w
  <2>4. IsSeq(SubSeq(w, 1, n)) /\ Range(SubSeq(w, 1, n)) \subseteq Range(w)
    <3>1. Len(w) \in Nat
      BY <2>3, LenProperties DEF IsSeq
    <3> QED BY <2>3, <3>1, Prefix
  <2>5. IsSeq(wire \o SubSeq(w, 1, n)) /\ (HasText(wire \o SubSeq(w, 1, n)) => HasText(wire) \/ HasText(w))
    BY <1>0, <2>4, Joined DEF TextIsCounted, HasText
  <2>6. HasText(wire \o SubSeq(w, 1, n)) => Gathered(f) > 0
    BY <1>0, <2>1, <2>3, <2>5 DEF TextIsCounted
  <2> QED BY <1>0, <2>1, <2>2, <2>3, <2>5, <2>6, EndBills
<1>7. CASE BodyEnds \/ ReadFails
  <2>1. /\ Running /\ UNCHANGED <<dialect, adapter>>
        /\ upstream.at \notin {"idle", "buffered"}
    BY <1>7 DEF BodyEnds, ReadFails, choice
  <2>2. \E why \in {"eof", "broken", "canceled"} : End(why, failed, streamed, sink, wire)
    <3>1. \A avail \in {0, 5, PreludeLen, PreludeLen + 1} :
            ReadFrame([avail |-> avail, total |-> 64, headers |-> 40, preludeOK |-> TRUE, messageOK |-> TRUE])
              \in {"eof", "broken"}
      BY DEF ReadFrame, WellFormedPrelude, PreludeLen, TrailerLen, MaxFrameLen
    <3> QED BY <1>7, <3>1 DEF BodyEnds, ReadFails
  <2>3. upstream'.at \notin {"idle", "buffered"}
    BY <1>0, <1>7, <2>1 DEF BodyEnds, ReadFails, FlagIsTrue
  <2>4. streamed \in Nat /\ IsSeq(wire) /\ (HasText(wire) => streamed > 0)
    BY <1>0, <2>1 DEF TextIsCounted
  <2> QED BY <1>0, <2>1, <2>2, <2>3, <2>4, EndBills
<1>8. CASE HangUp \/ Finished \/ UNCHANGED vars
  <2>1. UNCHANGED <<dialect, upstream, adapter, pending, streamed, output, wire, cause, result>>
    BY <1>8 DEF HangUp, Finished, vars, choice
  <2>2. TextIsCounted'
    BY <1>0, <2>1 DEF TextIsCounted, Running
  <2>3. TextIsBilled'
    BY <1>0, <2>1 DEF TextIsBilled, Landed
  <2> QED BY <2>2, <2>3 DEF TextInv
<1> QED BY <1>1, <1>2, <1>3, <1>5, <1>6, <1>7, <1>8 DEF Next

\* No text is free: a call that is charged and whose client got text has output
\* tokens, whatever ended it.
THEOREM TextsAreBilled == Spec => []TextIsBilled
<1>1. Init => OutcomeInv /\ TextInv
  BY OutcomeInit, TextInit
<1>2. OutcomeInv /\ TextInv /\ [Next]_vars => (OutcomeInv /\ TextInv)'
  BY OutcomeNext, TextNext
<1>3. TextInv => TextIsBilled
  BY DEF TextInv
<1> QED BY <1>1, <1>2, <1>3, PTL DEF Spec

-----------------------------------------------------------------------------
(***************************************************************************)
(* What may follow what on the wire of a dialect d: the event e after the     *)
(* events of R, and the few events of a write, one after the other.           *)
(***************************************************************************)
Translated == {"openai", "anthropic"}
Announcement(d) == IF d = "openai" THEN "toolCall" ELSE "content_block_start"

Follows(d, R, e) ==
  /\ e = Frame(e.kind, e.block)
  /\ e.kind \in {"text", "arguments", "content_block_stop"} /\ e.block # NoBlock =>
       Frame(Announcement(d), e.block) \in R /\ Frame("content_block_stop", e.block) \notin R
  /\ e.kind \in {Announcement(d), "message_stop", "finish", "role"} => e \notin R
  /\ d = "openai" /\ e.kind \in {"text", "toolCall", "arguments"} => Frame("role", NoBlock) \in R
  /\ \A t \in R : t.kind \notin Terminal[d]

Continues(d, R, w) ==
  \/ w = << >>
  \/ \E a : w = <<a>> /\ Follows(d, R, a)
  \/ \E a, b : w = <<a, b>> /\ Follows(d, R, a) /\ Follows(d, R \cup {a}, b)

Earlier(w, i) == {w[j] : j \in 1..(i - 1)}
Well(d, w) == IsSeq(w) /\ \A i \in 1..Len(w) : Follows(d, Earlier(w, i), w[i])

LEMMA WellExtends ==
  ASSUME NEW d, NEW s, Well(d, s), NEW e, Follows(d, Range(s), e)
  PROVE  Well(d, s \o <<e>>) /\ Range(s \o <<e>>) = Range(s) \cup {e}
<1> DEFINE t == s \o <<e>>
<1>1. IsSeq(s) /\ IsSeq(<<e>>) /\ Range(<<e>>) = {e}
  BY DEF Well, IsSeq, Range
<1>2. IsSeq(t) /\ Range(t) = Range(s) \cup {e}
  BY <1>1, Joined
<1>3. /\ Len(s) \in Nat /\ Len(t) = Len(s) + 1 /\ t[Len(s) + 1] = e
      /\ \A i \in 1..Len(s) : t[i] = s[i]
      /\ Range(s) = {s[i] : i \in 1..Len(s)}
  <2>1. s \in Seq(Range(t)) /\ <<e>> \in Seq(Range(t)) /\ Len(<<e>>) = 1 /\ <<e>>[1] = e
    BY <1>1, <1>2, SeqMonotonic DEF IsSeq
  <2> HIDE DEF t
  <2>2. /\ Len(s \o <<e>>) = Len(s) + Len(<<e>>)
        /\ \A i \in 1..(Len(s) + Len(<<e>>)) :
             (s \o <<e>>)[i] = IF i <= Len(s) THEN s[i] ELSE <<e>>[i - Len(s)]
    BY <2>1, ConcatProperties
  <2>3. Len(s) \in Nat /\ DOMAIN s = 1..Len(s)
    BY <2>1, LenProperties
  <2>4. t = s \o <<e>>
    BY DEF t
  <2>5. (Len(s) + 1) - Len(s) = 1 /\ Len(s) + 1 \in 1..(Len(s) + 1) /\ ~(Len(s) + 1 <= Len(s))
    BY <2>3
  <2> QED BY <2>1, <2>2, <2>3, <2>4, <2>5 DEF Range
<1> HIDE DEF t
<1>4. ASSUME NEW i \in 1..Len(t) PROVE Follows(d, Earlier(t, i), t[i])
  <2>1. CASE i = Len(s) + 1
    <3>1. Earlier(t, i) = Range(s)
      BY <1>3, <2>1 DEF Earlier
    <3> QED BY <1>3, <2>1, <3>1
  <2>2. CASE i \in 1..Len(s)
    <3>1. Earlier(t, i) = Earlier(s, i) /\ t[i] = s[i]
      BY <1>3, <2>2 DEF Earlier
    <3> QED BY <2>2, <3>1 DEF Well
  <2> QED BY <1>3, <2>1, <2>2
<1> QED BY <1>2, <1>4 DEF t, Well

LEMMA TwoJoined == ASSUME NEW a, NEW b PROVE <<a>> \o <<b>> = <<a, b>>
<1> DEFINE A == {a, b}
           p == <<a>>
           q == <<b>>
           r == <<a, b>>
<1>1. p \in Seq(A) /\ q \in Seq(A) /\ r \in Seq(A)
  OBVIOUS
<1>2. /\ Len(p) = 1 /\ Len(q) = 1 /\ Len(r) = 2
      /\ p[1] = a /\ q[1] = b /\ r[1] = a /\ r[2] = b
  OBVIOUS
<1> HIDE DEF A, p, q, r
<1>3. /\ p \o q \in Seq(A) /\ Len(p \o q) = Len(p) + Len(q)
      /\ \A i \in 1..(Len(p) + Len(q)) : (p \o q)[i] = IF i <= Len(p) THEN p[i] ELSE q[i - Len(p)]
  BY <1>1, ConcatProperties
<1>4. Len(p) + Len(q) = 2
  BY <1>2
<1>5. (p \o q)[1] = r[1] /\ (p \o q)[2] = r[2]
  BY <1>2, <1>3, <1>4
<1>6. \A i \in 1..2 : i = 1 \/ i = 2
  OBVIOUS
<1>7. \A i \in 1..2 : (p \o q)[i] = r[i]
  BY <1>5, <1>6
<1>8. p \o q = r
  BY <1>1, <1>2, <1>3, <1>4, <1>7, SeqEqual
<1> QED BY <1>8 DEF p, q, r

LEMMA Pair ==
  ASSUME NEW s, IsSeq(s), NEW a, NEW b
  PROVE  (s \o <<a>>) \o <<b>> = s \o <<a, b>>
<1> DEFINE A == Range(s) \cup {a, b}
           p == <<a>>
           q == <<b>>
<1>1. s \in Seq(A) /\ p \in Seq(A) /\ q \in Seq(A)
  BY SeqMonotonic DEF IsSeq
<1>2. p \o q = <<a, b>>
  BY TwoJoined
<1> HIDE DEF A, p, q
<1>3. (s \o p) \o q = s \o (p \o q)
  BY <1>1, ConcatAssociative
<1> QED BY <1>2, <1>3 DEF p, q

LEMMA WellContinues ==
  ASSUME NEW d, NEW s, Well(d, s), NEW w, Continues(d, Range(s), w)
  PROVE  IsSeq(w) /\ Well(d, s \o w) /\ Range(s \o w) = Range(s) \cup Range(w)
<1>0. IsSeq(s)
  BY DEF Well
<1>1. CASE w = << >>
  <2>1. s \o w = s
    BY <1>0, <1>1, ConcatEmptySeq DEF IsSeq
  <2> QED BY <1>1, <2>1, NoEvent
<1>2. ASSUME NEW a, w = <<a>>, Follows(d, Range(s), a)
      PROVE  IsSeq(w) /\ Well(d, s \o w) /\ Range(s \o w) = Range(s) \cup Range(w)
  <2>1. IsSeq(<<a>>) /\ Range(<<a>>) = {a}
    BY DEF IsSeq, Range
  <2> QED BY <1>2, <2>1, WellExtends
<1>3. ASSUME NEW a, NEW b, w = <<a, b>>, Follows(d, Range(s), a), Follows(d, Range(s) \cup {a}, b)
      PROVE  IsSeq(w) /\ Well(d, s \o w) /\ Range(s \o w) = Range(s) \cup Range(w)
  <2> DEFINE t == s \o <<a>>
  <2>1. IsSeq(<<a, b>>) /\ Range(<<a, b>>) = {a, b}
    BY DEF IsSeq, Range
  <2>2. Well(d, t) /\ Range(t) = Range(s) \cup {a}
    BY <1>3, WellExtends
  <2>3. t \o <<b>> = s \o <<a, b>>
    BY <1>0, Pair
  <2> HIDE DEF t
  <2>4. Follows(d, Range(t), b)
    BY <1>3, <2>2
  <2>5. Well(d, t \o <<b>>) /\ Range(t \o <<b>>) = Range(t) \cup {b}
    BY <2>2, <2>4, WellExtends
  <2> QED BY <1>3, <2>1, <2>2, <2>3, <2>5
<1> QED BY <1>1, <1>2, <1>3 DEF Continues

LEMMA Shortened ==
  ASSUME NEW d, NEW R, NEW w, Continues(d, R, w), NEW n \in 0..Len(w)
  PROVE  Continues(d, R, SubSeq(w, 1, n)) /\ Range(SubSeq(w, 1, n)) \subseteq Range(w)
<1> DEFINE v == SubSeq(w, 1, n)
<1>1. n = 0 => v = << >>
  BY SubSeqEmpty
<1>2. ASSUME w \in Seq(Range(w)), n = Len(w) PROVE v = w
  BY <1>2, SubSeqFull
<1>3. Range(<< >>) = {}
  BY DEF Range
<1>4. ASSUME w = << >> PROVE Continues(d, R, v) /\ Range(v) \subseteq Range(w)
  <2>1. v = << >>
    BY <1>1, <1>4
  <2> HIDE DEF v
  <2> QED BY <1>3, <1>4, <2>1 DEF Continues
<1>5. ASSUME NEW a, w = <<a>>, Follows(d, R, a) PROVE Continues(d, R, v) /\ Range(v) \subseteq Range(w)
  <2>1. w \in Seq(Range(w)) /\ Len(w) = 1
    BY <1>5 DEF Range
  <2>2. v = << >> \/ v = w
    BY <1>1, <1>2, <2>1
  <2> QED BY <1>3, <1>5, <2>2 DEF Continues
<1>6. ASSUME NEW a, NEW b, w = <<a, b>>, Follows(d, R, a), Follows(d, R \cup {a}, b)
      PROVE  Continues(d, R, v) /\ Range(v) \subseteq Range(w)
  <2>1. w \in Seq(Range(w)) /\ Len(w) = 2 /\ Range(w) = {a, b} /\ w[1] = a
    BY <1>6 DEF Range
  <2>2. ASSUME n = 1 PROVE v = <<a>>
    <3>1. v \in Seq({a, b}) /\ Len(v) = 1 /\ v[1] = a
      BY <2>1, <2>2, SubSeqProperties
    <3>2. <<a>> \in Seq({a, b}) /\ Len(<<a>>) = 1 /\ <<a>>[1] = a
      OBVIOUS
    <3> HIDE DEF v
    <3> QED BY <3>1, <3>2, SeqEqual
  <2>3. v = << >> \/ v = <<a>> \/ v = w
    BY <1>1, <1>2, <2>1, <2>2
  <2>4. Range(<<a>>) = {a}
    BY DEF Range
  <2> HIDE DEF v
  <2> QED BY <1>3, <1>6, <2>1, <2>3, <2>4 DEF Continues
<1> QED BY <1>4, <1>5, <1>6 DEF Continues

\* A wire on which every event follows the earlier ones is a stream of its dialect.
LEMMA WellIsWellFormed ==
  ASSUME dialect \in Translated, Well(dialect, wire),
         StreamEnded /\ client = "here" /\ cause # "writeError" => wire # << >> /\ Last(wire).kind \in Terminal[dialect]
  PROVE  WireWellFormed
<1>1. ASSUME NEW i \in 1..Len(wire), NEW k, NEW b
      PROVE  Before(i, k, b) <=> Frame(k, b) \in Earlier(wire, i)
  BY DEF Before, Earlier
<1>2. ASSUME NEW i \in 1..Len(wire)
      PROVE  LET e == wire[i]
             IN /\ e.kind \in {"text", "arguments", "content_block_stop"} /\ e.block # NoBlock =>
                     /\ Before(i, Announcement(dialect), e.block)
                     /\ ~Before(i, "content_block_stop", e.block)
                /\ e.kind \in {Announcement(dialect), "message_stop", "finish", "role"} => ~Before(i, e.kind, e.block)
                /\ dialect = "openai" /\ e.kind \in {"text", "toolCall", "arguments"} => Before(i, "role", NoBlock)
                /\ e.kind \in Terminal[dialect] => i = Len(wire)
  <2> DEFINE e == wire[i]
  <2>1. Follows(dialect, Earlier(wire, i), e)
    BY DEF Well
  <2>2. e.kind \in Terminal[dialect] => i = Len(wire)
    <3>1. ASSUME i # Len(wire) PROVE e \in Earlier(wire, Len(wire)) /\ Len(wire) \in 1..Len(wire)
      <4>1. Len(wire) \in Nat
        BY LenProperties DEF Well, IsSeq
      <4> QED BY <3>1, <4>1 DEF Earlier
    <3>2. Len(wire) \in 1..Len(wire) => Follows(dialect, Earlier(wire, Len(wire)), wire[Len(wire)])
      BY DEF Well
    <3> QED BY <3>1, <3>2 DEF Follows
  <2> HIDE DEF e
  <2>3. e.kind \in {Announcement(dialect), "message_stop", "finish", "role"} => ~Before(i, e.kind, e.block)
    BY <1>1, <2>1 DEF Follows
  <2>4. e.kind \in {"text", "arguments", "content_block_stop"} /\ e.block # NoBlock =>
          /\ Before(i, Announcement(dialect), e.block)
          /\ ~Before(i, "content_block_stop", e.block)
    BY <1>1, <2>1 DEF Follows
  <2>5. dialect = "openai" /\ e.kind \in {"text", "toolCall", "arguments"} => Before(i, "role", NoBlock)
    BY <1>1, <2>1 DEF Follows
  <2> QED BY <2>2, <2>3, <2>4, <2>5 DEF e
<1> QED BY <1>2 DEF WireWellFormed, Announcement

-----------------------------------------------------------------------------
(***************************************************************************)
(* What the sink remembers of the events R it has written, and the frames it  *)
(* may be handed next.                                                        *)
(***************************************************************************)
Sinks == [opened : SUBSET Int, greeted : BOOLEAN, over : BOOLEAN, errored : BOOLEAN]

SinkTells(d, snk, R) ==
  /\ snk \in Sinks
  /\ d = "openai" =>
       /\ snk.greeted <=> Frame("role", NoBlock) \in R
       /\ \A b : b \in snk.opened <=> Frame("toolCall", b) \in R
       /\ snk.over <=> Frame("finish", NoBlock) \in R
       /\ \A e \in R : e.kind \notin {"content_block_stop", "DONE"}
  /\ d = "anthropic" =>
       /\ ~snk.greeted
       /\ \A b : b \in snk.opened <=> Frame("content_block_start", b) \in R
       /\ snk.over \/ snk.errored <=> \E e \in R : e.kind \in {"message_stop", "error"}

Stopped(R, b) == Frame("content_block_stop", b) \in R

Ready(d, snk, R, f) ==
  /\ f \in [kind : FrameKinds, block : Int]
  /\ f.kind = "messageStart" => ~snk.greeted
  /\ f.kind = "contentBlockStart" => f.block \notin snk.opened
  /\ f.kind = "toolDelta" => f.block \in snk.opened
  /\ f.kind \in {"textDelta", "toolDelta", "contentBlockStop"} => ~Stopped(R, f.block)
  /\ f.kind = "messageStop" /\ d = "openai" => ~snk.over
  /\ d = "anthropic" => ~snk.over /\ ~snk.errored

LEMMA OneFollows ==
  ASSUME NEW d, NEW R, NEW a, Follows(d, R, a), NEW w, w = <<a>>
  PROVE  Continues(d, R, w) /\ Range(w) = {a}
BY DEF Continues, Range

LEMMA TwoFollow ==
  ASSUME NEW d, NEW R, NEW a, NEW b, Follows(d, R, a), Follows(d, R \cup {a}, b), NEW w, w = <<a, b>>
  PROVE  Continues(d, R, w) /\ Range(w) = {a, b}
BY DEF Continues, Range

LEMMA NoneFollows == ASSUME NEW d, NEW R PROVE Continues(d, R, << >>)
BY DEF Continues

LEMMA FramesDiffer ==
  ASSUME NEW k, NEW b
  PROVE  /\ Frame(k, b).kind = k /\ Frame(k, b).block = b
         /\ \A j, c : Frame(j, c) = Frame(k, b) <=> j = k /\ c = b
BY DEF Frame

LEMMA FewEvents ==
  ASSUME NEW a, NEW b
  PROVE  Range(<< >>) = {} /\ Range(<<a>>) = {a} /\ Range(<<a, b>>) = {a, b}
BY DEF Range

\* A frame that is ready makes the sink write what may follow, and remember it.
LEMMA OpenAIDelivers ==
  ASSUME NEW snk, NEW R, NEW use, SinkTells("openai", snk, R),
         NEW f, Ready("openai", snk, R, f)
  PROVE  LET w == OpenAIWrites(snk, f, use)
         IN Continues("openai", R, w) /\ SinkTells("openai", OpenAISink(snk, f), R \cup Range(w))
<1> DEFINE w == OpenAIWrites(snk, f, use)
           new == OpenAISink(snk, f)
           role == Frame("role", NoBlock)
<1>1. /\ new \in Sinks
      /\ new.opened = (IF f.kind = "contentBlockStart" THEN snk.opened \cup {f.block} ELSE snk.opened)
      /\ new.greeted <=> snk.greeted \/ f.kind \in {"messageStart", "contentBlockStart", "textDelta", "toolDelta"}
      /\ new.over <=> snk.over \/ f.kind = "messageStop"
  BY DEF SinkTells, Ready, Sinks, OpenAISink
<1>2. ASSUME NEW k, NEW b, k \in {"toolCall", "arguments"} => b \in Int,
             k \in {"toolCall", "text", "arguments", "role", "finish", "usage"},
             k = "text" => b = NoBlock,
             k = "toolCall" => b \notin snk.opened, k = "arguments" => b \in snk.opened,
             k = "role" => ~snk.greeted /\ b = NoBlock,
             k = "finish" => ~snk.over /\ b = NoBlock,
             NEW Q, Q \in {R, R \cup {role}}, k = "role" => Q = R,
             k \in {"toolCall", "text", "arguments"} => role \in Q
      PROVE  Follows("openai", Q, Frame(k, b))
  BY <1>2 DEF Follows, SinkTells, Announcement, Terminal, Frame
<1>3. Follows("openai", R, role) \/ snk.greeted
  BY <1>2
<1>4. snk.greeted => role \in R
  BY DEF SinkTells
<1>5. ASSUME NEW e, Follows("openai", R \cup {role}, e) 
      PROVE  Continues("openai", R, WithRole(snk, <<e>>)) /\ Range(WithRole(snk, <<e>>)) \cup R = R \cup {e, role}
  <2>1. CASE snk.greeted
    <3>1. R \cup {role} = R
      BY <1>4, <2>1
    <3> QED BY <1>5, <2>1, <3>1, OneFollows DEF WithRole
  <2>2. CASE ~snk.greeted
    <3>1. WithRole(snk, <<e>>) = <<role, e>>
      BY <2>2, TwoJoined DEF WithRole
    <3>2. Follows("openai", R, role)
      BY <1>3, <2>2
    <3> QED BY <1>5, <3>1, <3>2, TwoFollow
  <2> QED BY <2>1, <2>2
<1>6. f \in [kind : FrameKinds, block : Int]
  BY DEF Ready
<1>7. CASE f.kind \in {"contentBlockStart", "textDelta", "toolDelta"}
  <2> DEFINE e == CASE f.kind = "contentBlockStart" -> Frame("toolCall", f.block)
                    [] f.kind = "textDelta" -> Frame("text", NoBlock)
                    [] f.kind = "toolDelta" -> Frame("arguments", f.block)
  <2>1. w = WithRole(snk, <<e>>)
    BY <1>7 DEF OpenAIWrites, Ready
  <2>2. Follows("openai", R \cup {role}, e)
    BY <1>2, <1>6, <1>7 DEF Ready
  <2>3. Continues("openai", R, w) /\ Range(w) \cup R = R \cup {e, role}
    BY <1>5, <2>1, <2>2
  <2>4. SinkTells("openai", new, R \cup {e, role})
    <3> HIDE DEF new
    <3>1. new.greeted /\ (new.over <=> snk.over)
      BY <1>1, <1>7
    <3>2. e.kind \in {"toolCall", "text", "arguments"} /\ (e.kind = "toolCall" <=> f.kind = "contentBlockStart")
          /\ (e.kind = "toolCall" => e = Frame("toolCall", f.block))
      BY <1>7, FramesDiffer
    <3> HIDE DEF e
    <3>3. \A b : b \in new.opened <=> Frame("toolCall", b) \in R \cup {e, role}
      BY <1>1, <3>2, FramesDiffer DEF SinkTells
    <3>4. Frame("finish", NoBlock) \in R \cup {e, role} <=> Frame("finish", NoBlock) \in R
      BY <3>2, FramesDiffer
    <3>5. \A t \in R \cup {e, role} : t.kind \notin {"content_block_stop", "DONE"}
      BY <3>2, FramesDiffer DEF SinkTells
    <3> QED BY <1>1, <3>1, <3>3, <3>4, <3>5 DEF SinkTells
  <2> QED BY <2>3, <2>4
<1>8. CASE f.kind \in {"messageStart", "messageStop"} \/ (f.kind = "metadata" /\ use)
  <2> DEFINE e == CASE f.kind = "messageStart" -> role
                    [] f.kind = "messageStop" -> Frame("finish", NoBlock)
                    [] f.kind = "metadata" -> Frame("usage", NoBlock)
  <2>1. w = <<e>>
    BY <1>8 DEF OpenAIWrites
  <2>2. Follows("openai", R, e)
    BY <1>2, <1>8 DEF Ready
  <2>3. SinkTells("openai", new, R \cup {e})
    <3> HIDE DEF new
    <3>1. /\ e \in {role, Frame("finish", NoBlock), Frame("usage", NoBlock)}
          /\ (e = role <=> f.kind = "messageStart") /\ (e = Frame("finish", NoBlock) <=> f.kind = "messageStop")
      BY <1>8, FramesDiffer
    <3> HIDE DEF e
    <3>2. \A b : b \in new.opened <=> Frame("toolCall", b) \in R \cup {e}
      BY <1>1, <1>8, <3>1, FramesDiffer DEF SinkTells
    <3>3. /\ Frame("finish", NoBlock) \in R \cup {e} <=> new.over
          /\ role \in R \cup {e} <=> new.greeted
      BY <1>1, <1>8, <3>1, FramesDiffer DEF SinkTells
    <3>5. \A t \in R \cup {e} : t.kind \notin {"content_block_stop", "DONE"}
      BY <3>1, FramesDiffer DEF SinkTells
    <3> QED BY <1>1, <3>2, <3>3, <3>5 DEF SinkTells
  <2>4. Continues("openai", R, w) /\ Range(w) = {e}
    BY <2>1, <2>2, OneFollows
  <2> QED BY <2>3, <2>4
<1>9. CASE f.kind \in {"contentBlockStop", "error"} \/ (f.kind = "metadata" /\ ~use)
  <2>1. w = << >>
    BY <1>9 DEF OpenAIWrites
  <2>2. SinkTells("openai", new, R)
    <3> HIDE DEF new
    <3> QED BY <1>1, <1>9 DEF SinkTells
  <2> QED BY <2>1, <2>2, NoneFollows, FewEvents
<1> QED BY <1>6, <1>7, <1>8, <1>9 DEF FrameKinds

LEMMA AnthropicDelivers ==
  ASSUME NEW snk, NEW R, SinkTells("anthropic", snk, R),
         NEW f, Ready("anthropic", snk, R, f)
  PROVE  LET w == AnthropicWrites(snk, f)
         IN /\ Continues("anthropic", R, w) /\ SinkTells("anthropic", AnthropicSink(snk, f), R \cup Range(w))
            /\ \A b : Frame("content_block_stop", b) \in Range(w) => f.kind = "contentBlockStop" /\ f.block = b
<1> DEFINE w == AnthropicWrites(snk, f)
           new == AnthropicSink(snk, f)
           start == Frame("content_block_start", f.block)
<1>1. /\ new \in Sinks /\ ~new.greeted
      /\ new.opened = (IF f.kind \in {"contentBlockStart", "textDelta"} THEN snk.opened \cup {f.block} ELSE snk.opened)
      /\ new.over <=> f.kind = "metadata"
      /\ new.errored <=> f.kind = "error"
  BY DEF SinkTells, Ready, Sinks, AnthropicSink
<1>2. f \in [kind : FrameKinds, block : Int] /\ ~snk.over /\ ~snk.errored
  BY DEF Ready
<1>3. \A e \in R : e.kind \notin {"message_stop", "error"}
  BY <1>2 DEF SinkTells
<1>4. ASSUME NEW k, NEW b, NEW Q, R \subseteq Q, \A e \in Q : e.kind \notin {"message_stop", "error"},
             k \in {"content_block_start", "text", "arguments", "content_block_stop", "message_start", "message_delta", "message_stop", "error"},
             k = "content_block_start" => Frame(k, b) \notin Q,
             k \in {"text", "arguments", "content_block_stop"} =>
               Frame("content_block_start", b) \in Q /\ Frame("content_block_stop", b) \notin Q
      PROVE  Follows("anthropic", Q, Frame(k, b))
  BY <1>4 DEF Follows, Announcement, Terminal, Frame
<1>5. ASSUME NEW X, NEW e, e \in X, X \subseteq {e, start, Frame("message_delta", NoBlock)},
             e.kind # "content_block_start",
             f.kind \in {"contentBlockStart", "textDelta"} => start \in R \cup X,
             start \in X => f.kind \in {"contentBlockStart", "textDelta"},
             e.kind \in {"message_stop", "error"} <=> f.kind \in {"metadata", "error"}
      PROVE  SinkTells("anthropic", new, R \cup X)
  <2> HIDE DEF new
  <2>1. \A b : b \in new.opened <=> Frame("content_block_start", b) \in R \cup X
    BY <1>1, <1>5, FramesDiffer DEF SinkTells
  <2>2. new.over \/ new.errored <=> \E x \in R \cup X : x.kind \in {"message_stop", "error"}
    BY <1>1, <1>3, <1>5, FramesDiffer
  <2> QED BY <1>1, <2>1, <2>2 DEF SinkTells
<1>6. SinkTells("anthropic", new, R) \/ f.kind \notin {"contentBlockStop", "messageStop"}
  <2> HIDE DEF new
  <2> QED BY <1>1, <1>2 DEF SinkTells
<1>7. CASE f.kind = "messageStart"
  <2>1. w = <<Frame("message_start", NoBlock)>>
    BY <1>7 DEF AnthropicWrites
  <2>2. Follows("anthropic", R, Frame("message_start", NoBlock))
    BY <1>3, <1>4
  <2>3. SinkTells("anthropic", new, R \cup {Frame("message_start", NoBlock)})
    <3> DEFINE e == Frame("message_start", NoBlock)
               X == {e}
    <3>1. e.kind = "message_start" /\ e # start
      BY FramesDiffer
    <3>2. e \in X /\ X \subseteq {e, start, Frame("message_delta", NoBlock)} /\ start \notin X
      BY <3>1
    <3> HIDE DEF e, X, new
    <3>3. SinkTells("anthropic", new, R \cup X)
      BY <1>5, <1>7, <3>1, <3>2
    <3> QED BY <3>3 DEF X, e
  <2>4. Continues("anthropic", R, w) /\ Range(w) = {Frame("message_start", NoBlock)}
    BY <2>1, <2>2, OneFollows
  <2> QED BY <2>3, <2>4, FramesDiffer
<1>8. CASE f.kind = "contentBlockStart"
  <2>1. w = <<start>>
    BY <1>8 DEF AnthropicWrites
  <2>2. Follows("anthropic", R, start)
    BY <1>3, <1>4, <1>8 DEF Ready, SinkTells
  <2>3. SinkTells("anthropic", new, R \cup {start})
    <3> HIDE DEF new
    <3>1. \A b : b \in new.opened <=> Frame("content_block_start", b) \in R \cup {start}
      BY <1>1, <1>8, FramesDiffer DEF SinkTells
    <3>2. ~new.over /\ ~new.errored /\ \A e \in R \cup {start} : e.kind \notin {"message_stop", "error"}
      BY <1>1, <1>3, <1>8, FramesDiffer
    <3> QED BY <1>1, <3>1, <3>2 DEF SinkTells
  <2>4. Continues("anthropic", R, w) /\ Range(w) = {start}
    BY <2>1, <2>2, OneFollows
  <2> QED BY <2>3, <2>4, FramesDiffer
<1>9. CASE f.kind = "textDelta"
  <2> DEFINE e == Frame("text", f.block)
  <2>1. e # start /\ e.kind = "text" /\ start.kind = "content_block_start" /\ e \notin {Frame("content_block_stop", f.block)}
        /\ start # Frame("content_block_stop", f.block)
    BY FramesDiffer
  <2>2. Frame("content_block_stop", f.block) \notin R
    BY <1>9 DEF Ready, Stopped
  <2>3. CASE f.block \in snk.opened
    <3>1. start \in R
      BY <2>3 DEF SinkTells
    <3>2. w = <<e>>
      <4>1. <<e>> \in Seq({e})
        OBVIOUS
      <4>2. << >> \o <<e>> = <<e>>
        BY <4>1, ConcatEmptySeq
      <4>3. AnthropicWrites(snk, f) = LazyStart(snk, f.block) \o <<Frame("text", f.block)>>
        BY <1>9 DEF AnthropicWrites
      <4>4. LazyStart(snk, f.block) = << >>
        BY <2>3 DEF LazyStart
      <4> QED BY <4>2, <4>3, <4>4
    <3>3. Follows("anthropic", R, e)
      BY <1>3, <1>4, <2>2, <3>1
    <3>4. SinkTells("anthropic", new, R \cup {e})
      BY <1>5, <1>9, <2>1, <3>1
    <3>5. Continues("anthropic", R, w) /\ Range(w) = {e}
      BY <3>2, <3>3, OneFollows
    <3> QED BY <3>4, <3>5, FramesDiffer
  <2>4. CASE f.block \notin snk.opened
    <3>1. start \notin R
      BY <2>4 DEF SinkTells
    <3>2. w = <<start, e>>
      <4>1. AnthropicWrites(snk, f) = LazyStart(snk, f.block) \o <<Frame("text", f.block)>>
        BY <1>9 DEF AnthropicWrites
      <4>2. LazyStart(snk, f.block) = <<start>>
        BY <2>4 DEF LazyStart
      <4> QED BY <4>1, <4>2, TwoJoined
    <3>3. Follows("anthropic", R, start)
      BY <1>3, <1>4, <3>1
    <3>4. Follows("anthropic", R \cup {start}, e)
      <4>1. \A t \in R \cup {start} : t.kind \notin {"message_stop", "error"}
        BY <1>3, <2>1
      <4>2. Frame("content_block_stop", f.block) \notin R \cup {start}
        BY <2>1, <2>2
      <4> QED BY <1>4, <4>1, <4>2
    <3>5. SinkTells("anthropic", new, R \cup {start, e})
      BY <1>5, <1>9, <2>1
    <3>6. Continues("anthropic", R, w) /\ Range(w) = {start, e}
      BY <3>2, <3>3, <3>4, TwoFollow
    <3> QED BY <3>5, <3>6, FramesDiffer
  <2> QED BY <2>3, <2>4
<1>10. CASE f.kind = "toolDelta" \/ (f.kind = "contentBlockStop" /\ f.block \in snk.opened)
  <2> DEFINE e == IF f.kind = "toolDelta" THEN Frame("arguments", f.block) ELSE Frame("content_block_stop", f.block)
  <2>1. w = <<e>>
    BY <1>10 DEF AnthropicWrites
  <2>2. start \in R /\ Frame("content_block_stop", f.block) \notin R
    BY <1>10 DEF Ready, SinkTells, Stopped
  <2>3. Follows("anthropic", R, e)
    BY <1>3, <1>4, <2>2
  <2>4. SinkTells("anthropic", new, R \cup {e})
    <3> DEFINE X == {e}
    <3>1. e.kind \in {"arguments", "content_block_stop"} /\ e # start
      BY FramesDiffer
    <3>2. e \in X /\ X \subseteq {e, start, Frame("message_delta", NoBlock)} /\ start \notin X
      BY <3>1
    <3> HIDE DEF e, X, new
    <3>3. SinkTells("anthropic", new, R \cup X)
      BY <1>5, <1>10, <3>1, <3>2
    <3> QED BY <3>3 DEF X
  <2>5. Continues("anthropic", R, w) /\ Range(w) = {e}
    BY <2>1, <2>3, OneFollows
  <2> QED BY <1>10, <2>4, <2>5, FramesDiffer
<1>11. CASE f.kind = "metadata"
  <2> DEFINE a == Frame("message_delta", NoBlock)
             e == Frame("message_stop", NoBlock)
  <2>1. w = <<a, e>>
    BY <1>2, <1>11 DEF AnthropicWrites, Finish
  <2>2. Follows("anthropic", R, a)
    BY <1>3, <1>4
  <2>3. Follows("anthropic", R \cup {a}, e)
    <3>1. \A t \in R \cup {a} : t.kind \notin {"message_stop", "error"}
      BY <1>3, FramesDiffer
    <3> QED BY <1>4, <3>1
  <2>4. SinkTells("anthropic", new, R \cup {a, e})
    <3> DEFINE X == {a, e}
    <3>1. e.kind = "message_stop" /\ e # start /\ a # start
      BY FramesDiffer
    <3>2. e \in X /\ X \subseteq {e, start, Frame("message_delta", NoBlock)} /\ start \notin X
      BY <3>1
    <3> HIDE DEF a, e, X, new
    <3>3. SinkTells("anthropic", new, R \cup X)
      BY <1>5, <1>11, <3>1, <3>2
    <3> QED BY <3>3 DEF X
  <2>5. Continues("anthropic", R, w) /\ Range(w) = {a, e}
    BY <2>1, <2>2, <2>3, TwoFollow
  <2> QED BY <2>4, <2>5, FramesDiffer
<1>12. CASE f.kind = "error"
  <2> DEFINE e == Frame("error", NoBlock)
  <2>1. w = <<e>>
    BY <1>12 DEF AnthropicWrites
  <2>2. Follows("anthropic", R, e)
    BY <1>3, <1>4
  <2>3. SinkTells("anthropic", new, R \cup {e})
    <3> DEFINE X == {e}
    <3>1. e.kind = "error" /\ e # start
      BY FramesDiffer
    <3>2. e \in X /\ X \subseteq {e, start, Frame("message_delta", NoBlock)} /\ start \notin X
      BY <3>1
    <3> HIDE DEF e, X, new
    <3>3. SinkTells("anthropic", new, R \cup X)
      BY <1>5, <1>12, <3>1, <3>2
    <3> QED BY <3>3 DEF X
  <2>4. Continues("anthropic", R, w) /\ Range(w) = {e}
    BY <2>1, <2>2, OneFollows
  <2> QED BY <2>3, <2>4, FramesDiffer
<1>13. CASE f.kind = "messageStop" \/ (f.kind = "contentBlockStop" /\ f.block \notin snk.opened)
  <2>1. w = << >>
    BY <1>13 DEF AnthropicWrites
  <2>2. Continues("anthropic", R, w) /\ Range(w) = {}
    BY <2>1, NoneFollows, FewEvents
  <2> QED BY <1>6, <1>13, <2>2
<1> QED BY <1>2, <1>7, <1>8, <1>9, <1>10, <1>11, <1>12, <1>13 DEF FrameKinds

\* Delivering the frame f leaves the frame g ready.
Apart(f, g) ==
  /\ f.kind \in {"messageStart", "contentBlockStop", "messageStop"}
  /\ g.kind \notin {"messageStart", "toolDelta"}
  /\ f.kind # "messageStart" => g.kind \in {"contentBlockStop", "messageStop", "metadata"}
  /\ f.kind = g.kind => f.kind = "contentBlockStop" /\ f.block # g.block

QueueReady(d, snk, R, q) ==
  /\ \A i \in 1..Len(q) : Ready(d, snk, R, q[i])
  /\ \A i, j \in 1..Len(q) : i < j => Apart(q[i], q[j])

LEMMA Delivers ==
  ASSUME NEW d \in Translated, NEW snk, NEW R, NEW use, SinkTells(d, snk, R),
         NEW f, Ready(d, snk, R, f)
  PROVE  LET w == Writes(d, use, snk, f)
             new == SinkAfter(d, snk, f)
         IN /\ Continues(d, R, w) /\ SinkTells(d, new, R \cup Range(w))
            /\ \A b : Stopped(R \cup Range(w), b) => Stopped(R, b) \/ (f.kind = "contentBlockStop" /\ f.block = b)
            /\ new.greeted => snk.greeted \/ f.kind # "error"
            /\ \A b : b \in new.opened <=>
                 \/ b \in snk.opened
                 \/ b = f.block /\ (f.kind = "contentBlockStart" \/ (d = "anthropic" /\ f.kind = "textDelta"))
            /\ new.over <=> snk.over \/ f.kind = (IF d = "openai" THEN "messageStop" ELSE "metadata")
            /\ new.errored <=> snk.errored \/ (d = "anthropic" /\ f.kind = "error")
<1>1. CASE d = "openai"
  <2> DEFINE w == OpenAIWrites(snk, f, use)
  <2>1. Continues("openai", R, w) /\ SinkTells("openai", OpenAISink(snk, f), R \cup Range(w))
    BY <1>1, OpenAIDelivers
  <2>2. \A b : ~Stopped(R \cup Range(w), b)
    <3>1. \A e \in R \cup Range(w) : e.kind # "content_block_stop"
      BY <2>1 DEF SinkTells
    <3> QED BY <3>1, FramesDiffer DEF Stopped
  <2>3. LET new == OpenAISink(snk, f)
        IN /\ new.greeted => snk.greeted \/ f.kind # "error"
           /\ \A b : b \in new.opened <=> b \in snk.opened \/ (b = f.block /\ f.kind = "contentBlockStart")
           /\ new.over <=> snk.over \/ f.kind = "messageStop"
           /\ new.errored <=> snk.errored
    BY <1>1 DEF SinkTells, Sinks, OpenAISink
  <2> QED BY <1>1, <2>1, <2>2, <2>3 DEF Writes, SinkAfter
<1>2. CASE d = "anthropic"
  <2> DEFINE w == AnthropicWrites(snk, f)
             new == AnthropicSink(snk, f)
  <2>1. /\ Continues("anthropic", R, w) /\ SinkTells("anthropic", AnthropicSink(snk, f), R \cup Range(w))
        /\ \A b : Frame("content_block_stop", b) \in Range(w) => f.kind = "contentBlockStop" /\ f.block = b
    BY <1>2, AnthropicDelivers
  <2>2. \A b : Stopped(R \cup Range(w), b) => Stopped(R, b) \/ (f.kind = "contentBlockStop" /\ f.block = b)
    BY <2>1 DEF Stopped
  <2>3. /\ ~new.greeted
        /\ \A b : b \in new.opened <=> b \in snk.opened \/ (b = f.block /\ f.kind \in {"contentBlockStart", "textDelta"})
        /\ new.over <=> snk.over \/ f.kind = "metadata"
        /\ new.errored <=> snk.errored \/ f.kind = "error"
    BY <1>2 DEF SinkTells, Sinks, AnthropicSink
  <2> QED BY <1>2, <2>1, <2>2, <2>3 DEF Writes, SinkAfter
<1> QED BY <1>1, <1>2 DEF Translated

LEMMA StaysReady ==
  ASSUME NEW d \in Translated, NEW snk, NEW R, NEW use, SinkTells(d, snk, R),
         NEW f, Ready(d, snk, R, f), NEW g, Ready(d, snk, R, g), Apart(f, g)
  PROVE  Ready(d, SinkAfter(d, snk, f), R \cup Range(Writes(d, use, snk, f)), g)
<1> DEFINE new == SinkAfter(d, snk, f)
           Q == R \cup Range(Writes(d, use, snk, f))
<1>1. /\ \A b : Stopped(Q, b) => Stopped(R, b) \/ (f.kind = "contentBlockStop" /\ f.block = b)
      /\ \A b : b \in new.opened <=>
           \/ b \in snk.opened
           \/ b = f.block /\ (f.kind = "contentBlockStart" \/ (d = "anthropic" /\ f.kind = "textDelta"))
      /\ new.over <=> snk.over \/ f.kind = (IF d = "openai" THEN "messageStop" ELSE "metadata")
      /\ new.errored <=> snk.errored \/ (d = "anthropic" /\ f.kind = "error")
  BY Delivers
<1> HIDE DEF new, Q
<1>2. Ready(d, new, Q, g)
  BY <1>1 DEF Ready, Apart
<1> QED BY <1>2 DEF new, Q

LEMMA QueueMoves ==
  ASSUME NEW d \in Translated, NEW snk, NEW R, NEW use, SinkTells(d, snk, R),
         NEW q, IsSeq(q), q # << >>, QueueReady(d, snk, R, q)
  PROVE  /\ Ready(d, snk, R, Head(q))
         /\ QueueReady(d, SinkAfter(d, snk, Head(q)), R \cup Range(Writes(d, use, snk, Head(q))), Tail(q))
<1>1. /\ Len(q) \in Nat \ {0} /\ Len(Tail(q)) = Len(q) - 1 /\ Head(q) = q[1]
      /\ \A i \in 1..Len(Tail(q)) : Tail(q)[i] = q[i + 1]
  BY HeadTailProperties, EmptySeq DEF IsSeq
<1>2. Ready(d, snk, R, Head(q))
  BY <1>1 DEF QueueReady
<1>3. ASSUME NEW i \in 1..Len(Tail(q))
      PROVE  Ready(d, SinkAfter(d, snk, Head(q)), R \cup Range(Writes(d, use, snk, Head(q))), Tail(q)[i])
  <2>1. i + 1 \in 1..Len(q) /\ 1 < i + 1 /\ 1 \in 1..Len(q)
    BY <1>1
  <2>2. Ready(d, snk, R, q[i + 1]) /\ Apart(q[1], q[i + 1])
    BY <2>1 DEF QueueReady
  <2> QED BY <1>1, <1>2, <2>2, StaysReady
<1>4. ASSUME NEW i \in 1..Len(Tail(q)), NEW j \in 1..Len(Tail(q)), i < j
      PROVE  Apart(Tail(q)[i], Tail(q)[j])
  <2>1. i + 1 \in 1..Len(q) /\ j + 1 \in 1..Len(q) /\ i + 1 < j + 1
    BY <1>1, <1>4
  <2>2. Apart(q[i + 1], q[j + 1])
    BY <2>1 DEF QueueReady
  <2> QED BY <1>1, <2>2
<1> QED BY <1>2, <1>3, <1>4 DEF QueueReady

\* What Close writes may follow what has been written, all of it or not.
MayClose(d, snk, R) ==
  /\ d = "openai" =>
       /\ ~snk.over => Frame("finish", NoBlock) \notin R
       /\ \A e \in R : e.kind # "DONE"
  /\ d = "anthropic" /\ ~snk.over /\ ~snk.errored => \A e \in R : e.kind \notin {"message_stop", "error"}

LEMMA ClosesAnyTime ==
  ASSUME NEW d \in Translated, NEW snk, NEW R, SinkTells(d, snk, R), NEW Q, Q \subseteq R
  PROVE  MayClose(d, snk, Q)
BY DEF SinkTells, MayClose

LEMMA Closes ==
  ASSUME NEW d \in Translated, NEW snk, NEW R, MayClose(d, snk, R)
  PROVE  /\ Continues(d, R, CloseWrites(d, snk))
         /\ \/ \E a, e : e.kind \in Terminal[d] /\ CloseWrites(d, snk) \in {<<e>>, <<a, e>>}
            \/ d = "anthropic" /\ (snk.over \/ snk.errored) /\ CloseWrites(d, snk) = << >>
<1>1. CASE d = "openai"
  <2> DEFINE a == Frame("finish", NoBlock)
             e == Frame("DONE", NoBlock)
  <2>1. /\ a.kind = "finish" /\ e.kind = "DONE" /\ a.block = NoBlock /\ e.block = NoBlock
        /\ a = Frame(a.kind, a.block) /\ e = Frame(e.kind, e.block)
    BY FramesDiffer
  <2>2. CloseWrites(d, snk) = IF snk.over THEN <<e>> ELSE <<a, e>>
    <3>1. << >> \o <<e>> = <<e>>
      <4>1. <<e>> \in Seq({e})
        OBVIOUS
      <4> QED BY <4>1, ConcatEmptySeq
    <3>2. <<a>> \o <<e>> = <<a, e>>
      BY TwoJoined
    <3> QED BY <1>1, <3>1, <3>2 DEF CloseWrites, OpenAIClose
  <2> HIDE DEF a, e
  <2>3. Follows(d, R, e) /\ (~snk.over => Follows(d, R, a) /\ Follows(d, R \cup {a}, e))
    BY <1>1, <2>1 DEF MayClose, Follows, Terminal, Announcement, a
  <2>4. e.kind \in Terminal[d]
    BY <1>1, <2>1 DEF Terminal
  <2> QED BY <2>2, <2>3, <2>4, OneFollows, TwoFollow
<1>2. CASE d = "anthropic" /\ (snk.over \/ snk.errored)
  <2>1. CloseWrites(d, snk) = << >>
    BY <1>2 DEF CloseWrites, AnthropicClose
  <2> QED BY <1>2, <2>1, NoneFollows
<1>3. CASE d = "anthropic" /\ ~snk.over /\ ~snk.errored
  <2> DEFINE a == Frame("message_delta", NoBlock)
             e == Frame("message_stop", NoBlock)
  <2>1. /\ a.kind = "message_delta" /\ e.kind = "message_stop" /\ a.block = NoBlock /\ e.block = NoBlock
        /\ a = Frame(a.kind, a.block) /\ e = Frame(e.kind, e.block)
    BY FramesDiffer
  <2>2. CloseWrites(d, snk) = <<a, e>>
    BY <1>3 DEF CloseWrites, AnthropicClose, Finish
  <2> HIDE DEF a, e
  <2>3. Follows(d, R, a) /\ Follows(d, R \cup {a}, e)
    BY <1>3, <2>1 DEF MayClose, Follows, Terminal, Announcement
  <2>4. e.kind \in Terminal[d]
    BY <1>3, <2>1 DEF Terminal
  <2> QED BY <2>2, <2>3, <2>4, TwoFollow
<1> QED BY <1>1, <1>2, <1>3 DEF Translated

-----------------------------------------------------------------------------
(***************************************************************************)
(* What the provider, the adapter and the frames F still to be delivered say  *)
(* of the blocks announced and ended.                                         *)
(***************************************************************************)
Opens(d, f) == f.kind = "contentBlockStart" \/ (d = "anthropic" /\ f.kind = "textDelta")
Awaits(F, kind) == \E f \in F : f.kind = kind
Opening(d, snk, F, b) == b \in snk.opened \/ \E f \in F : Opens(d, f) /\ f.block = b
Stopping(R, F, b) == Stopped(R, b) \/ \E f \in F : f.kind = "contentBlockStop" /\ f.block = b

PlaceInv(d, u, snk, R, F) ==
  /\ u.at \in {"idle", "buffered", "start"} => R = {} /\ F = {} /\ snk = NewSink
  /\ (d = "openai" /\ snk.over) \/ Awaits(F, "messageStop") => u.at \in {"stopped", "over", "aborted"}
  /\ (d = "anthropic" /\ snk.over) \/ Awaits(F, "metadata") => u.at = "over"
  /\ snk.errored \/ Awaits(F, "error") => u.at = "aborted"

\* Bedrock numbers the blocks as it sends them, and ends the last one last.
BedrockInv(d, u, snk, R, F) ==
  /\ \A b : Opening(d, snk, F, b) \/ Stopping(R, F, b) => b \in 0..(u.block - 1)
  /\ u.at \in {"text", "tool"} => u.block > 0 /\ ~Stopping(R, F, u.block - 1)
  /\ u.at = "tool" => Opening(d, snk, F, u.block - 1)

\* The adapter numbers Mantle's blocks, and ends them when the answer is complete.
MantleInv(d, u, a, snk, R, F) ==
  /\ a.started <=> a.next > 0
  /\ ~a.started => ~snk.greeted /\ a.last = 0 /\ \A f \in F : f.kind = "error"
  /\ \A b : Opening(d, snk, F, b) => b \in 0..(a.next - 1)
  /\ \A b : Stopping(R, F, b) => u.at = "over"
  /\ u.at = "tool" => a.last > 0
  /\ a.last > 0 => Opening(d, snk, F, a.last)
  /\ \A i \in 1..MaxBlocks : a.index[i] > 0 => Opening(d, snk, F, a.index[i])

LEMMA HeadAndRest ==
  ASSUME NEW q, IsSeq(q), q # << >>
  PROVE  IsSeq(Tail(q)) /\ Range(q) = {Head(q)} \cup Range(Tail(q))
<1>1. /\ Len(q) \in Nat \ {0} /\ Len(Tail(q)) = Len(q) - 1 /\ Head(q) = q[1]
      /\ \A i \in 1..Len(Tail(q)) : Tail(q)[i] = q[i + 1]
      /\ Tail(q) \in Seq(Range(q))
  BY HeadTailProperties, EmptySeq DEF IsSeq
<1>2. DOMAIN q = 1..Len(q) /\ DOMAIN Tail(q) = 1..Len(Tail(q))
  BY <1>1, LenProperties DEF IsSeq
<1>3. \A i \in 1..Len(q) : i = 1 \/ (i - 1 \in 1..Len(Tail(q)) /\ q[i] = Tail(q)[i - 1])
  <2> SUFFICES ASSUME NEW i \in 1..Len(q), i # 1 PROVE i - 1 \in 1..Len(Tail(q)) /\ q[i] = Tail(q)[i - 1]
    OBVIOUS
  <2>1. i - 1 \in 1..Len(Tail(q)) /\ (i - 1) + 1 = i
    BY <1>1
  <2> QED BY <1>1, <2>1
<1>4. ASSUME NEW x \in Range(q) PROVE x = Head(q) \/ x \in Range(Tail(q))
  <2>1. PICK i \in 1..Len(q) : x = q[i]
    BY <1>2 DEF Range
  <2> DEFINE t == Tail(q)
  <2>2. \A j \in 1..Len(t) : t[j] \in Range(t)
    <3> HIDE DEF t
    <3> QED BY <1>2 DEF t, Range
  <2> QED BY <1>1, <1>3, <2>1, <2>2
<1>5. Head(q) \in Range(q) /\ Range(Tail(q)) \subseteq Range(q) /\ IsSeq(Tail(q))
  BY Rest
<1> QED BY <1>4, <1>5

LEMMA DeliveryKeeps ==
  ASSUME NEW d \in Translated, NEW snk, NEW R, NEW use, SinkTells(d, snk, R),
         NEW f, NEW G, Ready(d, snk, R, f), NEW u, NEW a
  PROVE  LET new == SinkAfter(d, snk, f)
             Q == R \cup Range(Writes(d, use, snk, f))
             F == {f} \cup G
         IN /\ PlaceInv(d, u, snk, R, F) => PlaceInv(d, u, new, Q, G)
            /\ BedrockInv(d, u, snk, R, F) => BedrockInv(d, u, new, Q, G)
            /\ MantleInv(d, u, a, snk, R, F) => MantleInv(d, u, a, new, Q, G)
<1> DEFINE new == SinkAfter(d, snk, f)
           Q == R \cup Range(Writes(d, use, snk, f))
           F == {f} \cup G
<1>1. /\ \A b : Stopped(Q, b) => Stopped(R, b) \/ (f.kind = "contentBlockStop" /\ f.block = b)
      /\ new.greeted => snk.greeted \/ f.kind # "error"
      /\ \A b : b \in new.opened <=>
           \/ b \in snk.opened
           \/ b = f.block /\ (f.kind = "contentBlockStart" \/ (d = "anthropic" /\ f.kind = "textDelta"))
      /\ new.over <=> snk.over \/ f.kind = (IF d = "openai" THEN "messageStop" ELSE "metadata")
      /\ new.errored <=> snk.errored \/ (d = "anthropic" /\ f.kind = "error")
  BY Delivers
<1> HIDE DEF new, Q
<1>2. \A b : Opening(d, new, G, b) <=> Opening(d, snk, F, b)
  BY <1>1 DEF Opening, Opens
<1>3. \A b : Stopping(Q, G, b) => Stopping(R, F, b)
  BY <1>1 DEF Stopping
<1>4. /\ \A k : Awaits(G, k) => Awaits(F, k)
      /\ Awaits(F, f.kind)
  BY DEF Awaits
<1>5. ASSUME PlaceInv(d, u, snk, R, F) PROVE PlaceInv(d, u, new, Q, G)
  BY <1>1, <1>4, <1>5 DEF PlaceInv, Translated
<1>6. ASSUME BedrockInv(d, u, snk, R, F) PROVE BedrockInv(d, u, new, Q, G)
  BY <1>2, <1>3, <1>6 DEF BedrockInv
<1>7. ASSUME MantleInv(d, u, a, snk, R, F) PROVE MantleInv(d, u, a, new, Q, G)
  <2>1. ~a.started => ~new.greeted /\ a.last = 0 /\ \A g \in G : g.kind = "error"
    BY <1>1, <1>7 DEF MantleInv
  <2> HIDE DEF F
  <2> QED BY <1>2, <1>3, <1>7, <2>1 DEF MantleInv
<1> QED BY <1>5, <1>6, <1>7 DEF new, Q

LEMMA QueueOne == ASSUME NEW d, NEW snk, NEW R, NEW f, Ready(d, snk, R, f) PROVE QueueReady(d, snk, R, <<f>>)
BY DEF QueueReady

LEMMA QueueJoins ==
  ASSUME NEW d, NEW snk, NEW R, NEW s, NEW t, IsSeq(s), IsSeq(t),
         QueueReady(d, snk, R, s), QueueReady(d, snk, R, t),
         \A f \in Range(s), g \in Range(t) : Apart(f, g)
  PROVE  IsSeq(s \o t) /\ QueueReady(d, snk, R, s \o t)
<1> DEFINE r == s \o t
           m == Len(s)
           n == Len(t)
<1>1. IsSeq(r)
  BY Joined
<1>2. /\ m \in Nat /\ n \in Nat /\ Len(r) = m + n
      /\ \A i \in 1..(m + n) : r[i] = IF i <= m THEN s[i] ELSE t[i - m]
      /\ \A i \in 1..m : s[i] \in Range(s)
      /\ \A i \in 1..n : t[i] \in Range(t)
  <2> DEFINE A == Range(s) \cup Range(t)
  <2>1. s \in Seq(A) /\ t \in Seq(A)
    BY SeqMonotonic DEF IsSeq
  <2>2. DOMAIN s = 1..m /\ DOMAIN t = 1..n /\ m \in Nat /\ n \in Nat
    BY <2>1, LenProperties
  <2>3. Len(r) = m + n /\ \A i \in 1..(m + n) : r[i] = IF i <= m THEN s[i] ELSE t[i - m]
    BY <2>1, ConcatProperties
  <2> QED BY <2>2, <2>3 DEF Range
<1> HIDE DEF r, m, n
<1>3. ASSUME NEW i \in 1..Len(r) PROVE \/ i \in 1..m /\ r[i] = s[i]
                                       \/ i > m /\ i - m \in 1..n /\ r[i] = t[i - m]
  BY <1>2
<1>4. ASSUME NEW i \in 1..Len(r) PROVE Ready(d, snk, R, r[i])
  BY <1>3 DEF QueueReady, m, n
<1>5. ASSUME NEW i \in 1..Len(r), NEW j \in 1..Len(r), i < j PROVE Apart(r[i], r[j])
  <2>1. CASE i \in 1..m /\ j \in 1..m /\ r[i] = s[i] /\ r[j] = s[j]
    BY <1>5, <2>1 DEF QueueReady, m
  <2>2. CASE i \in 1..m /\ j - m \in 1..n /\ r[i] = s[i] /\ r[j] = t[j - m]
    BY <1>2, <2>2
  <2>3. CASE i - m \in 1..n /\ j - m \in 1..n /\ r[i] = t[i - m] /\ r[j] = t[j - m]
    <3>1. i - m < j - m
      BY <1>2, <1>5
    <3> QED BY <2>3, <3>1 DEF QueueReady, n
  <2>4. ~(i > m /\ j \in 1..m)
    BY <1>2, <1>5
  <2> QED BY <1>3, <2>1, <2>2, <2>3, <2>4
<1> QED BY <1>1, <1>4, <1>5 DEF QueueReady, r

\* Bedrock's next frame is ready, and leaves things in order.
LEMMA BedrockReads ==
  ASSUME dialect \in Translated, FlagIsTrue, NEW said \in Says, NEW R, NEW f,
         SinkTells(dialect, sink, R), PlaceInv(dialect, upstream, sink, R, {}),
         BedrockInv(dialect, upstream, sink, R, {}),
         f = Frame(IF said = "exception" THEN "error" ELSE FrameOf[said],
                   IF said \in {"toolStart", "textDelta", "toolDelta", "blockStop"}
                     THEN Advance(said).block - 1 ELSE NoBlock)
  PROVE  /\ Ready(dialect, sink, R, f)
         /\ PlaceInv(dialect, Advance(said), sink, R, {f})
         /\ BedrockInv(dialect, Advance(said), sink, R, {f})
<1> DEFINE u == upstream
           v == Advance(said)
<1>1. u \in [at : Places, block : 0..MaxBlocks, deltas : Nat] /\ v \in [at : Places, block : 0..MaxBlocks, deltas : Nat]
  BY Advances DEF FlagIsTrue
<1>2. \/ said = "messageStart" /\ u.at = "start" /\ v.at = "between" /\ v.block = u.block
      \/ said = "toolStart" /\ u.at = "between" /\ v.at = "tool" /\ v.block = u.block + 1
      \/ said = "textDelta" /\ u.at = "between" /\ v.at = "text" /\ v.block = u.block + 1
      \/ said = "textDelta" /\ u.at = "text" /\ v.at = "text" /\ v.block = u.block
      \/ said = "toolDelta" /\ u.at = "tool" /\ v.at = "tool" /\ v.block = u.block
      \/ said = "blockStop" /\ u.at \in {"text", "tool"} /\ v.at = "between" /\ v.block = u.block
      \/ said = "messageStop" /\ u.at = "between" /\ v.at = "stopped" /\ v.block = u.block
      \/ said = "metadata" /\ u.at = "stopped" /\ v.at = "over" /\ v.block = u.block
      \/ said = "exception" /\ u.at \in {"start", "between", "text", "tool", "stopped"} /\ v.at = "aborted" /\ v.block = u.block
  BY <1>1 DEF Says, Advance
<1>3. f \in [kind : FrameKinds, block : Int]
  BY <1>1, <1>2 DEF Frame, FrameKinds, FrameOf, NoBlock
<1>4. /\ f.kind = IF said = "exception" THEN "error" ELSE FrameOf[said]
      /\ said \in {"toolStart", "textDelta", "toolDelta", "blockStop"} => f.block = v.block - 1
  BY DEF Frame
<1>5. f.kind = CASE said = "messageStart" -> "messageStart"
                 [] said = "toolStart" -> "contentBlockStart"
                 [] said = "textDelta" -> "textDelta"
                 [] said = "toolDelta" -> "toolDelta"
                 [] said = "blockStop" -> "contentBlockStop"
                 [] said = "messageStop" -> "messageStop"
                 [] said = "metadata" -> "metadata"
                 [] said = "exception" -> "error"
  BY <1>2, <1>4 DEF FrameOf
<1>13. u.block \in Nat /\ v.block \in Nat
  <2> HIDE DEF u, v
  <2> QED BY <1>1, RelayAssumption
<1> HIDE DEF u, v
<1>6. PlaceInv(dialect, u, sink, R, {}) /\ BedrockInv(dialect, u, sink, R, {})
  BY DEF u
<1>7. dialect = "anthropic" => ~sink.over /\ ~sink.errored
  BY <1>2, <1>6 DEF PlaceInv
<1>8. /\ u.at = "start" => R = {} /\ ~sink.greeted
      /\ dialect = "openai" /\ sink.over => u.at \in {"stopped", "over", "aborted"}
  BY <1>6 DEF PlaceInv, NewSink
<1>9. /\ \A b : b \in sink.opened \/ Stopped(R, b) => b \in 0..(u.block - 1)
      /\ u.at \in {"text", "tool"} => u.block > 0 /\ ~Stopped(R, u.block - 1)
      /\ u.at = "tool" => u.block - 1 \in sink.opened
  BY <1>6 DEF BedrockInv, Opening, Stopping
<1>10. Ready(dialect, sink, R, f)
  BY <1>1, <1>2, <1>3, <1>4, <1>5, <1>7, <1>8, <1>9 DEF Ready
<1>11. PlaceInv(dialect, v, sink, R, {f})
  BY <1>2, <1>5, <1>6, <1>7 DEF PlaceInv, Awaits
<1>12. BedrockInv(dialect, v, sink, R, {f})
  <2>1. \A b : Opening(dialect, sink, {f}, b) <=>
          b \in sink.opened \/ (b = v.block - 1 /\ (said = "toolStart" \/ (dialect = "anthropic" /\ said = "textDelta")))
    BY <1>2, <1>4, <1>5 DEF Opening, Opens
  <2>2. \A b : Stopping(R, {f}, b) <=> Stopped(R, b) \/ (b = v.block - 1 /\ said = "blockStop")
    BY <1>2, <1>4, <1>5 DEF Stopping
  <2>3. ASSUME NEW b, Opening(dialect, sink, {f}, b) \/ Stopping(R, {f}, b) PROVE b \in 0..(v.block - 1)
    <3>1. u.block = v.block \/ u.block + 1 = v.block
      BY <1>2
    <3>2. b \in 0..(u.block - 1) => b \in 0..(v.block - 1)
      BY <1>13, <3>1
    <3>3. said \in {"toolStart", "textDelta", "blockStop"} => v.block - 1 \in 0..(v.block - 1)
      <4>1. said \in {"toolStart", "textDelta", "blockStop"} => v.block > 0
        BY <1>2, <1>9, <1>13
      <4> QED BY <1>13, <4>1
    <3> QED BY <1>9, <2>1, <2>2, <2>3, <3>2, <3>3
  <2>4. v.at \in {"text", "tool"} => v.block > 0 /\ ~Stopping(R, {f}, v.block - 1)
    <3> SUFFICES ASSUME v.at \in {"text", "tool"} PROVE v.block > 0 /\ ~Stopping(R, {f}, v.block - 1)
      OBVIOUS
    <3>1. CASE u.at = "between"
      <4>1. v.block = u.block + 1 /\ said # "blockStop"
        BY <1>2, <3>1
      <4>2. v.block > 0 /\ ~(v.block - 1 \in 0..(u.block - 1))
        BY <1>13, <4>1
      <4> QED BY <1>9, <2>2, <4>1, <4>2
    <3>2. CASE u.at \in {"text", "tool"}
      <4>1. v.block = u.block /\ said # "blockStop"
        BY <1>2, <3>2
      <4> QED BY <1>9, <2>2, <3>2, <4>1
    <3> QED BY <1>2, <3>1, <3>2
  <2>5. v.at = "tool" => Opening(dialect, sink, {f}, v.block - 1)
    BY <1>1, <1>2, <1>9, <2>1
  <2> QED BY <2>3, <2>4, <2>5 DEF BedrockInv
<1> QED BY <1>10, <1>11, <1>12 DEF v

(***************************************************************************)
(* The blocks the adapter closes, in index order, are those open, each once.  *)
(***************************************************************************)
LEMMA SortedExists ==
  \A n \in Nat : \A T \in SUBSET Nat :
    IsFiniteSet(T) /\ Cardinality(T) = n =>
      \E s \in [1..n -> T] : \A i, j \in 1..n : i < j => s[i] < s[j]
<1> DEFINE S == {n \in Nat : \A T \in SUBSET Nat :
                   IsFiniteSet(T) /\ Cardinality(T) = n =>
                     \E s \in [1..n -> T] : \A i, j \in 1..n : i < j => s[i] < s[j]}
<1>1. 0 \in S
  <2>1. ASSUME NEW T PROVE \E s \in [1..0 -> T] : \A i, j \in 1..0 : i < j => s[i] < s[j]
    <3> DEFINE s == [i \in 1..0 |-> 0]
    <3>1. s \in [1..0 -> T]
      OBVIOUS
    <3>2. \A i \in 1..0 : FALSE
      OBVIOUS
    <3> HIDE DEF s
    <3> QED BY <3>1, <3>2
  <2> QED BY <2>1
<1>2. ASSUME NEW n \in Nat, n \in S PROVE n + 1 \in S
  <2>1. SUFFICES ASSUME NEW T \in SUBSET Nat, IsFiniteSet(T), Cardinality(T) = n + 1
                 PROVE  \E s \in [1..(n + 1) -> T] : \A i, j \in 1..(n + 1) : i < j => s[i] < s[j]
    OBVIOUS
  <2>2. PICK m \in T : \A k \in T : m <= k
    <3> DEFINE L == OpToRel(<, Nat)
    <3>1. IsWellFoundedOn(L, Nat)
      BY NatLessThanWellFounded
    <3>2. T # {}
      BY <2>1, FS_EmptySet
    <3> HIDE DEF L
    <3>3. PICK m \in T : \A k \in T : ~(<<k, m>> \in L)
      BY <3>1, <3>2, WFMin
    <3>4. ASSUME NEW k \in T PROVE m <= k
      <4>1. k \in Nat /\ m \in Nat
        BY <2>1
      <4>2. k < m => <<k, m>> \in L
        BY <4>1 DEF L, OpToRel
      <4> QED BY <3>3, <4>1, <4>2
    <3> QED BY <3>4
  <2>3. /\ T \ {m} \in SUBSET Nat /\ IsFiniteSet(T \ {m}) /\ Cardinality(T \ {m}) = n
    BY <2>1, FS_RemoveElement
  <2>4. PICK r \in [1..n -> T \ {m}] : \A i, j \in 1..n : i < j => r[i] < r[j]
    BY <1>2, <2>3
  <2> DEFINE s == [i \in 1..(n + 1) |-> IF i = 1 THEN m ELSE r[i - 1]]
  <2>5. ASSUME NEW i \in 1..(n + 1) PROVE s[i] \in T /\ (i = 1 \/ (i - 1 \in 1..n /\ s[i] = r[i - 1] /\ s[i] \in T \ {m}))
    BY <2>4
  <2>6. s \in [1..(n + 1) -> T]
    BY <2>5
  <2>7. ASSUME NEW i \in 1..(n + 1), NEW j \in 1..(n + 1), i < j PROVE s[i] < s[j]
    <3>1. j - 1 \in 1..n /\ s[j] = r[j - 1] /\ s[j] \in T \ {m}
      BY <2>5, <2>7
    <3>2. CASE i = 1
      <4>1. s[i] = m
        BY <3>2
      <4>2. s[j] \in Nat /\ m \in Nat /\ m # s[j] /\ m <= s[j]
        <5> HIDE DEF s
        <5> QED BY <2>1, <2>2, <3>1
      <4> HIDE DEF s
      <4> QED BY <4>1, <4>2
    <3>3. CASE i # 1
      <4>1. i - 1 \in 1..n /\ s[i] = r[i - 1] /\ i - 1 < j - 1
        BY <2>5, <2>7, <3>3
      <4> QED BY <2>4, <3>1, <4>1
    <3> QED BY <3>2, <3>3
  <2> QED BY <2>6, <2>7
<1> HIDE DEF S
<1>3. \A n \in Nat : n \in S
  BY <1>1, <1>2, SetInduction
<1> QED BY <1>3 DEF S

LEMMA Sorted ==
  ASSUME NEW T \in SUBSET Nat, IsFiniteSet(T)
  PROVE  /\ Cardinality(T) \in Nat /\ ByIndex(T) \in [1..Cardinality(T) -> T]
         /\ \A i, j \in 1..Cardinality(T) : i < j => ByIndex(T)[i] < ByIndex(T)[j]
<1> DEFINE n == Cardinality(T)
           InOrder(s) == \A i, j \in 1..n : i < j => s[i] < s[j]
<1>1. n \in Nat
  BY FS_CardinalityType
<1>2. PICK s \in [1..n -> T] : InOrder(s)
  BY <1>1, SortedExists
<1>3. ASSUME NEW i \in 1..n, NEW j \in 1..n, i # j PROVE s[i] # s[j]
  <2>1. s[i] \in Nat /\ s[j] \in Nat
    OBVIOUS
  <2>2. i < j \/ j < i
    BY <1>1, <1>3
  <2>3. s[i] < s[j] \/ s[j] < s[i]
    BY <1>2, <2>2
  <2> QED BY <2>1, <2>3
<1>4. s \in SetToSeqs(T)
  BY <1>2, <1>3 DEF SetToSeqs
<1>5. ByIndex(T) = CHOOSE r \in SetToSeqs(T) : InOrder(r)
  BY DEF ByIndex
<1>6. ByIndex(T) \in SetToSeqs(T) /\ InOrder(ByIndex(T))
  <2> HIDE DEF InOrder
  <2> QED BY <1>2, <1>4, <1>5
<1>7. ByIndex(T) \in [1..n -> T]
  BY <1>6 DEF SetToSeqs
<1> QED BY <1>1, <1>6, <1>7

LEMMA ClosesBlocks ==
  ASSUME NEW T \in SUBSET Nat, IsFiniteSet(T)
  PROVE  LET s == CloseFrames(T)
         IN /\ IsSeq(s)
            /\ \A i \in 1..Len(s) : \E b \in T : s[i] = Frame("contentBlockStop", b)
            /\ \A i, j \in 1..Len(s) : i < j => s[i].block # s[j].block
            /\ \A f \in Range(s) : \E b \in T : f = Frame("contentBlockStop", b)
<1> DEFINE s == CloseFrames(T)
           n == Cardinality(T)
           F == {Frame("contentBlockStop", b) : b \in T}
<1>1. /\ n \in Nat /\ ByIndex(T) \in [1..n -> T]
      /\ \A i, j \in 1..n : i < j => ByIndex(T)[i] < ByIndex(T)[j]
  BY Sorted
<1>2. s = [i \in 1..n |-> Frame("contentBlockStop", ByIndex(T)[i])]
  BY DEF CloseFrames
<1>3. s \in [1..n -> F] /\ \A i \in 1..n : s[i] = Frame("contentBlockStop", ByIndex(T)[i])
  BY <1>1, <1>2
<1> HIDE DEF s, n
<1>4. s \in Seq(F)
  <2> HIDE DEF F
  <2> QED BY <1>1, <1>3, SeqDef
<1>5. Len(s) = n
  BY <1>1, <1>3, <1>4, LenProperties
<1>6. IsSeq(s) /\ Range(s) \subseteq F
  BY <1>4, Elements
<1>7. ASSUME NEW i \in 1..n, NEW j \in 1..n, i < j PROVE s[i].block # s[j].block
  <2>1. s[i].block = ByIndex(T)[i] /\ s[j].block = ByIndex(T)[j] /\ ByIndex(T)[i] \in T /\ ByIndex(T)[j] \in T
    BY <1>1, <1>3, FramesDiffer
  <2>2. s[i].block \in Nat /\ s[j].block \in Nat /\ s[i].block < s[j].block
    BY <1>1, <1>7, <2>1
  <2> QED BY <2>2
<1>8. \A i \in 1..n : \E b \in T : s[i] = Frame("contentBlockStop", b)
  BY <1>1, <1>3
<1> QED BY <1>5, <1>6, <1>7, <1>8 DEF s

LEMMA Starts ==
  ASSUME NEW a \in Adapters
  PROVE  EnsureStarted(a) = [started |-> TRUE, next |-> IF a.started THEN a.next ELSE 1, last |-> a.last,
                             index |-> a.index, open |-> a.open]
<1> DEFINE e == EnsureStarted(a)
<1>1. e \in Adapters /\ e.started = TRUE /\ e.last = a.last /\ e.index = a.index /\ e.open = a.open
  BY DEF EnsureStarted, Adapters
<1>2. e.next = IF a.started THEN a.next ELSE 1
  BY DEF EnsureStarted, Adapters
<1> HIDE DEF e
<1>3. e = [started |-> e.started, next |-> e.next, last |-> e.last, index |-> e.index, open |-> e.open]
  BY <1>1 DEF Adapters
<1>4. e = [started |-> TRUE, next |-> IF a.started THEN a.next ELSE 1, last |-> a.last,
           index |-> a.index, open |-> a.open]
  BY <1>1, <1>2, <1>3
<1> QED BY <1>4 DEF e

LEMMA ToolAdded ==
  ASSUME NEW a \in Adapters, NEW item \in 1..MaxBlocks, NEW n \in Nat, n > 0, EnsureStarted(a).next = n
  PROVE  LET b == AddTool(a, item)
         IN b.started = TRUE /\ b.next = n + 1 /\ b.last = n /\ b.index = [a.index EXCEPT ![item] = n]
<1> DEFINE e == EnsureStarted(a)
           idx == IF e.next = 0 THEN 1 ELSE e.next
<1>1. e = [started |-> TRUE, next |-> n, last |-> a.last, index |-> a.index, open |-> a.open]
  BY Starts
<1>2. AddTool(a, item) = [e EXCEPT !.next = idx + 1, !.last = idx, !.index[item] = idx, !.open = @ \cup {idx}]
  BY DEF AddTool
<1>3. idx = n
  BY <1>1
<1> HIDE DEF e, idx
<1> QED BY <1>1, <1>2, <1>3

\* The frames made of Mantle's next event are ready, and leave things in order.
LEMMA MantleReads ==
  ASSUME dialect \in Translated, FlagIsTrue, adapter \in Adapters, IsFiniteSet(adapter.open),
         NEW said \in Says \ {"metadata"}, NEW item \in {0, Advance(said).block},
         said # "toolDelta" => item = Advance(said).block, NEW R,
         SinkTells(dialect, sink, R), PlaceInv(dialect, upstream, sink, R, {}),
         MantleInv(dialect, upstream, adapter, sink, R, {})
  PROVE  LET v == IF said = "messageStop" THEN [Advance(said) EXCEPT !.at = "over"] ELSE Advance(said)
             b == AdapterAfter(adapter, MantleSays(said), item)
             q == AdapterFrames(adapter, MantleSays(said), item)
         IN /\ QueueReady(dialect, sink, R, q)
            /\ PlaceInv(dialect, v, sink, R, Range(q))
            /\ MantleInv(dialect, v, b, sink, R, Range(q))
<1> DEFINE a == adapter
           u == upstream
           v == IF said = "messageStop" THEN [Advance(said) EXCEPT !.at = "over"] ELSE Advance(said)
           b == AdapterAfter(a, MantleSays(said), item)
           q == AdapterFrames(a, MantleSays(said), item)
           ms == Frame("messageStart", NoBlock)
           ss == StartFrames(a)
<1>1. u \in [at : Places, block : 0..MaxBlocks, deltas : Nat] /\ Advance(said) \in [at : Places, block : 0..MaxBlocks, deltas : Nat]
  BY Advances DEF FlagIsTrue
<1>2. \/ said = "messageStart" /\ u.at = "start" /\ v.at = "between"
      \/ said = "toolStart" /\ u.at = "between" /\ v.at = "tool" /\ item \in 1..MaxBlocks
      \/ said = "textDelta" /\ u.at \in {"between", "text"} /\ v.at = "text"
      \/ said = "toolDelta" /\ u.at = "tool" /\ v.at = "tool"
      \/ said = "blockStop" /\ u.at \in {"text", "tool"} /\ v.at = "between"
      \/ said = "messageStop" /\ u.at = "between" /\ v.at = "over"
      \/ said = "exception" /\ u.at \in {"start", "between", "text", "tool", "stopped"} /\ v.at = "aborted"
  <2>1. said = "toolStart" => item = u.block + 1 /\ item \in 0..MaxBlocks /\ u.block \in Nat
    BY <1>1, RelayAssumption DEF Advance
  <2>2. MaxBlocks \in Nat
    BY RelayAssumption
  <2> QED BY <1>1, <2>1, <2>2 DEF Says, Advance
<1>3. item \in 0..MaxBlocks
  BY <1>1, RelayAssumption
<1>4. /\ a.next \in Nat /\ a.last \in Nat /\ a.started \in BOOLEAN /\ a.open \in SUBSET Nat
      /\ a.index \in [1..MaxBlocks -> Nat]
      /\ a = [started |-> a.started, next |-> a.next, last |-> a.last, index |-> a.index, open |-> a.open]
  BY DEF Adapters
<1> HIDE DEF u, v, a
<1>5. PlaceInv(dialect, u, sink, R, {}) /\ MantleInv(dialect, u, a, sink, R, {})
  BY DEF u, a
<1>6. /\ dialect = "anthropic" => ~sink.over /\ ~sink.errored
      /\ u.at # "stopped" => ~(dialect = "openai" /\ sink.over)
      /\ ~sink.errored
      /\ u.at = "start" => R = {} /\ sink = NewSink
  BY <1>2, <1>5 DEF PlaceInv
<1>7. /\ \A c : ~Stopped(R, c)
      /\ \A c : c \in sink.opened => c \in 0..(a.next - 1)
      /\ u.at = "tool" => a.last > 0
      /\ a.last > 0 => a.last \in sink.opened
      /\ \A i \in 1..MaxBlocks : a.index[i] > 0 => a.index[i] \in sink.opened
      /\ a.started <=> a.next > 0
      /\ ~a.started => ~sink.greeted /\ a.last = 0
  BY <1>2, <1>5 DEF MantleInv, Opening, Stopping
<1>8. QueueReady(dialect, sink, R, ss) /\ IsSeq(ss) /\ Range(ss) \subseteq {ms}
  <2>1. ~a.started => Ready(dialect, sink, R, ms)
    BY <1>6, <1>7, FramesDiffer DEF Ready, FrameKinds, NoBlock, Frame
  <2>2. QueueReady(dialect, sink, R, << >>)
    BY DEF QueueReady
  <2> QED BY <2>1, <2>2, QueueOne, OneEvent, NoEvent DEF StartFrames
<1>9. \A f : f \in Range(ss) => f.kind = "messageStart"
  BY <1>8, FramesDiffer
<1> HIDE DEF ms, ss
<1>10. ASSUME NEW f, Ready(dialect, sink, R, f), f.kind \in {"textDelta", "contentBlockStart"}
       PROVE  QueueReady(dialect, sink, R, ss \o <<f>>) /\ Range(ss \o <<f>>) = Range(ss) \cup {f}
  <2>1. IsSeq(<<f>>) /\ Range(<<f>>) = {f}
    BY DEF IsSeq, Range
  <2>2. QueueReady(dialect, sink, R, <<f>>)
    BY <1>10, QueueOne
  <2>3. \A g \in Range(ss), h \in {f} : Apart(g, h)
    BY <1>9, <1>10 DEF Apart
  <2> QED BY <1>8, <2>1, <2>2, <2>3, QueueJoins, Joined
<1>11. EnsureStarted(a) = [started |-> TRUE, next |-> IF a.started THEN a.next ELSE 1, last |-> a.last,
                           index |-> a.index, open |-> a.open]
  BY Starts DEF a
<1>12. CASE said = "textDelta"
  <2> DEFINE f == Frame("textDelta", 0)
  <2>1. f.kind = "textDelta" /\ f.block = 0 /\ f \in [kind : FrameKinds, block : Int]
    BY DEF Frame, FrameKinds
  <2>2. q = ss \o <<f>> /\ b = [EnsureStarted(a) EXCEPT !.open = @ \cup {0}]
    BY <1>12 DEF AdapterFrames, AdapterAfter, MantleSays, ss
  <2>3. /\ b.started = TRUE /\ b.next = (IF a.started THEN a.next ELSE 1) /\ b.last = a.last /\ b.index = a.index
    BY <1>11, <2>2
  <2> HIDE DEF f, q, b
  <2>4. Ready(dialect, sink, R, f)
    BY <1>6, <1>7, <2>1 DEF Ready
  <2>5. QueueReady(dialect, sink, R, q) /\ Range(q) = Range(ss) \cup {f}
    BY <1>10, <2>1, <2>2, <2>4
  <2>6. \A k : Awaits(Range(q), k) => k \in {"messageStart", "textDelta"}
    BY <1>9, <2>1, <2>5 DEF Awaits
  <2>7. PlaceInv(dialect, v, sink, R, Range(q))
    BY <1>2, <1>6, <1>12, <2>6 DEF PlaceInv
  <2>8. /\ \A c : Opening(dialect, sink, Range(q), c) => c \in sink.opened \/ c = 0
        /\ \A c : c \in sink.opened => Opening(dialect, sink, Range(q), c)
        /\ \A c : ~Stopping(R, Range(q), c)
    BY <1>7, <1>9, <2>1, <2>5 DEF Opening, Opens, Stopping
  <2>9. 0 \in 0..(b.next - 1) /\ b.next > 0 /\ \A c : c \in sink.opened => c \in 0..(b.next - 1)
    BY <1>4, <1>7, <2>3
  <2>10. MantleInv(dialect, v, b, sink, R, Range(q))
    BY <1>2, <1>7, <1>12, <2>3, <2>8, <2>9 DEF MantleInv
  <2> QED BY <2>5, <2>7, <2>10 DEF q, b, v, a
<1>13. CASE said = "toolStart"
  <2> DEFINE n == IF a.started THEN a.next ELSE 1
             f == Frame("contentBlockStart", n)
  <2>1. n \in Nat /\ n > 0
    BY <1>4, <1>7
  <2>2. b = AddTool(a, item) /\ q = ss \o <<Frame("contentBlockStart", AddTool(a, item).last)>>
    BY <1>13 DEF AdapterFrames, AdapterAfter, MantleSays, ss
  <2>3. /\ b.started = TRUE /\ b.next = n + 1 /\ b.last = n /\ b.index = [a.index EXCEPT ![item] = n]
    <3>1. EnsureStarted(a).next = n
      BY <1>11
    <3>2. item \in 1..MaxBlocks
      BY <1>2, <1>13
    <3> HIDE DEF n, b
    <3> QED BY <2>1, <2>2, <3>1, <3>2, ToolAdded DEF a
  <2>4. q = ss \o <<f>>
    BY <2>2, <2>3
  <2>5. f.kind = "contentBlockStart" /\ f.block = n /\ f \in [kind : FrameKinds, block : Int]
    BY <2>1 DEF Frame, FrameKinds
  <2>6. n \notin sink.opened
    BY <1>4, <1>7, <2>1
  <2> HIDE DEF f, q, b, n
  <2>7. Ready(dialect, sink, R, f)
    BY <1>6, <2>5, <2>6 DEF Ready
  <2>8. QueueReady(dialect, sink, R, q) /\ Range(q) = Range(ss) \cup {f}
    BY <1>10, <2>4, <2>5, <2>7
  <2>9. \A k : Awaits(Range(q), k) => k \in {"messageStart", "contentBlockStart"}
    BY <1>9, <2>5, <2>8 DEF Awaits
  <2>10. PlaceInv(dialect, v, sink, R, Range(q))
    BY <1>2, <1>6, <1>13, <2>9 DEF PlaceInv
  <2>11. /\ \A c : Opening(dialect, sink, Range(q), c) <=> c \in sink.opened \/ c = n
         /\ \A c : ~Stopping(R, Range(q), c)
    BY <1>7, <1>9, <2>5, <2>8 DEF Opening, Opens, Stopping
  <2>12. \A c : c \in sink.opened \/ c = n => c \in 0..(b.next - 1)
    BY <1>4, <1>7, <2>1, <2>3 DEF n
  <2>13. \A i \in 1..MaxBlocks : b.index[i] > 0 => b.index[i] \in sink.opened \/ b.index[i] = n
    BY <1>4, <1>7, <2>3
  <2>14. MantleInv(dialect, v, b, sink, R, Range(q))
    BY <2>1, <2>3, <2>11, <2>12, <2>13 DEF MantleInv
  <2> QED BY <2>8, <2>10, <2>14 DEF q, b, v, a
<1>14. CASE said \in {"toolDelta", "exception"}
  <2> DEFINE f == IF said = "exception" THEN Frame("error", NoBlock) ELSE Frame("toolDelta", LookupTool(a, item))
  <2>1. q = <<f>> /\ b = (IF said = "exception" THEN a ELSE [a EXCEPT !.open = @ \cup {LookupTool(a, item)}])
    BY <1>14 DEF AdapterFrames, AdapterAfter, MantleSays
  <2>2. /\ b.started = a.started /\ b.next = a.next /\ b.last = a.last /\ b.index = a.index
    <3> DEFINE o == a.open \cup {LookupTool(a, item)}
    <3>1. [a EXCEPT !.open = a.open \cup {LookupTool(a, item)}] =
            [started |-> a.started, next |-> a.next, last |-> a.last, index |-> a.index, open |-> o]
      <4> HIDE DEF o
      <4>1. [a EXCEPT !.open = o] = [started |-> a.started, next |-> a.next, last |-> a.last, index |-> a.index, open |-> o]
        BY <1>4
      <4> QED BY <4>1 DEF o
    <3> HIDE DEF o
    <3> QED BY <2>1, <3>1
  <2>3. said = "toolDelta" => LookupTool(a, item) \in sink.opened
    BY <1>2, <1>3, <1>7 DEF LookupTool
  <2>4. /\ f.kind = IF said = "exception" THEN "error" ELSE "toolDelta"
        /\ said = "toolDelta" => f.block \in sink.opened
        /\ f \in [kind : FrameKinds, block : Int]
    <3>1. sink.opened \in SUBSET Int
      BY DEF SinkTells, Sinks
    <3> QED BY <1>14, <2>3, <3>1 DEF Frame, FrameKinds, NoBlock
  <2> HIDE DEF f, q, b
  <2>5. Ready(dialect, sink, R, f)
    BY <1>6, <1>7, <1>14, <2>4 DEF Ready
  <2>6. QueueReady(dialect, sink, R, q)
    BY <2>1, <2>5, QueueOne
  <2>7. Range(q) = {f}
    BY <2>1, FewEvents
  <2>8. PlaceInv(dialect, v, sink, R, {f})
    BY <1>2, <1>6, <1>14, <2>4 DEF PlaceInv, Awaits
  <2>9. /\ \A c : Opening(dialect, sink, {f}, c) <=> c \in sink.opened
        /\ \A c : ~Stopping(R, {f}, c)
    BY <1>7, <1>14, <2>4 DEF Opening, Opens, Stopping
  <2>10. ~a.started => said = "exception"
    BY <1>2, <1>4, <1>7, <1>14
  <2>11. v.at = "tool" => a.last > 0
    BY <1>2, <1>7, <1>14
  <2>12. MantleInv(dialect, v, b, sink, R, {f})
    BY <1>7, <2>2, <2>4, <2>9, <2>10, <2>11 DEF MantleInv
  <2> QED BY <2>6, <2>7, <2>8, <2>12 DEF q, b, v, a
<1>15. CASE said \in {"messageStart", "blockStop"}
  <2>1. q = << >> /\ b = a
    BY <1>15 DEF AdapterFrames, AdapterAfter, MantleSays
  <2> HIDE DEF q
  <2>2. QueueReady(dialect, sink, R, q) /\ Range(q) = {}
    <3>1. QueueReady(dialect, sink, R, << >>)
      BY DEF QueueReady
    <3> QED BY <2>1, <3>1, FewEvents
  <2>3. PlaceInv(dialect, v, sink, R, {})
    BY <1>2, <1>6, <1>15 DEF PlaceInv, Awaits
  <2>4. MantleInv(dialect, v, a, sink, R, {})
    BY <1>2, <1>5, <1>15 DEF MantleInv
  <2> QED BY <2>1, <2>2, <2>3, <2>4 DEF q, v, a
<1>16. CASE said = "messageStop"
  <2> DEFINE cs == CloseFrames(a.open)
             stop == Frame("messageStop", NoBlock)
             meta == Frame("metadata", NoBlock)
             e == <<stop, meta>>
  <2>1. q = ss \o cs \o e /\ b = [EnsureStarted(a) EXCEPT !.open = {}]
    BY <1>16 DEF AdapterFrames, AdapterAfter, MantleSays, ss
  <2>2. /\ b.started = TRUE /\ b.next = (IF a.started THEN a.next ELSE 1) /\ b.last = a.last /\ b.index = a.index
    BY <1>11, <2>1
  <2>3. /\ IsSeq(cs)
        /\ \A i \in 1..Len(cs) : \E c \in a.open : cs[i] = Frame("contentBlockStop", c)
        /\ \A i, j \in 1..Len(cs) : i < j => cs[i].block # cs[j].block
        /\ \A f \in Range(cs) : \E c \in a.open : f = Frame("contentBlockStop", c)
    BY <1>4, ClosesBlocks DEF a
  <2>4. /\ stop.kind = "messageStop" /\ meta.kind = "metadata" /\ stop \in [kind : FrameKinds, block : Int]
        /\ meta \in [kind : FrameKinds, block : Int]
    BY DEF Frame, FrameKinds, NoBlock
  <2> HIDE DEF q, b, cs, stop, meta
  <2>5. QueueReady(dialect, sink, R, cs)
    <3>1. ASSUME NEW c \in a.open
          PROVE  LET f == Frame("contentBlockStop", c) IN Ready(dialect, sink, R, f) /\ f.kind = "contentBlockStop"
      <4>1. c \in Int
        BY <1>4
      <4> QED BY <1>6, <1>7, <4>1 DEF Ready, Frame, FrameKinds
    <3>2. \A i \in 1..Len(cs) : Ready(dialect, sink, R, cs[i]) /\ cs[i].kind = "contentBlockStop"
      BY <2>3, <3>1
    <3> QED BY <2>3, <3>2 DEF QueueReady, Apart
  <2>6. IsSeq(e) /\ QueueReady(dialect, sink, R, e) /\ Range(e) = {stop, meta}
    <3>1. IsSeq(e) /\ Range(e) = {stop, meta} /\ Len(e) = 2 /\ e[1] = stop /\ e[2] = meta
      BY DEF IsSeq, Range
    <3>2. Ready(dialect, sink, R, stop) /\ Ready(dialect, sink, R, meta) /\ Apart(stop, meta)
      BY <1>2, <1>6, <1>16, <2>4 DEF Ready, Apart
    <3> HIDE DEF e
    <3>3. \A i \in 1..Len(e) : i = 1 \/ i = 2
      BY <3>1
    <3>4. \A i \in 1..Len(e) : Ready(dialect, sink, R, e[i])
      BY <3>1, <3>2, <3>3
    <3>5. \A i, j \in 1..Len(e) : i < j => i = 1 /\ j = 2
      BY <3>1
    <3> QED BY <3>1, <3>2, <3>4, <3>5 DEF QueueReady
  <2> HIDE DEF e
  <2>7. \A f \in Range(cs) : f.kind = "contentBlockStop"
    BY <2>3, FramesDiffer
  <2>8. IsSeq(ss \o cs) /\ QueueReady(dialect, sink, R, ss \o cs) /\ Range(ss \o cs) = Range(ss) \cup Range(cs)
    <3>1. \A f \in Range(ss), g \in Range(cs) : Apart(f, g)
      BY <1>9, <2>7 DEF Apart
    <3> QED BY <1>8, <2>3, <2>5, <3>1, QueueJoins, Joined
  <2>9. QueueReady(dialect, sink, R, q) /\ Range(q) = Range(ss) \cup Range(cs) \cup {stop, meta}
    <3> DEFINE h == ss \o cs
    <3>1. IsSeq(h) /\ QueueReady(dialect, sink, R, h) /\ Range(h) = Range(ss) \cup Range(cs)
      BY <2>8
    <3>2. q = h \o e
      BY <2>1
    <3> HIDE DEF h
    <3>3. \A f \in Range(h), g \in Range(e) : Apart(f, g)
      BY <1>9, <2>4, <2>6, <2>7, <3>1 DEF Apart
    <3> QED BY <2>6, <3>1, <3>2, <3>3, QueueJoins, Joined
  <2>10. \A f \in Range(q) : f.kind \in {"messageStart", "contentBlockStop", "messageStop", "metadata"}
    BY <1>9, <2>4, <2>7, <2>9
  <2>11. PlaceInv(dialect, v, sink, R, Range(q))
    BY <1>2, <1>6, <1>16, <2>10 DEF PlaceInv, Awaits
  <2>12. \A c : Opening(dialect, sink, Range(q), c) <=> c \in sink.opened
    BY <2>10 DEF Opening, Opens
  <2>13. b.next > 0 /\ \A c : c \in sink.opened => c \in 0..(b.next - 1)
    BY <1>4, <1>7, <2>2
  <2>14. MantleInv(dialect, v, b, sink, R, Range(q))
    BY <1>2, <1>7, <1>16, <2>2, <2>12, <2>13 DEF MantleInv
  <2> QED BY <2>9, <2>11, <2>14 DEF q, b, v, a
<1> QED BY <1>2, <1>12, <1>13, <1>14, <1>15, <1>16

-----------------------------------------------------------------------------
(***************************************************************************)
(* The wire of a translated dialect, while the relay runs and at its end.     *)
(***************************************************************************)
Ends(d, w) == w # << >> /\ Last(w).kind \in Terminal[d]

Relayed ==
  /\ SinkTells(dialect, sink, Range(wire))
  /\ QueueReady(dialect, sink, Range(wire), pending)
  /\ PlaceInv(dialect, upstream, sink, Range(wire), Range(pending))
  /\ dialect = "anthropic" /\ (sink.over \/ sink.errored) => Ends(dialect, wire)
  /\ provider = "bedrock" => BedrockInv(dialect, upstream, sink, Range(wire), Range(pending))
  /\ provider = "mantle" => MantleInv(dialect, upstream, adapter, sink, Range(wire), Range(pending))

Closed == StreamEnded /\ client = "here" /\ cause # "writeError" => Ends(dialect, wire)

WireInv == dialect # "native" => Well(dialect, wire) /\ (Running => Relayed) /\ Closed

LEMMA WireInit == Init => WireInv
<1> SUFFICES ASSUME Init, dialect # "native" PROVE WireInv
  BY DEF WireInv
<1>1. /\ wire = << >> /\ pending = << >> /\ sink = NewSink /\ cause = "" /\ upstream.at = "idle" /\ upstream.block = 0
      /\ adapter = NewAdapter
  BY DEF Init
<1>2. Range(wire) = {} /\ Range(pending) = {} /\ Well(dialect, wire) /\ Closed
  <2>1. Range(wire) = {} /\ Range(pending) = {}
    BY <1>1, FewEvents
  <2>2. Well(dialect, << >>)
    BY NoEvent DEF Well
  <2>3. ~StreamEnded
    BY <1>1 DEF StreamEnded, Running
  <2> QED BY <1>1, <2>1, <2>2, <2>3 DEF Closed
<1>3. SinkTells(dialect, sink, {})
  BY <1>1 DEF SinkTells, Sinks, NewSink
<1>4. QueueReady(dialect, sink, {}, << >>)
  BY DEF QueueReady
<1>5. PlaceInv(dialect, upstream, sink, {}, {})
  BY <1>1 DEF PlaceInv, NewSink, Awaits
<1>6. \A b : ~Opening(dialect, sink, {}, b) /\ ~Stopping({}, {}, b)
  BY <1>1 DEF Opening, Stopping, Stopped, NewSink
<1>7. BedrockInv(dialect, upstream, sink, {}, {})
  BY <1>1, <1>6 DEF BedrockInv
<1>8. MantleInv(dialect, upstream, adapter, sink, {}, {})
  <2>1. ~adapter.started /\ adapter.next = 0 /\ adapter.last = 0 /\ \A i \in 1..MaxBlocks : adapter.index[i] = 0
    BY <1>1 DEF NewAdapter
  <2>2. ~sink.greeted
    BY <1>1 DEF NewSink
  <2>3. upstream.at # "tool"
    BY <1>1
  <2> QED BY <1>6, <2>1, <2>2, <2>3 DEF MantleInv
<1>9. Relayed
  BY <1>1, <1>2, <1>3, <1>4, <1>5, <1>7, <1>8 DEF Relayed, NewSink
<1> QED BY <1>2, <1>9 DEF WireInv

LEMMA EndsWith ==
  ASSUME NEW s, IsSeq(s), NEW d, NEW e, e.kind \in Terminal[d], NEW w, NEW a, w \in {<<e>>, <<a, e>>}
  PROVE  Ends(d, s \o w)
<1> DEFINE A == Range(s) \cup {a, e}
<1>1. s \in Seq(A) /\ w \in Seq(A)
  <2>1. <<e>> \in Seq(A) /\ <<a, e>> \in Seq(A)
    OBVIOUS
  <2>2. s \in Seq(A)
    BY SeqMonotonic DEF IsSeq
  <2> QED BY <2>1, <2>2
<1>2. Len(w) \in Nat \ {0} /\ w[Len(w)] = e
  <2>1. ASSUME w = <<e>> PROVE Len(w) = 1 /\ w[1] = e
    BY <2>1
  <2>2. ASSUME w = <<a, e>> PROVE Len(w) = 2 /\ w[2] = e
    BY <2>2
  <2> QED BY <2>1, <2>2
<1> HIDE DEF A
<1>3. /\ Len(s) \in Nat /\ Len(s \o w) = Len(s) + Len(w)
      /\ \A i \in 1..(Len(s) + Len(w)) : (s \o w)[i] = IF i <= Len(s) THEN s[i] ELSE w[i - Len(s)]
  BY <1>1, ConcatProperties, LenProperties
<1>4. (s \o w)[Len(s) + Len(w)] = w[Len(w)]
  <2>1. Len(s) + Len(w) \in 1..(Len(s) + Len(w)) /\ ~(Len(s) + Len(w) <= Len(s)) /\ (Len(s) + Len(w)) - Len(s) = Len(w)
    BY <1>2, <1>3
  <2> QED BY <1>3, <2>1
<1>5. s \o w # << >>
  <2>1. Len(s \o w) # 0
    BY <1>2, <1>3
  <2> QED BY <2>1
<1> QED BY <1>2, <1>3, <1>4, <1>5 DEF Ends, Last

LEMMA EndsSomehow ==
  ASSUME NEW s, IsSeq(s), NEW d, NEW w, \E a, e : e.kind \in Terminal[d] /\ w \in {<<e>>, <<a, e>>}
  PROVE  Ends(d, s \o w)
<1>1. PICK a, e : e.kind \in Terminal[d] /\ w \in {<<e>>, <<a, e>>}
  OBVIOUS
<1> QED BY <1>1, EndsWith

\* The end of a relay leaves a wire that is ended, unless the connection broke.
LEMMA EndIsWell ==
  ASSUME dialect \in Translated, UNCHANGED <<dialect, client>>,
         NEW why \in {"eof", "broken", "writeError", "canceled", "abort"}, NEW err, NEW deltas, NEW snk, NEW before,
         End(why, err, deltas, snk, before),
         Well(dialect, before), MayClose(dialect, snk, Range(before)),
         client = "here" /\ why # "writeError" /\ dialect = "anthropic" /\ (snk.over \/ snk.errored) => Ends(dialect, before)
  PROVE  WireInv'
<1> DEFINE all == CloseWrites(dialect, snk)
<1>1. PICK closing : closing \in Sendings(all, client = "gone" \/ why = "writeError") /\ wire' = before \o closing
  BY DEF End
<1>9. wire' = before \o closing
  BY <1>1
<1>2. cause' = why
  BY DEF End
<1>3. /\ Continues(dialect, Range(before), all)
      /\ \/ \E a, e : e.kind \in Terminal[dialect] /\ all \in {<<e>>, <<a, e>>}
         \/ dialect = "anthropic" /\ (snk.over \/ snk.errored) /\ all = << >>
  BY Closes
<1> HIDE DEF all
<1>4. IsSeq(before) /\ IsSeq(all) /\ Len(all) \in Nat
  <2>1. IsSeq(all)
    BY <1>3, WellContinues
  <2> QED BY <2>1, LenProperties DEF Well, IsSeq
<1>5. PICK n \in 0..Len(all) : closing = SubSeq(all, 1, n) /\ (client # "gone" /\ why # "writeError" => n = Len(all))
  <2>1. CASE client = "gone" \/ why = "writeError"
    <3>1. \E n \in 0..Len(all) : closing = SubSeq(all, 1, n)
      BY <1>1, <2>1 DEF Sendings
    <3> QED BY <2>1, <3>1
  <2>2. CASE ~(client = "gone" \/ why = "writeError")
    <3>1. closing \in {SubSeq(all, 1, n) : n \in {Len(all)}}
      BY <1>1, <2>2 DEF Sendings
    <3>2. \A n \in Nat : n \in 0..n
      OBVIOUS
    <3> QED BY <1>4, <3>1, <3>2
  <2> QED BY <2>1, <2>2
<1>6. Well(dialect, wire')
  <2>1. Continues(dialect, Range(before), closing)
    BY <1>3, <1>5, Shortened
  <2> QED BY <1>9, <2>1, WellContinues
<1>7. ASSUME client = "here", why # "writeError" PROVE Ends(dialect, wire')
  <2>1. closing = all
    BY <1>4, <1>5, <1>7, SubSeqFull DEF IsSeq
  <2>2. CASE \E a, e : e.kind \in Terminal[dialect] /\ all \in {<<e>>, <<a, e>>}
    <3>1. IsSeq(before)
      BY <1>4
    <3>2. Ends(dialect, before \o all)
      BY <2>2, <3>1, EndsSomehow
    <3> QED BY <1>9, <2>1, <3>2
  <2>3. CASE dialect = "anthropic" /\ (snk.over \/ snk.errored) /\ all = << >>
    <3>1. wire' = before
      BY <1>9, <1>4, <2>1, <2>3, ConcatEmptySeq DEF IsSeq
    <3> QED BY <1>7, <2>3, <3>1
  <2> QED BY <1>3, <2>2, <2>3
<1> QED BY <1>2, <1>6, <1>7 DEF WireInv, Closed, Running

LEMMA AnthropicEnds ==
  ASSUME NEW snk, NEW R, NEW f, Ready("anthropic", snk, R, f), f.kind \in {"metadata", "error"}
  PROVE  \E a, e : e.kind \in Terminal["anthropic"] /\ AnthropicWrites(snk, f) \in {<<e>>, <<a, e>>}
<1>1. CASE f.kind = "metadata"
  <2>1. AnthropicWrites(snk, f) = <<Frame("message_delta", NoBlock), Frame("message_stop", NoBlock)>>
    BY <1>1 DEF Ready, AnthropicWrites, Finish
  <2>2. Frame("message_stop", NoBlock).kind \in Terminal["anthropic"]
    BY FramesDiffer DEF Terminal
  <2> QED BY <2>1, <2>2
<1>2. CASE f.kind = "error"
  <2>1. AnthropicWrites(snk, f) = <<Frame("error", NoBlock)>>
    BY <1>2 DEF AnthropicWrites
  <2>2. Frame("error", NoBlock).kind \in Terminal["anthropic"]
    BY FramesDiffer DEF Terminal
  <2> QED BY <2>1, <2>2
<1> QED BY <1>1, <1>2

LEMMA WireNext == OutcomeInv /\ TextInv /\ WireInv /\ [Next]_vars => WireInv'
<1> SUFFICES ASSUME OutcomeInv, TextInv, WireInv, [Next]_vars PROVE WireInv'
  OBVIOUS
<1> SUFFICES ASSUME dialect # "native" PROVE WireInv'
  <2>1. dialect' = dialect
    <3>1. CASE TakeRequest \/ RejectRequest \/ SendRequest \/ ReceiveAnswer \/ ReturnAnswer \/ CallFails \/ UNCHANGED vars
      BY <3>1 DEF vars, choice, TakeRequest, RejectRequest, SendRequest, ReceiveAnswer, ReturnAnswer, CallFails
    <3>2. CASE ReadBedrock \/ ReadMantle \/ Deliver \/ WriteFails
      BY <3>2 DEF choice, ReadBedrock, ReadMantle, Deliver, WriteFails
    <3>3. CASE BodyEnds \/ ReadFails \/ HangUp \/ Finished
      BY <3>3 DEF vars, choice, BodyEnds, ReadFails, HangUp, Finished
    <3> QED BY <3>1, <3>2, <3>3 DEF Next
  <2> QED BY <2>1 DEF WireInv
<1>0. /\ FlagIsTrue /\ TextIsCounted /\ dialect \in Translated
      /\ Well(dialect, wire) /\ (Running => Relayed) /\ Closed
      /\ IsSeq(wire) /\ IsSeq(pending)
  BY DEF OutcomeInv, TextInv, TextIsCounted, WireInv, Dialects, Translated, FramesOK
<1> USE <1>0
<1>1. CASE TakeRequest \/ RejectRequest \/ SendRequest \/ ReceiveAnswer \/ ReturnAnswer \/ CallFails
  <2>1. UNCHANGED <<provider, dialect, client, relayState>> /\ (Running' => Running)
    BY <1>1 DEF TakeRequest, RejectRequest, SendRequest, ReceiveAnswer, ReturnAnswer, CallFails, choice, Running
  <2>2. StreamEnded' => UNCHANGED cause
    BY <1>1 DEF TakeRequest, RejectRequest, SendRequest, ReceiveAnswer, ReturnAnswer, CallFails, StreamEnded
  <2>3. \/ UNCHANGED upstream
        \/ upstream.at = "idle" /\ \E at \in {"start", "buffered"} : upstream' = [upstream EXCEPT !.at = at]
    BY <1>1 DEF FlagIsTrue, TakeRequest, RejectRequest, SendRequest, ReceiveAnswer, ReturnAnswer, CallFails
  <2>4. ASSUME Running' PROVE Relayed'
    <3>1. Relayed /\ UNCHANGED <<adapter, sink, wire, pending>>
      BY <2>1, <2>4 DEF relayState
    <3>2. CASE UNCHANGED upstream
      BY <2>1, <3>1, <3>2 DEF Relayed
    <3>3. CASE upstream.at = "idle" /\ \E at \in {"start", "buffered"} : upstream' = [upstream EXCEPT !.at = at]
      <4>1. upstream'.at \in {"start", "buffered"} /\ upstream'.block = upstream.block
        BY <3>3 DEF FlagIsTrue
      <4>2. Range(wire) = {} /\ Range(pending) = {} /\ sink = NewSink
        BY <3>1, <3>3 DEF Relayed, PlaceInv
      <4>3. PlaceInv(dialect, upstream', sink, Range(wire), Range(pending))
        BY <4>1, <4>2 DEF PlaceInv, Awaits, NewSink
      <4>4. \A b : ~Opening(dialect, sink, Range(pending), b) /\ ~Stopping(Range(wire), Range(pending), b)
        BY <4>2 DEF Opening, Stopping, Stopped, NewSink
      <4>5. BedrockInv(dialect, upstream', sink, Range(wire), Range(pending))
        BY <4>1, <4>4 DEF BedrockInv
      <4>6. MantleInv(dialect, upstream, adapter, sink, Range(wire), Range(pending)) =>
              MantleInv(dialect, upstream', adapter, sink, Range(wire), Range(pending))
        BY <4>1, <4>4 DEF MantleInv
      <4> QED BY <2>1, <3>1, <4>3, <4>5, <4>6 DEF Relayed
    <3> QED BY <2>3, <3>2, <3>3
  <2>5. wire' = wire /\ Closed'
    <3>1. wire' = wire
      BY <2>1 DEF relayState
    <3>2. StreamEnded' => StreamEnded
      BY <2>2 DEF StreamEnded, Running
    <3> QED BY <2>1, <2>2, <3>1, <3>2 DEF Closed
  <2> QED BY <2>1, <2>4, <2>5 DEF WireInv
<1>2. CASE ReadBedrock
  <2>1. PICK said \in Says, extra \in Extras :
          LET parsed == ParseHeaders(HeaderBlock(said, extra))
              block == IF said \in {"toolStart", "textDelta", "toolDelta", "blockStop"}
                         THEN Advance(said).block - 1 ELSE NoBlock
          IN /\ upstream' = Advance(said)
             /\ \/ /\ parsed.ok
                   /\ pending' = <<Frame(FrameKind(parsed.headers), block)>>
                   /\ UNCHANGED <<sink, wire, cause>>
                \/ End("broken", failed, streamed, sink, wire)
    BY <1>2 DEF ReadBedrock
  <2> DEFINE parsed == ParseHeaders(HeaderBlock(said, extra))
             block == IF said \in {"toolStart", "textDelta", "toolDelta", "blockStop"}
                        THEN Advance(said).block - 1 ELSE NoBlock
  <2>2. Running /\ provider = "bedrock" /\ pending = << >> /\ UNCHANGED <<provider, dialect, adapter, client>>
    BY <1>2 DEF ReadBedrock, choice
  <2>3. /\ SinkTells(dialect, sink, Range(wire)) /\ PlaceInv(dialect, upstream, sink, Range(wire), {})
        /\ BedrockInv(dialect, upstream, sink, Range(wire), {})
        /\ dialect = "anthropic" /\ (sink.over \/ sink.errored) => Ends(dialect, wire)
    BY <2>2, FewEvents DEF Relayed
  <2>4. ASSUME parsed.ok, pending' = <<Frame(FrameKind(parsed.headers), block)>>, UNCHANGED <<sink, wire, cause>>
        PROVE  WireInv'
    <3>1. FrameKind(parsed.headers) = IF said = "exception" THEN "error" ELSE FrameOf[said]
      BY <2>4, SaysWhat, FrameIsRead
    <3> DEFINE f == Frame(IF said = "exception" THEN "error" ELSE FrameOf[said], block)
    <3>2. pending' = <<f>>
      BY <2>4, <3>1
    <3> HIDE DEF parsed
    <3>3. /\ Ready(dialect, sink, Range(wire), f)
          /\ PlaceInv(dialect, Advance(said), sink, Range(wire), {f})
          /\ BedrockInv(dialect, Advance(said), sink, Range(wire), {f})
      BY <2>3, BedrockReads
    <3> HIDE DEF f
    <3>4. QueueReady(dialect, sink, Range(wire), pending') /\ Range(pending') = {f}
      BY <3>2, <3>3, QueueOne, FewEvents
    <3>5. upstream' = Advance(said)
      BY <2>1
    <3>6. Relayed'
      BY <2>2, <2>3, <2>4, <3>3, <3>4, <3>5 DEF Relayed
    <3>7. Closed'
      BY <2>2, <2>4 DEF Closed, StreamEnded, Running
    <3> QED BY <2>2, <2>4, <3>6, <3>7 DEF WireInv
  <2>5. ASSUME End("broken", failed, streamed, sink, wire) PROVE WireInv'
    <3>1. MayClose(dialect, sink, Range(wire))
      BY <2>3, ClosesAnyTime
    <3> QED BY <2>2, <2>3, <2>5, <3>1, EndIsWell
  <2> QED BY <2>1, <2>4, <2>5
<1>3. CASE ReadMantle
  <2>0. PICK said \in Says \ {"metadata"} :
          \E item \in {0, Advance(said).block} :
            /\ said # "toolDelta" => item = Advance(said).block
            /\ upstream' = (IF said = "messageStop" THEN [Advance(said) EXCEPT !.at = "over"] ELSE Advance(said))
            /\ adapter' = AdapterAfter(adapter, MantleSays(said), item)
            /\ pending' = AdapterFrames(adapter, MantleSays(said), item)
    BY <1>3 DEF ReadMantle
  <2>1. PICK item \in {0, Advance(said).block} :
            /\ said # "toolDelta" => item = Advance(said).block
            /\ upstream' = (IF said = "messageStop" THEN [Advance(said) EXCEPT !.at = "over"] ELSE Advance(said))
            /\ adapter' = AdapterAfter(adapter, MantleSays(said), item)
            /\ pending' = AdapterFrames(adapter, MantleSays(said), item)
    BY <2>0
  <2>2. Running /\ provider = "mantle" /\ pending = << >> /\ UNCHANGED <<provider, dialect, client, sink, wire, cause>>
    BY <1>3 DEF ReadMantle, choice
  <2>3. /\ SinkTells(dialect, sink, Range(wire)) /\ PlaceInv(dialect, upstream, sink, Range(wire), {})
        /\ MantleInv(dialect, upstream, adapter, sink, Range(wire), {})
        /\ dialect = "anthropic" /\ (sink.over \/ sink.errored) => Ends(dialect, wire)
    BY <2>2, FewEvents DEF Relayed
  <2>4. adapter \in Adapters /\ IsFiniteSet(adapter.open)
    BY DEF TextIsCounted
  <2>5. /\ QueueReady(dialect, sink, Range(wire), pending')
        /\ PlaceInv(dialect, upstream', sink, Range(wire), Range(pending'))
        /\ MantleInv(dialect, upstream', adapter', sink, Range(wire), Range(pending'))
    BY <2>1, <2>3, <2>4, MantleReads
  <2>6. Relayed'
    BY <2>2, <2>3, <2>5 DEF Relayed
  <2>7. Closed'
    BY <2>2 DEF Closed, StreamEnded, Running
  <2> QED BY <2>2, <2>6, <2>7 DEF WireInv
<1>4. ASSUME Running, pending # << >>
      PROVE  LET f == Head(pending)
                 w == Writes(dialect, includeUsage, sink, f)
                 R == Range(wire)
             IN /\ SinkTells(dialect, sink, R) /\ Ready(dialect, sink, R, f)
                /\ Continues(dialect, R, w)
                /\ SinkTells(dialect, SinkAfter(dialect, sink, f), R \cup Range(w))
                /\ QueueReady(dialect, SinkAfter(dialect, sink, f), R \cup Range(w), Tail(pending))
                /\ Range(pending) = {f} \cup Range(Tail(pending))
                /\ dialect = "anthropic" /\ (SinkAfter(dialect, sink, f).over \/ SinkAfter(dialect, sink, f).errored)
                     => f.kind \in {"metadata", "error"}
  <2>1. SinkTells(dialect, sink, Range(wire)) /\ QueueReady(dialect, sink, Range(wire), pending)
    BY <1>4 DEF Relayed
  <2>2. Ready(dialect, sink, Range(wire), Head(pending))
    BY <1>4, <2>1, QueueMoves
  <2>3. /\ Continues(dialect, Range(wire), Writes(dialect, includeUsage, sink, Head(pending)))
        /\ SinkTells(dialect, SinkAfter(dialect, sink, Head(pending)),
                     Range(wire) \cup Range(Writes(dialect, includeUsage, sink, Head(pending))))
    BY <2>1, <2>2, Delivers
  <2>4. dialect = "anthropic" /\ (SinkAfter(dialect, sink, Head(pending)).over \/ SinkAfter(dialect, sink, Head(pending)).errored)
                     => Head(pending).kind \in {"metadata", "error"}
    BY <2>1, <2>2, Delivers DEF Ready
  <2> QED BY <1>4, <2>1, <2>2, <2>3, <2>4, QueueMoves, HeadAndRest
<1>5. CASE Deliver
  <2> DEFINE f == Head(pending)
             w == Writes(dialect, includeUsage, sink, f)
             R == Range(wire)
             new == SinkAfter(dialect, sink, f)
             G == Range(Tail(pending))
  <2>1. /\ Running /\ pending # << >> /\ wire' = wire \o w /\ sink' = new /\ pending' = Tail(pending)
        /\ UNCHANGED <<provider, dialect, upstream, adapter, client, cause>>
    BY <1>5 DEF Deliver, choice
  <2>2. /\ SinkTells(dialect, sink, R) /\ Ready(dialect, sink, R, f)
        /\ Continues(dialect, R, w) /\ SinkTells(dialect, new, R \cup Range(w))
        /\ QueueReady(dialect, new, R \cup Range(w), Tail(pending))
        /\ Range(pending) = {f} \cup G
        /\ dialect = "anthropic" /\ (new.over \/ new.errored) => f.kind \in {"metadata", "error"}
    BY <1>4, <2>1
  <2>3. /\ PlaceInv(dialect, upstream, sink, R, {f} \cup G)
        /\ provider = "bedrock" => BedrockInv(dialect, upstream, sink, R, {f} \cup G)
        /\ provider = "mantle" => MantleInv(dialect, upstream, adapter, sink, R, {f} \cup G)
    BY <2>1, <2>2 DEF Relayed
  <2>4. Well(dialect, wire') /\ Range(wire') = R \cup Range(w)
    BY <2>1, <2>2, WellContinues
  <2>5. /\ PlaceInv(dialect, upstream, new, R \cup Range(w), G)
        /\ provider = "bedrock" => BedrockInv(dialect, upstream, new, R \cup Range(w), G)
        /\ provider = "mantle" => MantleInv(dialect, upstream, adapter, new, R \cup Range(w), G)
    BY <2>2, <2>3, DeliveryKeeps
  <2>6. ASSUME dialect = "anthropic", new.over \/ new.errored PROVE Ends(dialect, wire')
    <3>1. \E a, e : e.kind \in Terminal["anthropic"] /\ AnthropicWrites(sink, f) \in {<<e>>, <<a, e>>}
      BY <2>2, <2>6, AnthropicEnds
    <3>2. \E a, e : e.kind \in Terminal[dialect] /\ w \in {<<e>>, <<a, e>>}
      BY <2>6, <3>1 DEF Writes
    <3> HIDE DEF w
    <3>3. Ends(dialect, wire \o w)
      BY <3>2, EndsSomehow
    <3> QED BY <2>1, <3>3
  <2> HIDE DEF f, w, R, new, G
  <2>7. Relayed'
    BY <2>1, <2>2, <2>4, <2>5, <2>6 DEF Relayed, G
  <2>8. Closed'
    BY <2>1 DEF Closed, StreamEnded, Running
  <2> QED BY <2>1, <2>4, <2>7, <2>8 DEF WireInv
<1>6. CASE WriteFails
  <2> DEFINE f == Head(pending)
             w == Writes(dialect, includeUsage, sink, f)
             R == Range(wire)
             new == SinkAfter(dialect, sink, f)
  <2>1. Running /\ pending # << >> /\ UNCHANGED <<dialect, client>>
    BY <1>6 DEF WriteFails, choice
  <2>2. PICK why \in {"writeError", "abort"}, n \in 0..(Len(w) - 1) :
          /\ End(why, failed, Gathered(f), new, wire \o SubSeq(w, 1, n))
          /\ why = "abort" => client = "gone"
    BY <1>6 DEF WriteFails
  <2>3. Continues(dialect, R, w) /\ SinkTells(dialect, new, R \cup Range(w))
    BY <1>4, <2>1
  <2> DEFINE part == SubSeq(w, 1, n)
  <2> HIDE DEF f, w, new
  <2>4. Continues(dialect, R, part) /\ Range(part) \subseteq Range(w)
    <3>1. IsSeq(w)
      BY <2>3, WellContinues
    <3>2. Len(w) \in Nat
      BY <3>1, LenProperties DEF IsSeq
    <3>3. n \in 0..Len(w)
      BY <3>2
    <3> QED BY <2>3, <3>3, Shortened
  <2> HIDE DEF part
  <2>5. Well(dialect, wire \o part) /\ Range(wire \o part) \subseteq R \cup Range(w)
    BY <2>4, WellContinues
  <2>6. MayClose(dialect, new, Range(wire \o part))
    BY <2>3, <2>5, ClosesAnyTime
  <2>7. End(why, failed, Gathered(f), new, wire \o part)
    BY <2>2 DEF part
  <2> QED BY <2>1, <2>2, <2>5, <2>6, <2>7, EndIsWell
<1>7. CASE BodyEnds \/ ReadFails
  <2>1. Running /\ UNCHANGED <<dialect, client>>
    BY <1>7 DEF BodyEnds, ReadFails, choice
  <2>2. \E why \in {"eof", "broken", "canceled"} : End(why, failed, streamed, sink, wire)
    <3>1. \A avail \in {0, 5, PreludeLen, PreludeLen + 1} :
            ReadFrame([avail |-> avail, total |-> 64, headers |-> 40, preludeOK |-> TRUE, messageOK |-> TRUE])
              \in {"eof", "broken"}
      BY DEF ReadFrame, WellFormedPrelude, PreludeLen, TrailerLen, MaxFrameLen
    <3> QED BY <1>7, <3>1 DEF BodyEnds, ReadFails
  <2>3. /\ SinkTells(dialect, sink, Range(wire))
        /\ dialect = "anthropic" /\ (sink.over \/ sink.errored) => Ends(dialect, wire)
    BY <2>1 DEF Relayed
  <2>4. MayClose(dialect, sink, Range(wire))
    BY <2>3, ClosesAnyTime
  <2> QED BY <2>1, <2>2, <2>3, <2>4, EndIsWell
<1>8. CASE HangUp \/ Finished \/ UNCHANGED vars
  <2>1. UNCHANGED <<provider, dialect, upstream, adapter, pending, sink, wire, cause>>
    BY <1>8 DEF HangUp, Finished, vars, choice
  <2>2. Running' => Relayed'
    BY <2>1 DEF Relayed, Running
  <2>3. Closed'
    <3>1. CASE HangUp
      BY <2>1, <3>1 DEF HangUp, Closed, StreamEnded, Running
    <3>2. CASE UNCHANGED vars
      BY <2>1, <3>2 DEF vars, Closed, StreamEnded, Running
    <3> QED BY <1>8, <3>1, <3>2 DEF Finished
  <2> QED BY <2>1, <2>2, <2>3 DEF WireInv
<1> QED BY <1>1, <1>2, <1>3, <1>5, <1>6, <1>7, <1>8 DEF Next

\* What a client of a translated dialect reads is a stream of that dialect, with
\* its end unless the connection broke, whatever the provider says and wherever
\* it, the client or the connection gives up.
THEOREM WireIsWellFormed == Spec => []WireWellFormed
<1>1. Init => OutcomeInv /\ TextInv /\ WireInv
  BY OutcomeInit, TextInit, WireInit
<1>2. OutcomeInv /\ TextInv /\ WireInv /\ [Next]_vars => (OutcomeInv /\ TextInv /\ WireInv)'
  BY OutcomeNext, TextNext, WireNext
<1>3. TextInv /\ WireInv => WireWellFormed
  <2> SUFFICES ASSUME TextInv, WireInv, dialect # "native" PROVE WireWellFormed
    BY DEF WireWellFormed
  <2>1. dialect \in Translated /\ Well(dialect, wire) /\ Closed
    BY DEF TextInv, TextIsCounted, WireInv, Dialects, Translated
  <2> QED BY <2>1, WellIsWellFormed DEF Closed, Ends
<1> QED BY <1>1, <1>2, <1>3, PTL DEF Spec
-----------------------------------------------------------------------------
(***************************************************************************)
(* Sequences of any length: induction in the form of a set, and what          *)
(* FlattenSeq does to one more element.                                       *)
(***************************************************************************)
LEMMA SeqInduction ==
  ASSUME NEW T, NEW P, << >> \in P, \A s \in Seq(T), x \in T : s \in P => Append(s, x) \in P
  PROVE  \A s \in Seq(T) : s \in P
<1> DEFINE N == {n \in Nat : \A s \in Seq(T) : Len(s) = n => s \in P}
<1>1. 0 \in N
  <2>1. \A s \in Seq(T) : Len(s) = 0 => s = << >>
    BY EmptySeq
  <2> QED BY <2>1
<1>2. ASSUME NEW n \in Nat, n \in N PROVE n + 1 \in N
  <2>1. SUFFICES ASSUME NEW s \in Seq(T), Len(s) = n + 1 PROVE s \in P
    OBVIOUS
  <2>2. s # << >>
    BY <2>1, EmptySeq
  <2>3. PICK t \in Seq(T), x \in T : s = Append(t, x)
    BY <2>2, SequenceEmptyOrAppend
  <2>4. Len(t) \in Nat /\ Len(s) = Len(t) + 1
    BY <2>3, LenProperties, AppendProperties
  <2>5. t \in P
    BY <1>2, <2>1, <2>4
  <2> QED BY <2>3, <2>5
<1> HIDE DEF N
<1>3. \A n \in Nat : n \in N
  BY <1>1, <1>2, SetInduction
<1> QED BY <1>3, LenProperties DEF N

LEMMA ConcatsExist ==
  ASSUME NEW F
  PROVE  \A n \in Nat : \E p : p = [i \in 1..n |-> IF i = 1 THEN F[i] ELSE p[i-1] \o F[i]]
<1> DEFINE N == {n \in Nat : \E p : p = [i \in 1..n |-> IF i = 1 THEN F[i] ELSE p[i-1] \o F[i]]}
<1>1. 0 \in N
  <2> DEFINE p == [i \in 1..0 |-> F[i]]
  <2>1. p = [i \in 1..0 |-> IF i = 1 THEN F[i] ELSE p[i-1] \o F[i]]
    OBVIOUS
  <2> HIDE DEF p
  <2> QED BY <2>1
<1>2. ASSUME NEW n \in Nat, n \in N PROVE n + 1 \in N
  <2>1. PICK p : p = [i \in 1..n |-> IF i = 1 THEN F[i] ELSE p[i-1] \o F[i]]
    BY <1>2
  <2> DEFINE q == [i \in 1..(n+1) |-> IF i = 1 THEN F[i] ELSE p[i-1] \o F[i]]
  <2>2. ASSUME NEW i \in 1..(n+1), i # 1 PROVE q[i] = q[i-1] \o F[i]
    <3>1. i - 1 \in 1..n /\ i - 1 \in 1..(n+1)
      BY <2>2
    <3>2. q[i-1] = p[i-1]
      BY <2>1, <3>1
    <3>3. q[i] = p[i-1] \o F[i]
      BY <2>2
    <3> QED BY <3>2, <3>3
  <2>3. q = [i \in 1..(n+1) |-> IF i = 1 THEN F[i] ELSE q[i-1] \o F[i]]
    BY <2>2
  <2> HIDE DEF q
  <2>4. \E r : r = [i \in 1..(n+1) |-> IF i = 1 THEN F[i] ELSE r[i-1] \o F[i]]
    BY <2>3
  <2>5. n + 1 \in Nat
    OBVIOUS
  <2> QED BY <2>4, <2>5, Zenon
<1> HIDE DEF N
<1>3. \A n \in Nat : n \in N
  BY <1>1, <1>2, SetInduction
<1> QED BY <1>3 DEF N

\* p[i] is what the first i elements of F are together.
Concats(p, F, n) == p[1] = F[1] /\ \A i \in 2..n : p[i] = p[i-1] \o F[i]

LEMMA FlattenRuns ==
  ASSUME NEW F, NEW n, n \in Nat, n # 0, Len(F) = n
  PROVE  \E p : FlattenSeq(F) = p[n] /\ Concats(p, F, n)
<1> DEFINE p == CHOOSE q : q = [i \in 1..n |-> IF i = 1 THEN F[i] ELSE q[i-1] \o F[i]]
<1>1. FlattenSeq(F) = p[n]
  BY n # 0 DEF FlattenSeq
<1>2. \E q : q = [i \in 1..n |-> IF i = 1 THEN F[i] ELSE q[i-1] \o F[i]]
  BY ConcatsExist
<1>3. p = [i \in 1..n |-> IF i = 1 THEN F[i] ELSE p[i-1] \o F[i]]
  BY <1>2, Zenon
<1> HIDE DEF p
<1>4. Concats(p, F, n)
  <2>1. ASSUME NEW i \in 1..n PROVE p[i] = IF i = 1 THEN F[i] ELSE p[i-1] \o F[i]
    BY <1>3, Zenon
  <2>2. 1 \in 1..n /\ \A i \in 2..n : i \in 1..n /\ i # 1
    OBVIOUS
  <2>3. p[1] = F[1]
    BY <2>1, <2>2
  <2> QED BY <2>1, <2>2, <2>3 DEF Concats
<1> QED BY <1>1, <1>4

LEMMA FlattenNone == FlattenSeq(<< >>) = << >>
BY DEF FlattenSeq

LEMMA FlattenAppend ==
  ASSUME NEW U, NEW F \in Seq(Seq(U)), NEW x \in Seq(U)
  PROVE  FlattenSeq(Append(F, x)) = FlattenSeq(F) \o x /\ FlattenSeq(F) \in Seq(U)
<1> DEFINE n == Len(F)
           G == Append(F, x)
<1>1. n \in Nat /\ Len(G) = n + 1 /\ G[n + 1] = x /\ \A i \in 1..n : G[i] = F[i] /\ F[i] \in Seq(U)
  BY LenProperties, AppendProperties
<1>2. CASE F = << >>
  <2>1. n = 0
    BY <1>2
  <2> HIDE DEF n, G
  <2>2. FlattenSeq(G) = G[1]
    <3>1. 1 \in Nat /\ 1 # 0 /\ Len(G) = 1
      BY <1>1, <2>1
    <3>2. \E p : FlattenSeq(G) = p[1] /\ Concats(p, G, 1)
      BY <3>1, FlattenRuns
    <3> QED BY <3>2 DEF Concats
  <2>3. FlattenSeq(F) = << >> /\ << >> \o x = x /\ << >> \in Seq(U)
    BY <1>2, FlattenNone, ConcatEmptySeq
  <2> QED BY <1>1, <2>1, <2>2, <2>3 DEF G
<1>3. CASE F # << >>
  <2>1. n # 0
    BY <1>3, EmptySeq
  <2> HIDE DEF n, G
  <2>2. PICK p : FlattenSeq(F) = p[n] /\ Concats(p, F, n)
    BY <1>1, <2>1, FlattenRuns DEF n
  <2>3. PICK q : FlattenSeq(G) = q[n+1] /\ Concats(q, G, n + 1)
    <3>1. n + 1 \in Nat /\ n + 1 # 0 /\ Len(G) = n + 1
      BY <1>1, <2>1
    <3> QED BY <3>1, FlattenRuns
  <2> DEFINE N == {k \in Nat : k + 1 <= n => q[k+1] = p[k+1] /\ p[k+1] \in Seq(U)}
  <2>4. 0 \in N
    BY <1>1, <2>1, <2>2, <2>3 DEF Concats
  <2>5. ASSUME NEW k \in Nat, k \in N PROVE k + 1 \in N
    <3> SUFFICES ASSUME k + 2 <= n PROVE q[k+2] = p[k+2] /\ p[k+2] \in Seq(U)
      OBVIOUS
    <3>1. q[k+1] = p[k+1] /\ p[k+1] \in Seq(U)
      BY <1>1, <2>5
    <3>2. p[k+2] = p[k+1] \o F[k+2] /\ q[k+2] = q[k+1] \o G[k+2]
      BY <1>1, <2>2, <2>3, k + 2 \in 2..n, k + 2 \in 2..(n+1), (k + 2) - 1 = k + 1 DEF Concats
    <3>3. G[k+2] = F[k+2] /\ F[k+2] \in Seq(U)
      BY <1>1
    <3> QED BY <3>1, <3>2, <3>3, ConcatProperties
  <2> HIDE DEF N
  <2>6. \A k \in Nat : k \in N
    BY <2>4, <2>5, SetInduction
  <2>7. q[n] = p[n] /\ p[n] \in Seq(U)
    <3>1. n - 1 \in Nat /\ (n - 1) + 1 = n /\ (n - 1) + 1 <= n
      BY <1>1, <2>1
    <3>2. n - 1 \in N
      BY <2>6, <3>1
    <3> QED BY <3>1, <3>2 DEF N
  <2>8. q[n+1] = q[n] \o x
    BY <1>1, <2>1, <2>3, n + 1 \in 2..(n+1), (n + 1) - 1 = n DEF Concats
  <2> QED BY <2>2, <2>3, <2>7, <2>8 DEF G
<1> QED BY <1>2, <1>3

(***************************************************************************)
(* Every translation gives each element of a sequence a sequence of its own   *)
(* and joins them.  FlatMap is that, for a function e; what is proved of it   *)
(* once holds for filters, contents and ids alike.                            *)
(***************************************************************************)
FlatMap(e, s) == FlattenSeq([i \in 1..Len(s) |-> e[s[i]]])
Translates(e, T, U) == e \in [T -> Seq(U)]

LEMMA TranslatedOne == ASSUME NEW T, NEW U, NEW e, Translates(e, T, U), NEW x \in T PROVE e[x] \in Seq(U)
BY DEF Translates

LEMMA MapAppend ==
  ASSUME NEW T, NEW V, NEW e \in [T -> V], NEW s \in Seq(T), NEW x \in T
  PROVE  /\ [i \in 1..Len(s) |-> e[s[i]]] \in Seq(V)
         /\ [i \in 1..Len(Append(s, x)) |-> e[Append(s, x)[i]]] = Append([i \in 1..Len(s) |-> e[s[i]]], e[x])
<1> DEFINE n == Len(s)
           t == Append(s, x)
           m == [i \in 1..n |-> e[s[i]]]
           k == [i \in 1..Len(t) |-> e[t[i]]]
           a == Append(m, e[x])
<1>1. n \in Nat /\ \A i \in 1..n : s[i] \in T
  BY LenProperties, ElementOfSeq
<1>2. m \in Seq(V) /\ Len(m) = n
  <2>1. m \in [1..n -> V]
    BY <1>1
  <2>2. m \in Seq(V)
    BY <1>1, <2>1, SeqDef
  <2> QED BY <1>1, <2>1, <2>2, LenProperties
<1>3. Len(t) = n + 1 /\ t[n + 1] = x /\ \A i \in 1..n : t[i] = s[i]
  BY AppendProperties
<1>4. a \in Seq(V) /\ Len(a) = n + 1 /\ a[n + 1] = e[x] /\ \A i \in 1..n : a[i] = m[i]
  <2> HIDE DEF m
  <2> QED BY <1>2, AppendProperties, e[x] \in V
<1>5. k \in [1..(n + 1) -> V]
  BY <1>1, <1>3
<1>6. k \in Seq(V) /\ Len(k) = n + 1
  <2> HIDE DEF k
  <2>1. k \in Seq(V)
    BY <1>1, <1>5, SeqDef, n + 1 \in Nat
  <2> QED BY <1>1, <1>5, <2>1, LenProperties
<1>7. \A i \in 1..(n + 1) : k[i] = a[i]
  <2>1. ASSUME NEW i \in 1..(n + 1) PROVE k[i] = e[t[i]]
    BY <1>3
  <2>2. ASSUME NEW i \in 1..n PROVE a[i] = e[s[i]]
    BY <1>4
  <2> HIDE DEF k, a, t
  <2> QED BY <1>1, <1>3, <1>4, <2>1, <2>2
<1>8. k = a
  <2> HIDE DEF k, a
  <2> QED BY <1>4, <1>6, <1>7, SeqEqual
<1> QED BY <1>2, <1>8

LEMMA FlatMapNone == ASSUME NEW e PROVE FlatMap(e, << >>) = << >>
<1>1. [i \in 1..Len(<< >>) |-> e[<< >>[i]]] = << >>
  OBVIOUS
<1> QED BY <1>1, FlattenNone DEF FlatMap

LEMMA FlatMapAppend ==
  ASSUME NEW T, NEW U, NEW e, Translates(e, T, U), NEW s \in Seq(T), NEW x \in T
  PROVE  FlatMap(e, s) \in Seq(U) /\ FlatMap(e, Append(s, x)) = FlatMap(e, s) \o e[x]
<1>1. e[x] \in Seq(U) /\ e \in [T -> Seq(U)]
  BY DEF Translates
<1> DEFINE m == [i \in 1..Len(s) |-> e[s[i]]]
<1>2. m \in Seq(Seq(U)) /\ FlatMap(e, Append(s, x)) = FlattenSeq(Append(m, e[x]))
  <2>1. /\ m \in Seq(Seq(U))
        /\ [i \in 1..Len(Append(s, x)) |-> e[Append(s, x)[i]]] = Append(m, e[x])
    BY <1>1, MapAppend
  <2> QED BY <2>1, Zenon DEF FlatMap
<1>3. FlatMap(e, s) = FlattenSeq(m)
  BY DEF FlatMap
<1> HIDE DEF m
<1> QED BY <1>1, <1>2, <1>3, FlattenAppend

LEMMA FlatMapType ==
  ASSUME NEW T, NEW U, NEW e, Translates(e, T, U), NEW s \in Seq(T)
  PROVE  FlatMap(e, s) \in Seq(U)
<1>1. CASE s = << >>
  BY <1>1, FlatMapNone, EmptySeq
<1>2. CASE s # << >>
  <2>1. PICK t \in Seq(T), x \in T : s = Append(t, x)
    BY <1>2, SequenceEmptyOrAppend
  <2> QED BY <2>1, FlatMapAppend, ConcatProperties, TranslatedOne
<1> QED BY <1>1, <1>2

LEMMA FlatMapConcat ==
  ASSUME NEW T, NEW U, NEW e, Translates(e, T, U), NEW s \in Seq(T), NEW t \in Seq(T)
  PROVE  FlatMap(e, s \o t) = FlatMap(e, s) \o FlatMap(e, t)
<1> DEFINE P == {u \in Seq(T) : FlatMap(e, s \o u) = FlatMap(e, s) \o FlatMap(e, u)}
<1> HIDE DEF P
<1>1. << >> \in P
  BY FlatMapNone, FlatMapType, ConcatEmptySeq, EmptySeq DEF P
<1>2. ASSUME NEW u \in Seq(T), NEW x \in T, u \in P PROVE Append(u, x) \in P
  <2>1. s \o Append(u, x) = Append(s \o u, x) /\ s \o u \in Seq(T) /\ Append(u, x) \in Seq(T)
    <3>1. <<x>> \in Seq(T) /\ s \o u \in Seq(T) /\ Append(u, x) \in Seq(T)
      BY ConcatProperties, AppendProperties
    <3>2. Append(u, x) = u \o <<x>> /\ Append(s \o u, x) = (s \o u) \o <<x>>
      BY <3>1, AppendIsConcat
    <3> QED BY <3>1, <3>2, ConcatAssociative
  <2>2. FlatMap(e, s \o Append(u, x)) = FlatMap(e, s \o u) \o e[x]
    <3> DEFINE v == s \o u
    <3>1. v \in Seq(T) /\ s \o Append(u, x) = Append(v, x)
      BY <2>1
    <3> HIDE DEF v
    <3>2. FlatMap(e, Append(v, x)) = FlatMap(e, v) \o e[x]
      BY <3>1, FlatMapAppend
    <3> QED BY <3>1, <3>2 DEF v
  <2>3. FlatMap(e, Append(u, x)) = FlatMap(e, u) \o e[x]
    BY FlatMapAppend
  <2>4. FlatMap(e, s) \in Seq(U) /\ FlatMap(e, u) \in Seq(U) /\ e[x] \in Seq(U)
    BY FlatMapType, TranslatedOne
  <2>5. FlatMap(e, s \o u) = FlatMap(e, s) \o FlatMap(e, u)
    BY <1>2 DEF P
  <2>6. FlatMap(e, s \o Append(u, x)) = FlatMap(e, s) \o FlatMap(e, Append(u, x))
    <3> DEFINE a == FlatMap(e, s)
               b == FlatMap(e, u)
               c == e[x]
    <3>1. (a \o b) \o c = a \o (b \o c)
      <4>1. a \in Seq(U) /\ b \in Seq(U) /\ c \in Seq(U)
        BY <2>4
      <4> HIDE DEF a, b, c
      <4> QED BY <4>1, ConcatAssociative
    <3> QED BY <2>2, <2>3, <2>5, <3>1
  <2> QED BY <2>1, <2>6 DEF P
<1>3. \A u \in Seq(T) : u \in P
  BY <1>1, <1>2, SeqInduction
<1> QED BY <1>3 DEF P

LEMMA FlatMapTwice ==
  ASSUME NEW T, NEW U, NEW V, NEW e, Translates(e, T, U), NEW f, Translates(f, U, V), NEW g, Translates(g, T, V),
         \A x \in T : g[x] = FlatMap(f, e[x]), NEW s \in Seq(T)
  PROVE  FlatMap(f, FlatMap(e, s)) = FlatMap(g, s)
<1> DEFINE P == {u \in Seq(T) : FlatMap(f, FlatMap(e, u)) = FlatMap(g, u)}
<1> HIDE DEF P
<1>1. << >> \in P
  BY FlatMapNone, EmptySeq DEF P
<1>2. ASSUME NEW u \in Seq(T), NEW x \in T, u \in P PROVE Append(u, x) \in P
  <2>1. FlatMap(e, u) \in Seq(U) /\ e[x] \in Seq(U) /\ Append(u, x) \in Seq(T)
    BY FlatMapType, TranslatedOne, AppendProperties
  <2>2. FlatMap(e, Append(u, x)) = FlatMap(e, u) \o e[x]
    BY FlatMapAppend
  <2>3. FlatMap(f, FlatMap(e, u) \o e[x]) = FlatMap(f, FlatMap(e, u)) \o FlatMap(f, e[x])
    BY <2>1, FlatMapConcat
  <2>4. FlatMap(g, Append(u, x)) = FlatMap(g, u) \o g[x]
    BY FlatMapAppend
  <2>5. g[x] = FlatMap(f, e[x]) /\ FlatMap(f, FlatMap(e, u)) = FlatMap(g, u)
    BY <1>2 DEF P
  <2> QED BY <2>1, <2>2, <2>3, <2>4, <2>5 DEF P
<1>3. \A u \in Seq(T) : u \in P
  BY <1>1, <1>2, SeqInduction
<1> QED BY <1>3 DEF P

\* One element for each: the sequence of them.
GivesOne(e, T, U) == \A x \in T : \E y \in U : e[x] = <<y>>

LEMMA FlatMapOne ==
  ASSUME NEW T, NEW U, NEW e, Translates(e, T, U), GivesOne(e, T, U), NEW s \in Seq(T)
  PROVE  FlatMap(e, s) = [i \in 1..Len(s) |-> e[s[i]][1]]
<1> DEFINE g == [x \in T |-> e[x][1]]
<1>1. g \in [T -> U] /\ \A x \in T : e[x] = <<g[x]>> /\ g[x] = e[x][1]
  BY DEF GivesOne
<1> HIDE DEF g
<1> DEFINE M(u) == [i \in 1..Len(u) |-> g[u[i]]]
           P == {u \in Seq(T) : FlatMap(e, u) = M(u)}
<1> HIDE DEF P
<1>2. << >> \in P
  <2>1. M(<< >>) = << >>
    OBVIOUS
  <2> QED BY <2>1, FlatMapNone, EmptySeq DEF P
<1>3. ASSUME NEW u \in Seq(T), NEW x \in T, u \in P PROVE Append(u, x) \in P
  <2>1. M(u) \in Seq(U) /\ M(Append(u, x)) = Append(M(u), g[x])
    BY <1>1, MapAppend
  <2>2. FlatMap(e, Append(u, x)) = FlatMap(e, u) \o <<g[x]>>
    <3>1. FlatMap(e, Append(u, x)) = FlatMap(e, u) \o e[x]
      BY FlatMapAppend
    <3> QED BY <1>1, <3>1
  <2>3. FlatMap(e, u) = M(u) /\ Append(u, x) \in Seq(T) /\ g[x] \in U
    BY <1>1, <1>3, AppendProperties DEF P
  <2> HIDE DEF M
  <2>4. Append(M(u), g[x]) = M(u) \o <<g[x]>>
    BY <2>1, <2>3, AppendIsConcat
  <2> QED BY <2>1, <2>2, <2>3, <2>4 DEF P
<1>4. \A u \in Seq(T) : u \in P
  BY <1>2, <1>3, SeqInduction
<1>5. \A i \in 1..Len(s) : g[s[i]] = e[s[i]][1]
  BY <1>1, ElementOfSeq
<1> QED BY <1>4, <1>5 DEF P

\* Two sequences of which each element gives the same.
LEMMA FlatMapSame ==
  ASSUME NEW e, NEW f, NEW s, NEW t, Len(s) = Len(t), \A i \in 1..Len(s) : e[s[i]] = f[t[i]]
  PROVE  FlatMap(e, s) = FlatMap(f, t)
<1>1. [i \in 1..Len(s) |-> e[s[i]]] = [i \in 1..Len(t) |-> f[t[i]]]
  OBVIOUS
<1> QED BY <1>1, Zenon DEF FlatMap

\* What the first i elements of s give is what the first i - 1 do, and the i-th.
GrowsBy(e, s, U) ==
  \A i \in 1..Len(s) : /\ FlatMap(e, SubSeq(s, 1, i)) = FlatMap(e, SubSeq(s, 1, i - 1)) \o e[s[i]]
                        /\ FlatMap(e, SubSeq(s, 1, i - 1)) \in Seq(U)

LEMMA FlatMapEnds ==
  ASSUME NEW e, NEW T, NEW s \in Seq(T)
  PROVE  FlatMap(e, SubSeq(s, 1, 0)) = << >> /\ FlatMap(e, SubSeq(s, 1, Len(s))) = FlatMap(e, s)
<1>1. SubSeq(s, 1, 0) = << >> /\ SubSeq(s, 1, Len(s)) = s
  BY SubSeqEmpty, SubSeqFull
<1> QED BY <1>1, FlatMapNone

LEMMA FlatMapPrefix ==
  ASSUME NEW T, NEW U, NEW e, Translates(e, T, U), NEW s \in Seq(T)
  PROVE  GrowsBy(e, s, U)
<1> SUFFICES ASSUME NEW i \in 1..Len(s)
             PROVE  /\ FlatMap(e, SubSeq(s, 1, i)) = FlatMap(e, SubSeq(s, 1, i - 1)) \o e[s[i]]
                    /\ FlatMap(e, SubSeq(s, 1, i - 1)) \in Seq(U)
  BY DEF GrowsBy
<1> DEFINE p == SubSeq(s, 1, i - 1)
<1>1. Len(s) \in Nat /\ s[i] \in T
  BY LenProperties, ElementOfSeq
<1>2. p \in Seq(T)
  <2>1. \A j \in 1..(i - 1) : s[j] \in T
    BY <1>1, ElementOfSeq
  <2> QED BY <1>1, <2>1, SubSeqProperties
<1>3. SubSeq(s, 1, i) = p \o <<s[i]>>
  BY <1>1, SubSeqRecursiveSecond
<1> HIDE DEF p
<1>4. p \o <<s[i]>> = Append(p, s[i])
  BY <1>1, <1>2, AppendIsConcat
<1>5. FlatMap(e, Append(p, s[i])) = FlatMap(e, p) \o e[s[i]] /\ FlatMap(e, p) \in Seq(U)
  BY <1>1, <1>2, FlatMapAppend
<1> QED BY <1>3, <1>4, <1>5 DEF p
(***************************************************************************)
(* FoldLeft goes through the elements one by one: it is the last of a chain   *)
(* of values, each made by a step from the one before.  The fold of the       *)
(* library runs over sets of indices, of which these are the first i.         *)
(***************************************************************************)
LEMMA GreatestIndex == ASSUME NEW n \in Nat, NEW t \in SUBSET (1..n), n \in t PROVE Max(t) = n
<1>1. \A y \in t : n >= y /\ y \in Nat
  OBVIOUS
<1>2. Max(t) \in t /\ \A y \in t : Max(t) >= y
  BY <1>1 DEF Max
<1>3. Max(t) \in Nat /\ n >= Max(t) /\ Max(t) >= n
  BY <1>1, <1>2
<1> QED BY <1>3

StepsIn(step, A, M) == step \in [A \X M -> A]
FoldsTo(g, step, base, s, A) ==
  /\ g \in [SUBSET (1..Len(s)) -> A]
  /\ g = [t \in SUBSET (1..Len(s)) |-> IF t = {} THEN base ELSE step[<<g[t \ {Max(t)}], s[Max(t)]>>]]

LEMMA FoldsExist ==
  ASSUME NEW A, NEW M, NEW step, StepsIn(step, A, M), NEW base \in A, NEW s \in Seq(M)
  PROVE  \E g : FoldsTo(g, step, base, s, A)
<1> DEFINE Solves(g, n) ==
             /\ g \in [SUBSET (1..n) -> A]
             /\ \A t \in SUBSET (1..n) : g[t] = IF t = {} THEN base ELSE step[<<g[t \ {Max(t)}], s[Max(t)]>>]
           N == {n \in Nat : n <= Len(s) => \E g : Solves(g, n)}
<1> HIDE DEF Solves
<1>0. step \in [A \X M -> A]
  BY DEF StepsIn
<1>1. 0 \in N
  <2> DEFINE g == [t \in SUBSET (1..0) |-> base]
  <2>1. Solves(g, 0)
    BY DEF Solves
  <2> HIDE DEF g
  <2> QED BY <2>1
<1>2. ASSUME NEW n \in Nat, n \in N PROVE n + 1 \in N
  <2>1. SUFFICES ASSUME n + 1 <= Len(s) PROVE \E g : Solves(g, n + 1)
    OBVIOUS
  <2>2. Len(s) \in Nat /\ s[n + 1] \in M
    BY <2>1, LenProperties, ElementOfSeq
  <2>3. PICK g : Solves(g, n)
    BY <1>2, <2>1, <2>2
  <2> DEFINE q == [t \in SUBSET (1..(n + 1)) |-> IF n + 1 \in t THEN step[<<g[t \ {n + 1}], s[n + 1]>>] ELSE g[t]]
  <2>4. ASSUME NEW t \in SUBSET (1..(n + 1)), n + 1 \notin t PROVE t \in SUBSET (1..n) /\ q[t] = g[t]
    BY <2>4
  <2>5. ASSUME NEW t \in SUBSET (1..(n + 1)), n + 1 \in t
        PROVE  /\ t \ {n + 1} \in SUBSET (1..n) /\ Max(t) = n + 1
               /\ q[t] = step[<<g[t \ {n + 1}], s[n + 1]>>]
               /\ q[t \ {n + 1}] = g[t \ {n + 1}]
    BY <2>5, GreatestIndex
  <2>6. q \in [SUBSET (1..(n + 1)) -> A]
    <3>1. ASSUME NEW t \in SUBSET (1..(n + 1)) PROVE q[t] \in A
      <4>1. CASE n + 1 \in t
        <5>1. g[t \ {n + 1}] \in A
          BY <2>3, <2>5, <4>1 DEF Solves
        <5>2. <<g[t \ {n + 1}], s[n + 1]>> \in A \X M
          BY <2>2, <5>1
        <5> QED BY <1>0, <2>5, <4>1, <5>2
      <4>2. CASE n + 1 \notin t
        BY <2>3, <2>4, <4>2 DEF Solves
      <4> QED BY <4>1, <4>2
    <3> QED BY <3>1
  <2> HIDE DEF q
  <2>7. ASSUME NEW t \in SUBSET (1..(n + 1))
        PROVE  q[t] = IF t = {} THEN base ELSE step[<<q[t \ {Max(t)}], s[Max(t)]>>]
    <3>1. CASE n + 1 \in t
      BY <2>5, <3>1
    <3>2. CASE n + 1 \notin t
      <4>1. t \in SUBSET (1..n) /\ q[t] = g[t]
        BY <2>4, <3>2
      <4>2. q[t \ {Max(t)}] = g[t \ {Max(t)}]
        BY <2>4, <3>2
      <4> QED BY <2>3, <4>1, <4>2 DEF Solves
    <3> QED BY <3>1, <3>2
  <2> QED BY <2>6, <2>7 DEF Solves
<1> HIDE DEF N
<1>3. \A n \in Nat : n \in N
  BY <1>1, <1>2, SetInduction
<1>4. Len(s) \in Nat
  BY LenProperties
<1>5. PICK g : Solves(g, Len(s))
  BY <1>3, <1>4 DEF N
<1>6. /\ g \in [SUBSET (1..Len(s)) -> A]
      /\ \A t \in SUBSET (1..Len(s)) : g[t] = IF t = {} THEN base ELSE step[<<g[t \ {Max(t)}], s[Max(t)]>>]
  BY <1>5, Zenon DEF Solves
<1>7. g = [t \in SUBSET (1..Len(s)) |-> IF t = {} THEN base ELSE step[<<g[t \ {Max(t)}], s[Max(t)]>>]]
  <2>1. g = [t \in SUBSET (1..Len(s)) |-> g[t]]
    BY <1>6
  <2> QED BY <1>6, <2>1, Zenon
<1>8. FoldsTo(g, step, base, s, A)
  BY <1>6, <1>7, Zenon DEF FoldsTo
<1> QED BY <1>8

-----------------------------------------------------------------------------
(***************************************************************************)
(* The parts of a conversation as FlatMaps: a filter, the contents of         *)
(* messages, the ids of contents, the ids of items.                           *)
(***************************************************************************)
Blocks == [kind : BlockKinds, id : STRING]
Roles == STRING \cup {"user", NoText}
Messages == [role : Roles, content : Seq(Blocks)]
ItemTypes == {"message", "function_call", "function_call_output"}
Items == [type : ItemTypes, role : Roles, ids : Seq(STRING)]

Only(T, K) == [x \in T |-> IF x \in K THEN <<x>> ELSE << >>]
IdOf == [b \in Blocks |-> <<b.id>>]
ContentOf == [m \in Messages |-> m.content]
IdsOf == [m \in Messages |-> FlatMap(IdOf, m.content)]
ItemIdsOf == [t \in Items |-> t.ids]

LEMMA Singleton == ASSUME NEW T, NEW x \in T PROVE <<x>> \in Seq(T) /\ << >> \in Seq(T) /\ <<x>> = Append(<< >>, x)
BY EmptySeq, AppendProperties

LEMMA FlatMapSingle ==
  ASSUME NEW T, NEW U, NEW e, Translates(e, T, U), NEW x \in T
  PROVE  FlatMap(e, <<x>>) = e[x]
<1>1. <<x>> = Append(<< >>, x)
  BY Singleton
<1>2. FlatMap(e, Append(<< >>, x)) = FlatMap(e, << >>) \o e[x]
  <2> DEFINE s == << >>
  <2>1. s \in Seq(T)
    BY Singleton
  <2> HIDE DEF s
  <2>2. FlatMap(e, Append(s, x)) = FlatMap(e, s) \o e[x]
    BY <2>1, FlatMapAppend
  <2> QED BY <2>2 DEF s
<1>3. e[x] \in Seq(U)
  BY TranslatedOne
<1> QED BY <1>1, <1>2, <1>3, FlatMapNone, ConcatEmptySeq

LEMMA OnlyTranslates == ASSUME NEW T, NEW K, NEW U, T \cap K \subseteq U PROVE Translates(Only(T, K), T, U)
<1>1. \A x \in T : (IF x \in K THEN <<x>> ELSE << >>) \in Seq(U)
  BY Singleton, EmptySeq
<1> QED BY <1>1 DEF Only, Translates

LEMMA PartsTranslate ==
  /\ Translates(IdOf, Blocks, STRING) /\ Translates(ContentOf, Messages, Blocks)
  /\ Translates(IdsOf, Messages, STRING) /\ Translates(ItemIdsOf, Items, STRING)
<1>1. Translates(IdOf, Blocks, STRING)
  <2>1. \A b \in Blocks : <<b.id>> \in Seq(STRING)
    BY Singleton DEF Blocks
  <2> QED BY <2>1 DEF IdOf, Translates
<1>2. Translates(ContentOf, Messages, Blocks)
  BY DEF ContentOf, Messages, Translates
<1>3. Translates(IdsOf, Messages, STRING)
  <2>1. \A m \in Messages : FlatMap(IdOf, m.content) \in Seq(STRING)
    BY <1>1, FlatMapType DEF Messages
  <2> QED BY <2>1 DEF IdsOf, Translates
<1>4. Translates(ItemIdsOf, Items, STRING)
  BY DEF ItemIdsOf, Items, Translates
<1> QED BY <1>1, <1>2, <1>3, <1>4

LEMMA IdsAre == ASSUME NEW c \in Seq(Blocks) PROVE Ids(c) = FlatMap(IdOf, c)
<1>1. Translates(IdOf, Blocks, STRING) /\ \A b \in Blocks : IdOf[b] = <<b.id>> /\ b.id \in STRING
  BY PartsTranslate DEF IdOf, Blocks
<1>2. GivesOne(IdOf, Blocks, STRING)
  BY <1>1 DEF GivesOne
<1>3. FlatMap(IdOf, c) = [i \in 1..Len(c) |-> IdOf[c[i]][1]]
  BY <1>1, <1>2, FlatMapOne
<1>4. \A i \in 1..Len(c) : IdOf[c[i]][1] = c[i].id
  BY <1>1, ElementOfSeq
<1> QED BY <1>3, <1>4 DEF Ids

LEMMA ContentsAre == ASSUME NEW ms \in Seq(Messages) PROVE Contents(ms) = FlatMap(ContentOf, ms)
<1>1. \A i \in 1..Len(ms) : ms[i].content = ContentOf[ms[i]]
  BY ElementOfSeq DEF ContentOf
<1>2. [i \in 1..Len(ms) |-> ms[i].content] = [i \in 1..Len(ms) |-> ContentOf[ms[i]]]
  BY <1>1
<1> QED BY <1>2, Zenon DEF Contents, FlatMap

LEMMA ItemIdsAre == ASSUME NEW items \in Seq(Items) PROVE ItemIds(items) = FlatMap(ItemIdsOf, items)
<1>1. \A i \in 1..Len(items) : items[i].ids = ItemIdsOf[items[i]]
  BY ElementOfSeq DEF ItemIdsOf
<1>2. [i \in 1..Len(items) |-> items[i].ids] = [i \in 1..Len(items) |-> ItemIdsOf[items[i]]]
  BY <1>1
<1> QED BY <1>2, Zenon DEF ItemIds, FlatMap

LEMMA IdsOfContents ==
  ASSUME NEW ms \in Seq(Messages)
  PROVE  Contents(ms) \in Seq(Blocks) /\ Ids(Contents(ms)) = FlatMap(IdsOf, ms)
<1>1. Contents(ms) = FlatMap(ContentOf, ms) /\ Contents(ms) \in Seq(Blocks)
  BY ContentsAre, PartsTranslate, FlatMapType
<1>2. Ids(Contents(ms)) = FlatMap(IdOf, FlatMap(ContentOf, ms))
  BY <1>1, IdsAre
<1>3. \A m \in Messages : IdsOf[m] = FlatMap(IdOf, ContentOf[m])
  BY DEF IdsOf, ContentOf
<1>4. FlatMap(IdOf, FlatMap(ContentOf, ms)) = FlatMap(IdsOf, ms)
  BY <1>3, PartsTranslate, FlatMapTwice
<1> QED BY <1>1, <1>2, <1>4

-----------------------------------------------------------------------------
(***************************************************************************)
(* The requests of Anthropic's and the native dialect, message by message.    *)
(***************************************************************************)
SentBlocks == [kind : {"text", "toolUse", "toolResult"}, id : STRING]
SentMessages == [role : Roles, content : Seq(SentBlocks)]
NativeMessages == [role : STRING, text : STRING]
TextOf == [m \in NativeMessages |-> <<m.text>>]

LEMMA MadeOf ==
  ASSUME NEW n \in Nat, NEW U, NEW F, F = [i \in 1..n |-> F[i]], \A i \in 1..n : F[i] \in U
  PROVE  F \in Seq(U) /\ Len(F) = n
<1>1. F \in [1..n -> U]
  OBVIOUS
<1>2. F \in Seq(U)
  BY <1>1, SeqDef
<1> QED BY <1>1, <1>2, LenProperties

LEMMA SentAre ==
  /\ SentBlocks \subseteq Blocks /\ SentMessages \subseteq Messages
  /\ \A c \in Seq(SentBlocks) : c \in Seq(Blocks)
  /\ \A ms \in Seq(SentMessages) : ms \in Seq(Messages)
<1>1. SentBlocks \subseteq Blocks
  BY DEF SentBlocks, Blocks, BlockKinds
<1>2. \A c \in Seq(SentBlocks) : c \in Seq(Blocks)
  BY <1>1, SeqMonotonic
<1>3. SentMessages \subseteq Messages
  BY <1>2 DEF SentMessages, Messages
<1> QED BY <1>1, <1>2, <1>3, SeqMonotonic

LEMMA TextsAre ==
  ASSUME NEW s \in Seq(NativeMessages)
  PROVE  FlatMap(TextOf, s) = [i \in 1..Len(s) |-> TextOf[s[i]][1]]
<1>1. Translates(TextOf, NativeMessages, STRING)
  BY Singleton DEF Translates, NativeMessages, TextOf
<1>2. GivesOne(TextOf, NativeMessages, STRING)
  BY DEF NativeMessages, TextOf, GivesOne
<1> QED BY <1>1, <1>2, FlatMapOne

LEMMA NativeKept ==
  ASSUME NEW messages \in Seq(NativeMessages)
  PROVE  LET sent == ChatToConverse(messages).messages
         IN /\ sent \in Seq(SentMessages)
            /\ FlatMap(IdsOf, sent) = [i \in 1..Len(messages) |-> messages[i].text]
<1> DEFINE sent == ChatToConverse(messages).messages
           n == Len(messages)
<1>1. n \in Nat /\ \A i \in 1..n : messages[i] \in NativeMessages
  BY LenProperties, ElementOfSeq
<1>2. sent = [i \in 1..n |-> Message(messages[i].role, <<Block("text", messages[i].text)>>)]
  BY DEF ChatToConverse
<1>3. ASSUME NEW i \in 1..n
      PROVE  sent[i] = Message(messages[i].role, <<Block("text", messages[i].text)>>)
  BY <1>2
<1> HIDE DEF sent, n
<1>4. ASSUME NEW i \in 1..n
      PROVE  sent[i] \in SentMessages /\ IdsOf[sent[i]] = TextOf[messages[i]]
  <2> DEFINE b == Block("text", messages[i].text)
  <2>1. b \in SentBlocks /\ b.id = messages[i].text
    BY <1>1 DEF Block, SentBlocks, NativeMessages
  <2>2. <<b>> \in Seq(SentBlocks)
    BY <2>1, Singleton
  <2>3. sent[i] = Message(messages[i].role, <<b>>) /\ sent[i].content = <<b>>
    BY <1>3 DEF Message
  <2> HIDE DEF b
  <2>4. sent[i] \in SentMessages
    BY <1>1, <2>2, <2>3 DEF Message, SentMessages, NativeMessages, Roles
  <2>5. b \in Blocks /\ sent[i] \in Messages
    BY <2>1, <2>4, SentAre
  <2>6. IdsOf[sent[i]] = FlatMap(IdOf, <<b>>)
    BY <2>3, <2>5 DEF IdsOf
  <2>7. FlatMap(IdOf, <<b>>) = IdOf[b]
    BY <2>5, PartsTranslate, FlatMapSingle
  <2>8. IdOf[b] = <<messages[i].text>>
    BY <2>1, <2>5 DEF IdOf
  <2>9. TextOf[messages[i]] = <<messages[i].text>>
    BY <1>1 DEF TextOf
  <2> QED BY <2>4, <2>6, <2>7, <2>8, <2>9
<1>5. sent \in Seq(SentMessages) /\ Len(sent) = n
  <2>1. sent = [i \in 1..n |-> sent[i]]
    BY <1>2
  <2> QED BY <1>1, <1>4, <2>1, MadeOf
<1>6. FlatMap(IdsOf, sent) = FlatMap(TextOf, messages)
  <2> QED BY <1>4, <1>5, FlatMapSame DEF n
<1>7. FlatMap(TextOf, messages) = [i \in 1..Len(messages) |-> TextOf[messages[i]][1]]
  BY TextsAre
<1>8. \A i \in 1..n : TextOf[messages[i]][1] = messages[i].text
  BY <1>1 DEF TextOf
<1> QED BY <1>5, <1>6, <1>7, <1>8 DEF sent, n

-----------------------------------------------------------------------------
(***************************************************************************)
(* Anthropic: the blocks the code keeps are the ones the property asks for,   *)
(* and a message with nothing left had nothing to say.                        *)
(***************************************************************************)
SaidBlocks == {b \in Blocks : b.kind \in {"text", "toolUse", "toolResult"} /\ Said(b)}
SaidOf == Only(Blocks, SaidBlocks)
SaidContentOf == [m \in Messages |-> FlatMap(SaidOf, m.content)]
SaidIdsOf == [m \in Messages |-> FlatMap(IdOf, SaidContentOf[m])]
Speaking == {m \in SentMessages : m.content # << >>}

LEMMA SaidTranslate ==
  /\ Translates(SaidOf, Blocks, SentBlocks) /\ Translates(SaidOf, Blocks, Blocks)
  /\ Translates(SaidContentOf, Messages, SentBlocks) /\ Translates(SaidContentOf, Messages, Blocks)
  /\ Translates(SaidIdsOf, Messages, STRING)
  /\ Translates(Only(SentMessages, Speaking), SentMessages, SentMessages)
<1>1. Translates(SaidOf, Blocks, SentBlocks) /\ Translates(SaidOf, Blocks, Blocks)
  <2>1. Blocks \cap SaidBlocks \subseteq SentBlocks
    BY DEF SaidBlocks, Blocks, SentBlocks
  <2>2. Blocks \cap SaidBlocks \subseteq Blocks
    OBVIOUS
  <2> QED BY <2>1, <2>2, OnlyTranslates DEF SaidOf
<1>2. Translates(SaidContentOf, Messages, SentBlocks)
  <2>1. \A m \in Messages : FlatMap(SaidOf, m.content) \in Seq(SentBlocks)
    BY <1>1, FlatMapType DEF Messages
  <2> QED BY <2>1 DEF SaidContentOf, Translates
<1>3. Translates(SaidContentOf, Messages, Blocks)
  <2>1. \A m \in Messages : FlatMap(SaidOf, m.content) \in Seq(Blocks)
    BY <1>1, FlatMapType DEF Messages
  <2> QED BY <2>1 DEF SaidContentOf, Translates
<1>4. Translates(SaidIdsOf, Messages, STRING)
  <2>1. \A m \in Messages : SaidContentOf[m] \in Seq(Blocks)
    BY <1>3, TranslatedOne
  <2>2. \A m \in Messages : FlatMap(IdOf, SaidContentOf[m]) \in Seq(STRING)
    BY <2>1, PartsTranslate, FlatMapType
  <2> QED BY <2>2 DEF SaidIdsOf, Translates
<1>5. Translates(Only(SentMessages, Speaking), SentMessages, SentMessages)
  BY OnlyTranslates
<1> QED BY <1>1, <1>2, <1>3, <1>4, <1>5

LEMMA AnthropicBlocksAre ==
  ASSUME NEW c \in Seq(Blocks)
  PROVE  /\ AnthropicBlocks(c) = FlatMap(SaidOf, c)
         /\ Filter(c, LAMBDA b : b.kind # "image" /\ Said(b)) = FlatMap(SaidOf, c)
<1>1. ASSUME NEW i \in 1..Len(c)
      PROVE  /\ (IF c[i].kind \in {"text", "toolUse", "toolResult"} /\ Said(c[i]) THEN <<c[i]>> ELSE << >>) = SaidOf[c[i]]
             /\ (IF c[i].kind # "image" /\ Said(c[i]) THEN <<c[i]>> ELSE << >>) = SaidOf[c[i]]
  <2>1. c[i] \in Blocks
    BY ElementOfSeq
  <2>2. c[i].kind \in {"text", "toolUse", "toolResult"} <=> c[i].kind # "image"
    BY <2>1 DEF Blocks, BlockKinds
  <2>3. c[i] \in SaidBlocks <=> c[i].kind \in {"text", "toolUse", "toolResult"} /\ Said(c[i])
    BY <2>1 DEF SaidBlocks
  <2>4. SaidOf[c[i]] = IF c[i] \in SaidBlocks THEN <<c[i]>> ELSE << >>
    BY <2>1 DEF SaidOf, Only
  <2> QED BY <2>2, <2>3, <2>4
<1>2. [i \in 1..Len(c) |-> IF c[i].kind \in {"text", "toolUse", "toolResult"} /\ Said(c[i]) THEN <<c[i]>> ELSE << >>]
        = [i \in 1..Len(c) |-> SaidOf[c[i]]]
  BY <1>1
<1>3. [i \in 1..Len(c) |-> IF c[i].kind # "image" /\ Said(c[i]) THEN <<c[i]>> ELSE << >>]
        = [i \in 1..Len(c) |-> SaidOf[c[i]]]
  BY <1>1
<1> QED BY <1>2, <1>3, Zenon DEF FlatMap, AnthropicBlocks, Filter

LEMMA AnthropicAsked ==
  ASSUME NEW messages \in Seq(Messages)
  PROVE  Ids(Filter(Contents(messages), LAMBDA b : b.kind # "image" /\ Said(b))) = FlatMap(SaidIdsOf, messages)
<1> DEFINE c == Contents(messages)
<1>1. c \in Seq(Blocks) /\ c = FlatMap(ContentOf, messages)
  BY IdsOfContents, ContentsAre
<1>2. \A m \in Messages : SaidContentOf[m] = FlatMap(SaidOf, ContentOf[m])
  BY DEF SaidContentOf, ContentOf
<1>3. FlatMap(SaidOf, FlatMap(ContentOf, messages)) = FlatMap(SaidContentOf, messages)
  BY <1>2, PartsTranslate, SaidTranslate, FlatMapTwice
<1>4. \A m \in Messages : SaidIdsOf[m] = FlatMap(IdOf, SaidContentOf[m])
  BY DEF SaidIdsOf
<1>5. FlatMap(IdOf, FlatMap(SaidContentOf, messages)) = FlatMap(SaidIdsOf, messages)
  BY <1>4, PartsTranslate, SaidTranslate, FlatMapTwice
<1>6. FlatMap(SaidContentOf, messages) \in Seq(Blocks)
  BY SaidTranslate, FlatMapType
<1> HIDE DEF c
<1>7. Filter(c, LAMBDA b : b.kind # "image" /\ Said(b)) = FlatMap(SaidOf, c)
  BY <1>1, AnthropicBlocksAre
<1>8. Filter(c, LAMBDA b : b.kind # "image" /\ Said(b)) = FlatMap(SaidContentOf, messages)
  BY <1>1, <1>3, <1>7
<1>9. Ids(FlatMap(SaidContentOf, messages)) = FlatMap(IdOf, FlatMap(SaidContentOf, messages))
  BY <1>6, IdsAre
<1>10. Ids(Filter(c, LAMBDA b : b.kind # "image" /\ Said(b))) = FlatMap(SaidIdsOf, messages)
  BY <1>5, <1>8, <1>9
<1> QED BY <1>10 DEF c

\* Messages with nothing left give no ids.
LEMMA SpeakingSpeak ==
  ASSUME NEW ms \in Seq(SentMessages)
  PROVE  LET kept == Filter(ms, LAMBDA m : m.content # << >>)
         IN kept \in Seq(SentMessages) /\ FlatMap(IdsOf, kept) = FlatMap(IdsOf, ms)
<1> DEFINE kept == Filter(ms, LAMBDA m : m.content # << >>)
           only == Only(SentMessages, Speaking)
           ids == [m \in SentMessages |-> IdsOf[m]]
<1>1. \A m \in SentMessages : m \in Messages /\ only[m] = IF m.content # << >> THEN <<m>> ELSE << >>
  BY SentAre DEF Only, Speaking
<1>2. \A i \in 1..Len(ms) : (IF ms[i].content # << >> THEN <<ms[i]>> ELSE << >>) = only[ms[i]]
  BY <1>1, ElementOfSeq
<1>3. Translates(only, SentMessages, SentMessages)
  BY SaidTranslate
<1> HIDE DEF only
<1>4. [i \in 1..Len(ms) |-> IF ms[i].content # << >> THEN <<ms[i]>> ELSE << >>] = [i \in 1..Len(ms) |-> only[ms[i]]]
  BY <1>2
<1>5. kept = FlatMap(only, ms)
  BY <1>4, Zenon DEF FlatMap, Filter
<1>6. kept \in Seq(SentMessages)
  BY <1>3, <1>5, FlatMapType
<1>7. Translates(ids, SentMessages, STRING)
  <2>1. \A m \in SentMessages : IdsOf[m] \in Seq(STRING)
    BY <1>1, PartsTranslate, TranslatedOne
  <2> QED BY <2>1 DEF Translates
<1>8. \A m \in SentMessages : ids[m] = IdsOf[m]
  OBVIOUS
<1> HIDE DEF ids, kept
<1>9. ASSUME NEW m \in SentMessages PROVE ids[m] = FlatMap(ids, only[m])
  <2>1. CASE m.content # << >>
    <3>1. FlatMap(ids, <<m>>) = ids[m]
      BY <1>7, FlatMapSingle
    <3> QED BY <1>1, <2>1, <3>1
  <2>2. CASE m.content = << >>
    <3>1. ids[m] = FlatMap(IdOf, m.content)
      BY <1>1, <1>8 DEF IdsOf
    <3> QED BY <1>1, <2>2, <3>1, FlatMapNone
  <2> QED BY <2>1, <2>2
<1>10. FlatMap(ids, FlatMap(only, ms)) = FlatMap(ids, ms)
  BY <1>3, <1>7, <1>9, FlatMapTwice
<1>11. \A s \in Seq(SentMessages) : FlatMap(ids, s) = FlatMap(IdsOf, s)
  <2>1. SUFFICES ASSUME NEW s \in Seq(SentMessages) PROVE FlatMap(ids, s) = FlatMap(IdsOf, s)
    OBVIOUS
  <2>2. \A i \in 1..Len(s) : ids[s[i]] = IdsOf[s[i]]
    BY <1>8, ElementOfSeq
  <2> QED BY <2>2, FlatMapSame
<1> QED BY <1>5, <1>6, <1>10, <1>11 DEF kept

LEMMA AnthropicMessageKept ==
  ASSUME NEW m \in Messages
  PROVE  LET t == Message(ProviderRole(m.role), AnthropicBlocks(m.content))
         IN t \in SentMessages /\ IdsOf[t] = SaidIdsOf[m]
<1> DEFINE role == ProviderRole(m.role)
           content == AnthropicBlocks(m.content)
           t == Message(role, content)
<1>1. m.content \in Seq(Blocks) /\ m.role \in Roles
  BY DEF Messages
<1>2. content = SaidContentOf[m]
  BY <1>1, AnthropicBlocksAre DEF SaidContentOf
<1>3. content \in Seq(SentBlocks)
  BY <1>2, SaidTranslate, TranslatedOne
<1>4. role \in Roles
  BY <1>1 DEF ProviderRole, Roles
<1> HIDE DEF role, content
<1>5. t \in SentMessages /\ t.content = content
  BY <1>3, <1>4 DEF Message, SentMessages
<1> HIDE DEF t
<1>6. t \in Messages
  BY <1>5, SentAre
<1>7. IdsOf[t] = SaidIdsOf[m]
  BY <1>2, <1>5, <1>6 DEF IdsOf, SaidIdsOf
<1> QED BY <1>5, <1>7 DEF t, role, content

LEMMA AnthropicKept ==
  ASSUME NEW messages \in Seq(Messages), NEW system
  PROVE  LET sent == AnthropicToConverse(messages, system).messages
         IN sent \in Seq(SentMessages) /\ FlatMap(IdsOf, sent) = FlatMap(SaidIdsOf, messages)
<1> DEFINE ms == [i \in 1..Len(messages) |-> Message(ProviderRole(messages[i].role), AnthropicBlocks(messages[i].content))]
           sent == AnthropicToConverse(messages, system).messages
           n == Len(messages)
<1>1. sent = Filter(ms, LAMBDA m : m.content # << >>)
  BY DEF AnthropicToConverse
<1>2. n \in Nat
  BY LenProperties
<1>3. ASSUME NEW i \in 1..n PROVE ms[i] \in SentMessages /\ IdsOf[ms[i]] = SaidIdsOf[messages[i]]
  <2>1. messages[i] \in Messages
    BY ElementOfSeq
  <2> QED BY <2>1, AnthropicMessageKept
<1>4. ms = [i \in 1..n |-> ms[i]]
  OBVIOUS
<1> HIDE DEF ms, n, sent
<1>5. ms \in Seq(SentMessages) /\ Len(ms) = n
  BY <1>2, <1>3, <1>4, MadeOf
<1>6. FlatMap(IdsOf, ms) = FlatMap(SaidIdsOf, messages)
  BY <1>3, <1>5, FlatMapSame DEF n
<1>7. sent \in Seq(SentMessages) /\ FlatMap(IdsOf, sent) = FlatMap(IdsOf, ms)
  BY <1>1, <1>5, SpeakingSpeak
<1> QED BY <1>6, <1>7 DEF sent

-----------------------------------------------------------------------------
(***************************************************************************)
(* OpenAI: the fold over the messages as a chain of accumulators.             *)
(***************************************************************************)
OpenAIMessages == [role : STRING, text : STRING, calls : Seq(STRING), id : STRING]
Accs == [messages : Seq(SentMessages), results : Seq(SentBlocks), system : Seq(STRING)]

LEMMA GreatestIsIn == ASSUME NEW n \in Nat, NEW t \in SUBSET (1..n), t # {} PROVE Max(t) \in t
<1> DEFINE N == {k \in Nat : \A u \in SUBSET (1..k) : u # {} => \E x \in u : \A y \in u : x >= y}
<1>1. 0 \in N
  <2>1. \A u \in SUBSET (1..0) : u = {}
    OBVIOUS
  <2> QED BY <2>1
<1>2. ASSUME NEW k \in Nat, k \in N PROVE k + 1 \in N
  <2>1. SUFFICES ASSUME NEW u \in SUBSET (1..(k + 1)), u # {} PROVE \E x \in u : \A y \in u : x >= y
    OBVIOUS
  <2>2. CASE k + 1 \in u
    BY <2>2
  <2>3. CASE k + 1 \notin u
    <3>1. u \in SUBSET (1..k)
      BY <2>3
    <3> QED BY <1>2, <2>1, <3>1
  <2> QED BY <2>2, <2>3
<1> HIDE DEF N
<1>3. \A k \in Nat : k \in N
  BY <1>1, <1>2, SetInduction
<1>4. \E x \in t : \A y \in t : x >= y
  BY <1>3 DEF N
<1> QED BY <1>4, Zenon DEF Max

LEMMA Indices ==
  ASSUME NEW n \in Nat, NEW i \in 1..n
  PROVE  /\ 1..i \in SUBSET (1..n) /\ 1..i # {} /\ Max(1..i) = i /\ (1..i) \ {i} = 1..(i - 1)
         /\ 1..(i - 1) \in SUBSET (1..n) /\ i - 1 \in 0..n
<1>1. 1..i \in SUBSET (1..n) /\ 1..i # {} /\ (1..i) \ {i} = 1..(i - 1) /\ 1..(i - 1) \in SUBSET (1..n) /\ i - 1 \in 0..n
  <2>1. 1..i \in SUBSET (1..n) /\ i \in 1..i
    OBVIOUS
  <2>2. (1..i) \ {i} = 1..(i - 1)
    OBVIOUS
  <2>3. 1..(i - 1) \in SUBSET (1..n) /\ i - 1 \in 0..n
    OBVIOUS
  <2> QED BY <2>1, <2>2, <2>3
<1>2. Max(1..i) = i
  <2> DEFINE t == 1..i
  <2>1. i \in Nat /\ t \in SUBSET (1..i) /\ i \in t
    OBVIOUS
  <2> HIDE DEF t
  <2>2. Max(t) = i
    BY <2>1, GreatestIndex
  <2> QED BY <2>2 DEF t
<1> QED BY <1>1, <1>2

\* A sequence is what its elements give, one each.
Once(T) == [x \in T |-> <<x>>]

LEMMA FlatMapOnce == ASSUME NEW T, NEW s \in Seq(T) PROVE Translates(Once(T), T, T) /\ FlatMap(Once(T), s) = s
<1>1. \A x \in T : <<x>> \in Seq(T)
  BY Singleton
<1>2. Translates(Once(T), T, T) /\ GivesOne(Once(T), T, T)
  BY <1>1 DEF Translates, Once, GivesOne
<1>3. FlatMap(Once(T), s) = [i \in 1..Len(s) |-> Once(T)[s[i]][1]]
  BY <1>2, FlatMapOne
<1>4. \A i \in 1..Len(s) : Once(T)[s[i]][1] = s[i]
  BY ElementOfSeq DEF Once
<1>5. s = [i \in 1..Len(s) |-> s[i]]
  BY LenProperties
<1> QED BY <1>2, <1>3, <1>4, <1>5

\* The blocks that are said of a sequence of blocks, and their ids.
SaidSent == Only(SentBlocks, {b \in SentBlocks : Said(b)})
SaidSentIdOf == [b \in SentBlocks |-> FlatMap(IdOf, SaidSent[b])]

LEMMA SaidSentAre ==
  /\ Translates(SaidSent, SentBlocks, SentBlocks) /\ Translates(SaidSent, SentBlocks, Blocks)
  /\ Translates(SaidSentIdOf, SentBlocks, STRING)
  /\ \A b \in SentBlocks : SaidSentIdOf[b] = IF Said(b) THEN <<b.id>> ELSE << >>
<1> DEFINE K == {b \in SentBlocks : Said(b)}
<1>1. SentBlocks \cap K \subseteq SentBlocks /\ SentBlocks \cap K \subseteq Blocks
  BY SentAre
<1>2. Translates(SaidSent, SentBlocks, SentBlocks) /\ Translates(SaidSent, SentBlocks, Blocks)
  BY <1>1, OnlyTranslates DEF SaidSent
<1>3. \A b \in SentBlocks : SaidSent[b] = IF Said(b) THEN <<b>> ELSE << >>
  BY DEF SaidSent, Only
<1>4. ASSUME NEW b \in SentBlocks PROVE SaidSentIdOf[b] = IF Said(b) THEN <<b.id>> ELSE << >>
  <2>1. b \in Blocks /\ IdOf[b] = <<b.id>>
    BY SentAre DEF IdOf
  <2>2. FlatMap(IdOf, <<b>>) = <<b.id>>
    BY <2>1, PartsTranslate, FlatMapSingle
  <2>3. SaidSentIdOf[b] = FlatMap(IdOf, SaidSent[b])
    BY DEF SaidSentIdOf
  <2> QED BY <1>3, <2>2, <2>3, FlatMapNone
<1>5. Translates(SaidSentIdOf, SentBlocks, STRING)
  <2>1. \A b \in SentBlocks : FlatMap(IdOf, SaidSent[b]) \in Seq(STRING)
    <3>1. \A b \in SentBlocks : SaidSent[b] \in Seq(Blocks)
      BY <1>2, TranslatedOne
    <3> QED BY <3>1, PartsTranslate, FlatMapType
  <2> QED BY <2>1 DEF SaidSentIdOf, Translates
<1> QED BY <1>2, <1>4, <1>5

LEMMA SaidSentKept ==
  ASSUME NEW s \in Seq(SentBlocks)
  PROVE  /\ Filter(s, Said) \in Seq(SentBlocks)
         /\ FlatMap(IdOf, Filter(s, Said)) = FlatMap(SaidSentIdOf, s)
<1>1. \A i \in 1..Len(s) : (IF Said(s[i]) THEN <<s[i]>> ELSE << >>) = SaidSent[s[i]]
  BY ElementOfSeq DEF SaidSent, Only
<1>2. [i \in 1..Len(s) |-> IF Said(s[i]) THEN <<s[i]>> ELSE << >>] = [i \in 1..Len(s) |-> SaidSent[s[i]]]
  BY <1>1
<1>3. Filter(s, Said) = FlatMap(SaidSent, s)
  BY <1>2, Zenon DEF FlatMap, Filter
<1>4. \A b \in SentBlocks : SaidSentIdOf[b] = FlatMap(IdOf, SaidSent[b])
  BY DEF SaidSentIdOf
<1>5. FlatMap(IdOf, FlatMap(SaidSent, s)) = FlatMap(SaidSentIdOf, s)
  BY <1>4, SaidSentAre, PartsTranslate, FlatMapTwice
<1>6. FlatMap(SaidSent, s) \in Seq(SentBlocks)
  BY SaidSentAre, FlatMapType
<1> QED BY <1>3, <1>5, <1>6

LEMMA OpenAIBlocksType ==
  ASSUME NEW m \in OpenAIMessages
  PROVE  OpenAIBlocks(m) \in Seq(SentBlocks) /\ FlatMap(IdOf, OpenAIBlocks(m)) = (IF m.text = NoText THEN << >> ELSE <<m.text>>) \o m.calls
<1> DEFINE calls == [i \in 1..Len(m.calls) |-> Block("toolUse", m.calls[i])]
           text == Block("text", m.text)
           one == <<text>>
           n == Len(m.calls)
<1>1. m.text \in STRING /\ m.calls \in Seq(STRING)
  BY DEF OpenAIMessages
<1>2. n \in Nat /\ \A i \in 1..n : m.calls[i] \in STRING
  BY <1>1, LenProperties, ElementOfSeq
<1>3. text \in SentBlocks /\ \A i \in 1..n : calls[i] \in SentBlocks
  BY <1>1, <1>2 DEF Block, SentBlocks
<1>4. calls = [i \in 1..n |-> calls[i]]
  OBVIOUS
<1>5. \A i \in 1..n : Said(calls[i]) /\ calls[i].id = m.calls[i]
  <2>1. \A i \in 1..n : calls[i].kind = "toolUse" /\ calls[i].id = m.calls[i]
    BY DEF Block
  <2> HIDE DEF calls
  <2> QED BY <2>1 DEF Said
<1>6. text.kind = "text" /\ text.id = m.text
  BY DEF Block
<1>7. Said(text) <=> m.text # NoText
  <2> HIDE DEF text
  <2> QED BY <1>6 DEF Said
<1> HIDE DEF calls, text, n
<1>8. calls \in Seq(SentBlocks) /\ Len(calls) = n
  BY <1>2, <1>3, <1>4, MadeOf
<1>9. one \in Seq(SentBlocks)
  BY <1>3, Singleton
<1>10. OpenAIBlocks(m) = Filter(one \o calls, Said)
  BY DEF OpenAIBlocks, calls, text
<1>11. FlatMap(SaidSentIdOf, one) = IF m.text = NoText THEN << >> ELSE <<m.text>>
  <2>1. FlatMap(SaidSentIdOf, <<text>>) = SaidSentIdOf[text]
    BY <1>3, SaidSentAre, FlatMapSingle
  <2> QED BY <1>3, <1>6, <1>7, <2>1, SaidSentAre
<1> HIDE DEF one
<1>12. one \o calls \in Seq(SentBlocks)
  BY <1>8, <1>9, ConcatProperties
<1>13. FlatMap(SaidSentIdOf, calls) = m.calls
  <2>1. \A i \in 1..n : SaidSentIdOf[calls[i]] = Once(STRING)[m.calls[i]]
    <3>1. \A i \in 1..n : SaidSentIdOf[calls[i]] = <<calls[i].id>> /\ calls[i].id = m.calls[i]
      BY <1>3, <1>5, SaidSentAre
    <3> QED BY <1>2, <3>1 DEF Once
  <2>2. FlatMap(SaidSentIdOf, calls) = FlatMap(Once(STRING), m.calls)
    BY <1>8, <2>1, FlatMapSame DEF n
  <2> QED BY <1>1, <2>2, FlatMapOnce
<1>14. FlatMap(SaidSentIdOf, one \o calls) = FlatMap(SaidSentIdOf, one) \o FlatMap(SaidSentIdOf, calls)
  BY <1>8, <1>9, SaidSentAre, FlatMapConcat
<1> DEFINE all == one \o calls
<1>15. all \in Seq(SentBlocks) /\ OpenAIBlocks(m) = Filter(all, Said) /\ FlatMap(SaidSentIdOf, all) = FlatMap(SaidSentIdOf, one) \o FlatMap(SaidSentIdOf, calls)
  BY <1>10, <1>12, <1>14, Zenon
<1> HIDE DEF all
<1>16. Filter(all, Said) \in Seq(SentBlocks) /\ FlatMap(IdOf, Filter(all, Said)) = FlatMap(SaidSentIdOf, all)
  BY <1>15, SaidSentKept
<1> QED BY <1>11, <1>13, <1>15, <1>16

AskedOf ==
  [m \in OpenAIMessages |->
     CASE m.role = "tool" -> <<m.id>>
       [] m.role \in {"system", "developer"} -> << >>
       [] OTHER -> (IF m.text = NoText THEN << >> ELSE <<m.text>>) \o m.calls]
AccIds(acc) == FlatMap(IdsOf, acc.messages) \o FlatMap(IdOf, acc.results)
Acc(messages, results, system) == [messages |-> messages, results |-> results, system |-> system]

LEMMA AskedTranslates == Translates(AskedOf, OpenAIMessages, STRING)
<1>1. ASSUME NEW m \in OpenAIMessages PROVE AskedOf[m] \in Seq(STRING)
  <2> DEFINE text == IF m.text = NoText THEN << >> ELSE <<m.text>>
  <2>1. m.id \in STRING /\ m.text \in STRING /\ m.calls \in Seq(STRING)
    BY DEF OpenAIMessages
  <2>2. text \in Seq(STRING) /\ <<m.id>> \in Seq(STRING) /\ << >> \in Seq(STRING)
    BY <2>1, Singleton
  <2> HIDE DEF text
  <2>3. text \o m.calls \in Seq(STRING)
    BY <2>1, <2>2, ConcatProperties
  <2>4. AskedOf[m] = CASE m.role = "tool" -> <<m.id>>
                       [] m.role \in {"system", "developer"} -> << >>
                       [] OTHER -> text \o m.calls
    BY DEF AskedOf, text
  <2> QED BY <2>2, <2>3, <2>4
<1> QED BY <1>1 DEF AskedOf, Translates

LEMMA AccsAre ==
  /\ \A acc \in Accs : /\ acc.messages \in Seq(SentMessages) /\ acc.results \in Seq(SentBlocks)
                       /\ acc = Acc(acc.messages, acc.results, acc.system)
                       /\ FlatMap(IdsOf, acc.messages) \in Seq(STRING) /\ FlatMap(IdOf, acc.results) \in Seq(STRING)
  /\ \A messages \in Seq(SentMessages), results \in Seq(SentBlocks), system \in Seq(STRING) :
       /\ Acc(messages, results, system) \in Accs
       /\ AccIds(Acc(messages, results, system)) = FlatMap(IdsOf, messages) \o FlatMap(IdOf, results)
<1>1. \A ms \in Seq(SentMessages) : FlatMap(IdsOf, ms) \in Seq(STRING)
  BY SentAre, PartsTranslate, FlatMapType
<1>2. \A bs \in Seq(SentBlocks) : FlatMap(IdOf, bs) \in Seq(STRING)
  BY SentAre, PartsTranslate, FlatMapType
<1>3. \A acc \in Accs : /\ acc.messages \in Seq(SentMessages) /\ acc.results \in Seq(SentBlocks)
                        /\ acc = Acc(acc.messages, acc.results, acc.system)
  BY DEF Acc, Accs
<1>4. \A messages \in Seq(SentMessages), results \in Seq(SentBlocks), system \in Seq(STRING) :
       /\ Acc(messages, results, system) \in Accs
       /\ AccIds(Acc(messages, results, system)) = FlatMap(IdsOf, messages) \o FlatMap(IdOf, results)
  BY DEF Acc, Accs, AccIds
<1> QED BY <1>1, <1>2, <1>3, <1>4

LEMMA SentOne ==
  ASSUME NEW role \in Roles, NEW content \in Seq(SentBlocks)
  PROVE  LET m == Message(role, content)
         IN m \in SentMessages /\ m.content = content /\ IdsOf[m] = FlatMap(IdOf, content)
<1> DEFINE m == Message(role, content)
<1>1. m \in SentMessages /\ m.content = content
  BY DEF Message, SentMessages
<1> HIDE DEF m
<1>2. m \in Messages
  BY <1>1, SentAre
<1>3. IdsOf[m] = FlatMap(IdOf, content)
  BY <1>1, <1>2 DEF IdsOf
<1> QED BY <1>1, <1>3 DEF m

LEMMA SentMore ==
  ASSUME NEW ms \in Seq(SentMessages), NEW role \in Roles, NEW content \in Seq(SentBlocks)
  PROVE  /\ Append(ms, Message(role, content)) \in Seq(SentMessages)
         /\ FlatMap(IdsOf, Append(ms, Message(role, content))) = FlatMap(IdsOf, ms) \o FlatMap(IdOf, content)
<1> DEFINE m == Message(role, content)
<1>1. m \in SentMessages /\ IdsOf[m] = FlatMap(IdOf, content)
  BY SentOne
<1> HIDE DEF m
<1>2. ms \in Seq(Messages) /\ m \in Messages
  BY <1>1, SentAre
<1>3. FlatMap(IdsOf, Append(ms, m)) = FlatMap(IdsOf, ms) \o IdsOf[m]
  BY <1>2, PartsTranslate, FlatMapAppend
<1>4. Append(ms, m) \in Seq(SentMessages)
  BY <1>1, AppendProperties
<1> QED BY <1>1, <1>3, <1>4 DEF m

LEMMA Flushes ==
  ASSUME NEW acc \in Accs
  PROVE  LET f == FlushToolResults(acc)
         IN /\ f.messages = (IF acc.results = << >> THEN acc.messages ELSE Append(acc.messages, Message("user", acc.results)))
            /\ f \in Accs /\ f = Acc(f.messages, << >>, acc.system)
            /\ FlatMap(IdsOf, f.messages) = AccIds(acc)
<1> DEFINE f == FlushToolResults(acc)
           more == Append(acc.messages, Message("user", acc.results))
<1>1. /\ acc.messages \in Seq(SentMessages) /\ acc.results \in Seq(SentBlocks) /\ acc.system \in Seq(STRING)
      /\ FlatMap(IdsOf, acc.messages) \in Seq(STRING)
      /\ acc = [messages |-> acc.messages, results |-> acc.results, system |-> acc.system]
  BY AccsAre DEF Accs
<1>2. CASE acc.results = << >>
  <2>1. f = acc
    BY <1>2 DEF FlushToolResults
  <2>2. AccIds(acc) = FlatMap(IdsOf, acc.messages)
    BY <1>1, <1>2, FlatMapNone, ConcatEmptySeq DEF AccIds
  <2> HIDE DEF f
  <2> QED BY <1>1, <1>2, <2>1, <2>2 DEF f, Acc
<1>3. CASE acc.results # << >>
  <2>1. f = [acc EXCEPT !.messages = more, !.results = << >>]
    BY <1>3 DEF FlushToolResults
  <2>2. "user" \in Roles
    BY DEF Roles
  <2>3. more \in Seq(SentMessages) /\ FlatMap(IdsOf, more) = AccIds(acc)
    BY <1>1, <2>2, SentMore DEF AccIds
  <2> HIDE DEF more, f
  <2>4. f = [messages |-> more, results |-> << >>, system |-> acc.system]
    BY <1>1, <2>1
  <2>5. << >> \in Seq(SentBlocks)
    BY EmptySeq
  <2>6. f \in Accs /\ f.messages = more
    BY <1>1, <2>3, <2>4, <2>5 DEF Accs
  <2> QED BY <1>3, <2>3, <2>4, <2>6 DEF f, more, Acc
<1> QED BY <1>2, <1>3

LEMMA StepSystem ==
  ASSUME NEW acc \in Accs, NEW m \in OpenAIMessages, m.role \in {"system", "developer"}
  PROVE  LET next == OpenAIStep(acc, m)
         IN /\ next \in Accs /\ next.messages = acc.messages /\ next.results = acc.results
            /\ AccIds(next) = AccIds(acc) \o AskedOf[m]
<1> DEFINE next == OpenAIStep(acc, m)
<1>1. next = IF m.text = NoText THEN acc ELSE [acc EXCEPT !.system = Append(@, m.text)]
  BY DEF OpenAIStep
<1>2. m.text \in STRING /\ acc.system \in Seq(STRING)
  BY DEF OpenAIMessages, Accs
<1>3. Append(acc.system, m.text) \in Seq(STRING)
  BY <1>2, AppendProperties
<1> HIDE DEF next
<1>4. next \in Accs /\ next.messages = acc.messages /\ next.results = acc.results
  BY <1>1, <1>3 DEF Accs
<1>5. AskedOf[m] = << >>
  BY m.role # "tool" DEF AskedOf
<1>6. AccIds(next) = AccIds(acc) /\ AccIds(acc) \in Seq(STRING)
  <2>1. FlatMap(IdsOf, acc.messages) \in Seq(STRING) /\ FlatMap(IdOf, acc.results) \in Seq(STRING)
    BY AccsAre
  <2> QED BY <1>4, <2>1, ConcatProperties DEF AccIds
<1>7. AccIds(next) = AccIds(acc) \o AskedOf[m]
  BY <1>5, <1>6, ConcatEmptySeq
<1> QED BY <1>4, <1>7 DEF next

LEMMA StepTool ==
  ASSUME NEW acc \in Accs, NEW m \in OpenAIMessages, m.role = "tool"
  PROVE  LET next == OpenAIStep(acc, m)
         IN /\ next \in Accs /\ next.messages = acc.messages
            /\ next.results = Append(acc.results, Block("toolResult", m.id))
            /\ AccIds(next) = AccIds(acc) \o AskedOf[m]
<1> DEFINE next == OpenAIStep(acc, m)
           b == Block("toolResult", m.id)
           more == Append(acc.results, b)
<1>1. next = [acc EXCEPT !.results = more]
  BY DEF OpenAIStep
<1>2. b \in SentBlocks /\ b.id = m.id /\ m.id \in STRING
  BY DEF Block, SentBlocks, OpenAIMessages
<1> HIDE DEF b
<1>3. b \in Blocks /\ IdOf[b] = <<m.id>> /\ acc.results \in Seq(SentBlocks) /\ acc.results \in Seq(Blocks)
  <2>1. b \in Blocks /\ acc.results \in Seq(SentBlocks) /\ acc.results \in Seq(Blocks)
    BY <1>2, SentAre DEF Accs
  <2> QED BY <1>2, <2>1 DEF IdOf
<1>4. more \in Seq(SentBlocks) /\ FlatMap(IdOf, more) = FlatMap(IdOf, acc.results) \o <<m.id>>
  <2>1. FlatMap(IdOf, more) = FlatMap(IdOf, acc.results) \o IdOf[b]
    <3> DEFINE r == acc.results
    <3>1. r \in Seq(Blocks) /\ b \in Blocks /\ Translates(IdOf, Blocks, STRING)
      BY <1>3, PartsTranslate
    <3> HIDE DEF r
    <3>2. FlatMap(IdOf, Append(r, b)) = FlatMap(IdOf, r) \o IdOf[b]
      BY <3>1, FlatMapAppend
    <3> QED BY <3>2 DEF r
  <2> QED BY <1>2, <1>3, <2>1, AppendProperties
<1> HIDE DEF next, more
<1>5. next \in Accs /\ next.messages = acc.messages /\ next.results = more
  BY <1>1, <1>4 DEF Accs
<1>6. AskedOf[m] = <<m.id>>
  BY DEF AskedOf
<1>7. AccIds(next) = AccIds(acc) \o <<m.id>>
  <2> DEFINE u == FlatMap(IdsOf, acc.messages)
             v == FlatMap(IdOf, acc.results)
             w == <<m.id>>
  <2>1. u \in Seq(STRING) /\ v \in Seq(STRING) /\ w \in Seq(STRING)
    BY <1>2, AccsAre, Singleton
  <2>2. AccIds(next) = u \o (v \o w) /\ AccIds(acc) = u \o v
    BY <1>4, <1>5 DEF AccIds
  <2> HIDE DEF u, v, w
  <2>3. u \o (v \o w) = (u \o v) \o w
    BY <2>1, ConcatAssociative
  <2> QED BY <2>2, <2>3 DEF w
<1> QED BY <1>5, <1>6, <1>7 DEF next, more, b

LEMMA StepOther ==
  ASSUME NEW acc \in Accs, NEW m \in OpenAIMessages, m.role \notin {"system", "developer", "tool"}
  PROVE  LET next == OpenAIStep(acc, m)
             flushed == FlushToolResults(acc)
         IN /\ next \in Accs /\ next.results = << >>
            /\ next.messages = IF OpenAIBlocks(m) = << >> THEN flushed.messages
                               ELSE Append(flushed.messages, Message(ProviderRole(m.role), OpenAIBlocks(m)))
            /\ AccIds(next) = AccIds(acc) \o AskedOf[m]
<1> DEFINE next == OpenAIStep(acc, m)
           f == FlushToolResults(acc)
           blocks == OpenAIBlocks(m)
           role == ProviderRole(m.role)
           more == Append(f.messages, Message(role, blocks))
<1>1. next = IF blocks = << >> THEN f ELSE [f EXCEPT !.messages = more]
  BY DEF OpenAIStep
<1>2. AskedOf[m] = (IF m.text = NoText THEN << >> ELSE <<m.text>>) \o m.calls
  BY DEF AskedOf
<1>3. blocks \in Seq(SentBlocks) /\ FlatMap(IdOf, blocks) = AskedOf[m]
  BY <1>2, OpenAIBlocksType
<1>4. role \in Roles
  BY DEF ProviderRole, Roles, OpenAIMessages
<1>5. f \in Accs /\ f = Acc(f.messages, << >>, acc.system) /\ FlatMap(IdsOf, f.messages) = AccIds(acc)
  BY Flushes
<1> HIDE DEF next, f, blocks, role
<1>6. f.messages \in Seq(SentMessages) /\ f.system \in Seq(STRING) /\ f.results = << >> /\ AccIds(acc) \in Seq(STRING) /\ AskedOf[m] \in Seq(STRING)
  <2>1. f.messages \in Seq(SentMessages) /\ f.system \in Seq(STRING) /\ FlatMap(IdsOf, f.messages) \in Seq(STRING)
    BY <1>5, AccsAre DEF Accs
  <2>2. f.results = << >>
    BY <1>5 DEF Acc
  <2> QED BY <1>5, <2>1, <2>2, AskedTranslates, TranslatedOne
<1>7. CASE blocks = << >>
  <2>1. AskedOf[m] = << >>
    BY <1>3, <1>7, FlatMapNone
  <2>2. AccIds(next) = AccIds(acc)
    BY <1>1, <1>5, <1>6, <1>7, FlatMapNone, ConcatEmptySeq DEF AccIds
  <2>3. AccIds(next) = AccIds(acc) \o AskedOf[m]
    BY <1>6, <2>1, <2>2, ConcatEmptySeq
  <2> QED BY <1>1, <1>5, <1>6, <1>7, <2>3 DEF next, f, blocks
<1>8. CASE blocks # << >>
  <2>1. more \in Seq(SentMessages) /\ FlatMap(IdsOf, more) = AccIds(acc) \o AskedOf[m]
    BY <1>3, <1>4, <1>5, <1>6, SentMore
  <2> HIDE DEF more
  <2>2. next \in Accs /\ next.results = << >> /\ next.messages = more
    BY <1>1, <1>5, <1>6, <1>8, <2>1 DEF Accs
  <2>3. AccIds(acc) \o AskedOf[m] \in Seq(STRING)
    BY <1>6, ConcatProperties
  <2>4. AccIds(next) = AccIds(acc) \o AskedOf[m]
    <3> DEFINE u == AccIds(acc) \o AskedOf[m]
    <3>1. AccIds(next) = u \o << >> /\ u \in Seq(STRING)
      BY <2>1, <2>2, <2>3, FlatMapNone DEF AccIds
    <3> HIDE DEF u
    <3>2. AccIds(next) = u
      BY <3>1, ConcatEmptySeq
    <3> QED BY <3>2 DEF u
  <2> QED BY <1>8, <2>2, <2>4 DEF next, f, blocks, role, more
<1> QED BY <1>7, <1>8

LEMMA Steps ==
  ASSUME NEW acc \in Accs, NEW m \in OpenAIMessages
  PROVE  OpenAIStep(acc, m) \in Accs /\ AccIds(OpenAIStep(acc, m)) = AccIds(acc) \o AskedOf[m]
<1>1. CASE m.role \in {"system", "developer"}
  BY <1>1, StepSystem
<1>2. CASE m.role = "tool"
  BY <1>2, StepTool
<1>3. CASE m.role \notin {"system", "developer", "tool"}
  BY <1>3, StepOther
<1> QED BY <1>1, <1>2, <1>3

LEMMA OpenAIFold ==
  ASSUME NEW base \in Accs, NEW ms \in Seq(OpenAIMessages)
  PROVE  \E p : /\ p[0] = base /\ p[Len(ms)] = FoldLeft(OpenAIStep, base, ms)
                /\ \A i \in 1..Len(ms) : p[i] = OpenAIStep(p[i - 1], ms[i])
                /\ \A i \in 0..Len(ms) : p[i] \in Accs
<1> DEFINE n == Len(ms)
           S == SUBSET (1..n)
           step == [x \in Accs \X OpenAIMessages |-> OpenAIStep(x[1], x[2])]
           iter == CHOOSE g : g = [t \in S |-> IF t = {} THEN base ELSE OpenAIStep(g[t \ {Max(t)}], ms[Max(t)])]
           p == [i \in 0..n |-> iter[1..i]]
<1>1. n \in Nat /\ DOMAIN ms = 1..n /\ \A i \in 1..n : ms[i] \in OpenAIMessages
  BY LenProperties, ElementOfSeq
<1>2. FoldLeft(OpenAIStep, base, ms) = iter[1..n]
  BY <1>1, Zenon DEF FoldLeft, MapThenFoldSet
<1>3. step \in [Accs \X OpenAIMessages -> Accs] /\ \A a \in Accs, m \in OpenAIMessages : step[<<a, m>>] = OpenAIStep(a, m)
  BY Steps
<1> HIDE DEF step
<1>4. PICK g \in [S -> Accs] : g = [t \in S |-> IF t = {} THEN base ELSE step[<<g[t \ {Max(t)}], ms[Max(t)]>>]]
  <2>1. StepsIn(step, Accs, OpenAIMessages)
    BY <1>3 DEF StepsIn
  <2>2. \E g : FoldsTo(g, step, base, ms, Accs)
    BY <2>1, FoldsExist
  <2> QED BY <2>2, Zenon DEF FoldsTo
<1>5. ASSUME NEW t \in S, t # {}
      PROVE  step[<<g[t \ {Max(t)}], ms[Max(t)]>>] = OpenAIStep(g[t \ {Max(t)}], ms[Max(t)])
  <2>1. Max(t) \in t
    BY <1>1, <1>5, GreatestIsIn
  <2>2. ms[Max(t)] \in OpenAIMessages /\ t \ {Max(t)} \in S
    BY <1>1, <2>1
  <2> QED BY <1>3, <1>4, <2>2
<1>6. g = [t \in S |-> IF t = {} THEN base ELSE OpenAIStep(g[t \ {Max(t)}], ms[Max(t)])]
  <2>1. \A t \in S : g[t] = IF t = {} THEN base ELSE step[<<g[t \ {Max(t)}], ms[Max(t)]>>]
    BY <1>4, Zenon
  <2>2. \A t \in S : g[t] = IF t = {} THEN base ELSE OpenAIStep(g[t \ {Max(t)}], ms[Max(t)])
    BY <1>5, <2>1, Zenon
  <2>3. g = [t \in S |-> g[t]]
    OBVIOUS
  <2> HIDE DEF S
  <2> QED BY <2>2, <2>3, Zenon
<1>7. iter = [t \in S |-> IF t = {} THEN base ELSE OpenAIStep(iter[t \ {Max(t)}], ms[Max(t)])]
  BY <1>6, Zenon
<1> HIDE DEF iter
<1>8. \A t \in S : iter[t] = IF t = {} THEN base ELSE OpenAIStep(iter[t \ {Max(t)}], ms[Max(t)])
  <2> HIDE DEF S
  <2> QED BY <1>7, Zenon
<1>9. p[0] = base
  <2>1. {} \in S /\ 1..0 = {} /\ 0 \in 0..n
    BY <1>1
  <2>2. iter[{}] = base
    BY <1>8, <2>1, Zenon
  <2> QED BY <2>1, <2>2
<1>10. ASSUME NEW i \in 1..n PROVE p[i] = OpenAIStep(p[i - 1], ms[i])
  <2> DEFINE t == 1..i
  <2>1. t \in S /\ t # {} /\ Max(t) = i /\ t \ {i} = 1..(i - 1)
    BY <1>1, Indices
  <2>2. p[i] = iter[t] /\ p[i - 1] = iter[1..(i - 1)]
    BY <1>1
  <2> HIDE DEF t, S, p
  <2>3. iter[t] = OpenAIStep(iter[t \ {Max(t)}], ms[Max(t)])
    BY <1>8, <2>1, Zenon
  <2>4. iter[t] = OpenAIStep(iter[1..(i - 1)], ms[i])
    BY <2>1, <2>3
  <2> QED BY <2>2, <2>4
<1>11. p[n] = iter[1..n]
  BY <1>1
<1> HIDE DEF p
<1>12. \A i \in 0..n : p[i] \in Accs
  <2> DEFINE N == {i \in Nat : i <= n => p[i] \in Accs}
  <2>1. 0 \in N
    BY <1>9
  <2>2. ASSUME NEW i \in Nat, i \in N PROVE i + 1 \in N
    <3> SUFFICES ASSUME i + 1 <= n PROVE p[i + 1] \in Accs
      OBVIOUS
    <3>1. p[i] \in Accs /\ i + 1 \in 1..n /\ (i + 1) - 1 = i
      BY <1>1, <2>2
    <3>2. p[i + 1] = OpenAIStep(p[i], ms[i + 1])
      BY <1>10, <3>1
    <3>3. ms[i + 1] \in OpenAIMessages
      BY <1>1, <3>1
    <3> QED BY <3>1, <3>2, <3>3, Steps
  <2> HIDE DEF N
  <2>3. \A i \in Nat : i \in N
    BY <2>1, <2>2, SetInduction
  <2> QED BY <1>1, <2>3 DEF N
<1> QED BY <1>2, <1>9, <1>10, <1>11, <1>12

SpokenBlocks == [kind : {"text", "toolUse"}, id : STRING]

LEMMA SaidIn == ASSUME NEW T, NEW s \in Seq(T) PROVE Filter(s, Said) \in Seq({x \in T : Said(x)})
<1> DEFINE only == Only(T, {b \in T : Said(b)})
<1>1. \A i \in 1..Len(s) : (IF Said(s[i]) THEN <<s[i]>> ELSE << >>) = only[s[i]]
  BY ElementOfSeq DEF Only
<1>2. [i \in 1..Len(s) |-> IF Said(s[i]) THEN <<s[i]>> ELSE << >>] = [i \in 1..Len(s) |-> only[s[i]]]
  BY <1>1
<1>3. Translates(only, T, {x \in T : Said(x)})
  <2>1. T \cap {b \in T : Said(b)} \subseteq {x \in T : Said(x)}
    OBVIOUS
  <2> QED BY <2>1, OnlyTranslates
<1> HIDE DEF only
<1>4. Filter(s, Said) = FlatMap(only, s)
  BY <1>2, Zenon DEF FlatMap, Filter
<1> QED BY <1>3, <1>4, FlatMapType

LEMMA OpenAISpeaks == ASSUME NEW m \in OpenAIMessages PROVE OpenAIBlocks(m) \in Seq(SpokenBlocks)
<1> DEFINE calls == [i \in 1..Len(m.calls) |-> Block("toolUse", m.calls[i])]
           one == <<Block("text", m.text)>>
           all == one \o calls
<1>1. m.text \in STRING /\ m.calls \in Seq(STRING)
  BY DEF OpenAIMessages
<1>2. Len(m.calls) \in Nat /\ \A i \in 1..Len(m.calls) : m.calls[i] \in STRING
  BY <1>1, LenProperties, ElementOfSeq
<1>3. Block("text", m.text) \in SpokenBlocks /\ \A i \in 1..Len(m.calls) : calls[i] \in SpokenBlocks
  BY <1>1, <1>2 DEF Block, SpokenBlocks
<1>4. calls = [i \in 1..Len(m.calls) |-> calls[i]]
  OBVIOUS
<1>5. one \in Seq(SpokenBlocks)
  BY <1>3, Singleton
<1>6. OpenAIBlocks(m) = Filter(all, Said)
  BY DEF OpenAIBlocks
<1> HIDE DEF calls, one
<1>7. calls \in Seq(SpokenBlocks)
  BY <1>2, <1>3, <1>4, MadeOf
<1>8. all \in Seq(SpokenBlocks)
  BY <1>5, <1>7, ConcatProperties
<1> HIDE DEF all
<1> DEFINE some == {b \in SpokenBlocks : Said(b)}
<1>9. some \subseteq SpokenBlocks /\ Filter(all, Said) \in Seq(some)
  BY <1>8, SaidIn
<1> HIDE DEF some
<1> QED BY <1>6, <1>9, SeqMonotonic

LEMMA SpeaksForItself ==
  ASSUME NEW role, NEW content \in Seq(SpokenBlocks), content # << >>
  PROVE  ~AllResults(Message(role, content))
<1>1. Len(content) \in Nat /\ Len(content) # 0
  BY LenProperties, EmptySeq
<1>2. content[1] \in SpokenBlocks /\ 1 \in 1..Len(content)
  BY <1>1, ElementOfSeq
<1>3. content[1].kind # "toolResult"
  BY <1>2 DEF SpokenBlocks
<1> QED BY <1>2, <1>3 DEF AllResults, Message

(***************************************************************************)
(* No two messages of results follow each other; and none would if one came next. *)
(***************************************************************************)
ResultsApart(ms) == \A i \in 1..(Len(ms) - 1) : ~(AllResults(ms[i]) /\ AllResults(ms[i + 1]))
ResultsSpread(ms) == ResultsApart(ms) /\ (ms # << >> => ~AllResults(ms[Len(ms)]))

LEMMA ApartAppend ==
  ASSUME NEW T, NEW ms \in Seq(T), NEW x \in T, ResultsApart(ms), ms # << >> => ~AllResults(ms[Len(ms)]) \/ ~AllResults(x)
  PROVE  ResultsApart(Append(ms, x)) /\ (~AllResults(x) => ResultsSpread(Append(ms, x)))
<1> DEFINE a == Append(ms, x)
           n == Len(ms)
<1>1. n \in Nat /\ Len(a) = n + 1 /\ a[n + 1] = x /\ \A i \in 1..n : a[i] = ms[i]
  BY LenProperties, AppendProperties
<1>2. n # 0 => ms # << >>
  OBVIOUS
<1> HIDE DEF a, n
<1>3. ASSUME NEW i \in 1..n PROVE ~(AllResults(a[i]) /\ AllResults(a[i + 1]))
  <2>1. CASE i = n
    BY <1>1, <1>2, <2>1 DEF n
  <2>2. CASE i # n
    <3>1. i \in 1..(n - 1) /\ i + 1 \in 1..n
      BY <1>1, <2>2
    <3> QED BY <1>1, <3>1 DEF ResultsApart, n
  <2> QED BY <2>1, <2>2
<1>4. ResultsApart(a)
  BY <1>1, <1>3 DEF ResultsApart
<1> QED BY <1>1, <1>4 DEF ResultsSpread, a

LEMMA StepSpreads ==
  ASSUME NEW acc \in Accs, NEW m \in OpenAIMessages, m.role = "tool" \/ OpenAIBlocks(m) # << >>, ResultsSpread(acc.messages)
  PROVE  ResultsSpread(OpenAIStep(acc, m).messages)
<1>1. CASE m.role \in {"system", "developer"}
  BY <1>1, StepSystem
<1>2. CASE m.role = "tool"
  BY <1>2, StepTool
<1>3. CASE m.role \notin {"system", "developer", "tool"}
  <2> DEFINE f == FlushToolResults(acc).messages
             x == Message(ProviderRole(m.role), OpenAIBlocks(m))
  <2>1. OpenAIStep(acc, m).messages = Append(f, x)
    BY <1>3, StepOther
  <2>2. ~AllResults(x)
    BY <1>3, OpenAISpeaks, SpeaksForItself
  <2>3. x \in SentMessages
    <3>1. ProviderRole(m.role) \in Roles
      BY DEF ProviderRole, Roles, OpenAIMessages
    <3> QED BY <3>1, OpenAIBlocksType, SentOne
  <2> HIDE DEF x
  <2>4. f \in Seq(SentMessages) /\ ResultsApart(f)
    <3>1. f = IF acc.results = << >> THEN acc.messages ELSE Append(acc.messages, Message("user", acc.results))
      BY Flushes
    <3>2. acc.messages \in Seq(SentMessages) /\ acc.results \in Seq(SentBlocks) /\ "user" \in Roles
      BY DEF Accs, Roles
    <3> DEFINE y == Message("user", acc.results)
               ms == acc.messages
    <3>3. y \in SentMessages
      BY <3>2, SentOne
    <3>4. ms \in Seq(SentMessages) /\ ResultsApart(ms) /\ (ms # << >> => ~AllResults(ms[Len(ms)]))
      BY <3>2, Zenon DEF ResultsSpread
    <3> HIDE DEF y, ms, f
    <3>5. Append(ms, y) \in Seq(SentMessages)
      BY <3>3, <3>4, AppendProperties
    <3>6. ResultsApart(Append(ms, y))
      BY <3>3, <3>4, ApartAppend
    <3> QED BY <3>1, <3>4, <3>5, <3>6 DEF y, ms
  <2> HIDE DEF f
  <2>5. ResultsSpread(Append(f, x))
    BY <2>2, <2>3, <2>4, ApartAppend
  <2> QED BY <2>1, <2>5
<1> QED BY <1>1, <1>2, <1>3

NoAcc == Acc(<< >>, << >>, << >>)

LEMMA NoAccIs == NoAcc \in Accs /\ AccIds(NoAcc) = << >> /\ NoAcc.messages = << >>
<1> DEFINE none == << >>
<1>1. none \in Seq(SentMessages) /\ none \in Seq(SentBlocks) /\ none \in Seq(STRING)
  BY EmptySeq
<1>2. FlatMap(IdsOf, none) = none /\ FlatMap(IdOf, none) = none /\ none \o none = none
  BY FlatMapNone, ConcatEmptySeq
<1>3. NoAcc = Acc(none, none, none)
  BY DEF NoAcc
<1>4. Acc(none, none, none).messages = none
  BY DEF Acc
<1> HIDE DEF none
<1>5. Acc(none, none, none) \in Accs /\ AccIds(Acc(none, none, none)) = none
  BY <1>1, <1>2, AccsAre
<1> QED BY <1>3, <1>4, <1>5 DEF none

LEMMA OpenAIAll ==
  ASSUME NEW messages \in Seq(OpenAIMessages)
  PROVE  LET acc == FoldLeft(OpenAIStep, NoAcc, messages)
         IN /\ acc \in Accs /\ AccIds(acc) = FlatMap(AskedOf, messages)
            /\ (\A i \in 1..Len(messages) : messages[i].role = "tool" \/ OpenAIBlocks(messages[i]) # << >>) =>
                 ResultsSpread(acc.messages)
<1> DEFINE n == Len(messages)
           acc == FoldLeft(OpenAIStep, NoAcc, messages)
           Speaks(i) == messages[i].role = "tool" \/ OpenAIBlocks(messages[i]) # << >>
           asked(i) == FlatMap(AskedOf, SubSeq(messages, 1, i))
<1>1. n \in Nat /\ \A i \in 1..n : messages[i] \in OpenAIMessages
  BY LenProperties, ElementOfSeq
<1>2. PICK p : /\ p[0] = NoAcc /\ p[n] = acc
               /\ \A i \in 1..n : p[i] = OpenAIStep(p[i - 1], messages[i])
               /\ \A i \in 0..n : p[i] \in Accs
  BY NoAccIs, OpenAIFold
<1>3. /\ asked(0) = << >> /\ asked(n) = FlatMap(AskedOf, messages)
      /\ \A i \in 1..n : asked(i) = asked(i - 1) \o AskedOf[messages[i]]
  <2>1. /\ FlatMap(AskedOf, SubSeq(messages, 1, 0)) = << >>
        /\ FlatMap(AskedOf, SubSeq(messages, 1, Len(messages))) = FlatMap(AskedOf, messages)
        /\ \A i \in 1..Len(messages) :
             FlatMap(AskedOf, SubSeq(messages, 1, i)) = FlatMap(AskedOf, SubSeq(messages, 1, i - 1)) \o AskedOf[messages[i]]
    <3>1. GrowsBy(AskedOf, messages, STRING)
      BY AskedTranslates, FlatMapPrefix
    <3> QED BY <3>1, FlatMapEnds DEF GrowsBy
  <2> QED BY <2>1
<1> HIDE DEF acc, asked, Speaks
<1> DEFINE N == {i \in Nat : i <= n => AccIds(p[i]) = asked(i) /\ ((\A j \in 1..n : Speaks(j)) => ResultsSpread(p[i].messages))}
<1>4. 0 \in N
  <2>1. ResultsSpread(<< >>)
    BY DEF ResultsSpread, ResultsApart
  <2> QED BY <1>2, <1>3, <2>1, NoAccIs
<1>5. ASSUME NEW i \in Nat, i \in N PROVE i + 1 \in N
  <2> SUFFICES ASSUME i + 1 <= n
               PROVE  AccIds(p[i + 1]) = asked(i + 1) /\ ((\A j \in 1..n : Speaks(j)) => ResultsSpread(p[i + 1].messages))
    OBVIOUS
  <2>1. i \in 0..n /\ i + 1 \in 1..n /\ (i + 1) - 1 = i
    BY <1>1
  <2>2. p[i + 1] = OpenAIStep(p[i], messages[i + 1]) /\ p[i] \in Accs /\ messages[i + 1] \in OpenAIMessages
    BY <1>1, <1>2, <2>1
  <2>3. AccIds(p[i]) = asked(i) /\ ((\A j \in 1..n : Speaks(j)) => ResultsSpread(p[i].messages))
    BY <1>5, <2>1
  <2>4. AccIds(p[i + 1]) = asked(i + 1)
    BY <1>3, <2>1, <2>2, <2>3, Steps
  <2>5. (\A j \in 1..n : Speaks(j)) => ResultsSpread(p[i + 1].messages)
    <3> SUFFICES ASSUME \A j \in 1..n : Speaks(j) PROVE ResultsSpread(p[i + 1].messages)
      OBVIOUS
    <3>1. messages[i + 1].role = "tool" \/ OpenAIBlocks(messages[i + 1]) # << >>
      BY <2>1 DEF Speaks
    <3> QED BY <2>2, <2>3, <3>1, StepSpreads
  <2> QED BY <2>4, <2>5
<1> HIDE DEF N
<1>6. \A i \in Nat : i \in N
  BY <1>4, <1>5, SetInduction
<1>7. AccIds(acc) = asked(n) /\ ((\A j \in 1..n : Speaks(j)) => ResultsSpread(acc.messages))
  BY <1>1, <1>2, <1>6 DEF N
<1>8. acc \in Accs
  BY <1>1, <1>2
<1> QED BY <1>3, <1>7, <1>8 DEF acc, Speaks

LEMMA OpenAIKept ==
  ASSUME NEW messages \in Seq(OpenAIMessages)
  PROVE  LET sent == OpenAIToConverse(messages).messages
         IN /\ sent \in Seq(SentMessages) /\ FlatMap(IdsOf, sent) = FlatMap(AskedOf, messages)
            /\ (\A i \in 1..Len(messages) : messages[i].role = "tool" \/ OpenAIBlocks(messages[i]) # << >>) =>
                 ResultsApart(sent)
<1> DEFINE acc == FoldLeft(OpenAIStep, NoAcc, messages)
           sent == OpenAIToConverse(messages).messages
<1>1. sent = FlushToolResults(acc).messages
  BY DEF OpenAIToConverse, NoAcc, Acc
<1>2. /\ acc \in Accs /\ AccIds(acc) = FlatMap(AskedOf, messages)
      /\ (\A i \in 1..Len(messages) : messages[i].role = "tool" \/ OpenAIBlocks(messages[i]) # << >>) =>
           ResultsSpread(acc.messages)
  BY OpenAIAll
<1> HIDE DEF acc, sent
<1>3. /\ sent = IF acc.results = << >> THEN acc.messages ELSE Append(acc.messages, Message("user", acc.results))
      /\ FlushToolResults(acc) \in Accs
      /\ FlatMap(IdsOf, sent) = AccIds(acc)
  BY <1>1, <1>2, Flushes
<1>4. sent \in Seq(SentMessages)
  BY <1>1, <1>3 DEF Accs
<1>5. ResultsSpread(acc.messages) => ResultsApart(sent)
  <2> SUFFICES ASSUME ResultsSpread(acc.messages) PROVE ResultsApart(sent)
    OBVIOUS
  <2> DEFINE y == Message("user", acc.results)
             ms == acc.messages
  <2>1. acc.results \in Seq(SentBlocks) /\ "user" \in Roles
    BY <1>2 DEF Accs, Roles
  <2>2. y \in SentMessages
    BY <2>1, SentOne
  <2>3. ms \in Seq(SentMessages) /\ ResultsApart(ms) /\ (ms # << >> => ~AllResults(ms[Len(ms)]))
    <3>1. ms \in Seq(SentMessages)
      BY <1>2 DEF Accs
    <3> QED BY <3>1, Zenon DEF ResultsSpread
  <2> HIDE DEF y, ms
  <2>4. ResultsApart(Append(ms, y))
    BY <2>2, <2>3, ApartAppend
  <2> QED BY <1>3, <2>3, <2>4 DEF y, ms
<1> QED BY <1>2, <1>3, <1>4, <1>5 DEF sent

LEMMA OpenAIAsked ==
  ASSUME NEW messages \in Seq(OpenAIMessages), dialect = "openai"
  PROVE  AskedIds(messages) = FlatMap(AskedOf, messages)
<1>1. \A i \in 1..Len(messages) : messages[i] \in OpenAIMessages
  BY ElementOfSeq
<1>2. ASSUME NEW i \in 1..Len(messages)
      PROVE  (CASE messages[i].role = "tool" -> <<messages[i].id>>
                [] messages[i].role \in {"system", "developer"} -> << >>
                [] OTHER -> (IF messages[i].text = NoText THEN << >> ELSE <<messages[i].text>>) \o messages[i].calls)
             = AskedOf[messages[i]]
  BY <1>1, Zenon DEF AskedOf
<1>3. [i \in 1..Len(messages) |->
         CASE messages[i].role = "tool" -> <<messages[i].id>>
           [] messages[i].role \in {"system", "developer"} -> << >>
           [] OTHER -> (IF messages[i].text = NoText THEN << >> ELSE <<messages[i].text>>) \o messages[i].calls]
      = [i \in 1..Len(messages) |-> AskedOf[messages[i]]]
  BY <1>2, Zenon
<1>4. AskedIds(messages) = FlattenSeq([i \in 1..Len(messages) |->
         CASE messages[i].role = "tool" -> <<messages[i].id>>
           [] messages[i].role \in {"system", "developer"} -> << >>
           [] OTHER -> (IF messages[i].text = NoText THEN << >> ELSE <<messages[i].text>>) \o messages[i].calls])
  BY Zenon DEF AskedIds
<1> QED BY <1>3, <1>4, Zenon DEF FlatMap

-----------------------------------------------------------------------------
(***************************************************************************)
(* Mantle: the items of a message, and the texts not yet in one, give the     *)
(* ids of its content in order.                                               *)
(***************************************************************************)
ItemAccs == [items : Seq(Items), texts : Seq(STRING)]
ItemAcc(items, texts) == [items |-> items, texts |-> texts]
ItemAccIds(acc) == FlatMap(ItemIdsOf, acc.items) \o acc.texts

LEMMA ItemAccsAre ==
  /\ \A acc \in ItemAccs : acc.items \in Seq(Items) /\ acc.texts \in Seq(STRING) /\ FlatMap(ItemIdsOf, acc.items) \in Seq(STRING)
  /\ \A items \in Seq(Items), texts \in Seq(STRING) :
       /\ ItemAcc(items, texts) \in ItemAccs
       /\ ItemAccIds(ItemAcc(items, texts)) = FlatMap(ItemIdsOf, items) \o texts
<1>1. \A items \in Seq(Items) : FlatMap(ItemIdsOf, items) \in Seq(STRING)
  BY PartsTranslate, FlatMapType
<1>2. \A acc \in ItemAccs : acc.items \in Seq(Items) /\ acc.texts \in Seq(STRING)
  BY DEF ItemAccs
<1>3. \A items \in Seq(Items), texts \in Seq(STRING) :
       /\ ItemAcc(items, texts) \in ItemAccs
       /\ ItemAccIds(ItemAcc(items, texts)) = FlatMap(ItemIdsOf, items) \o texts
  BY DEF ItemAcc, ItemAccs, ItemAccIds
<1> QED BY <1>1, <1>2, <1>3

LEMMA ItemMore ==
  ASSUME NEW items \in Seq(Items), NEW type \in ItemTypes, NEW role \in Roles, NEW ids \in Seq(STRING)
  PROVE  LET more == Append(items, Item(type, role, ids))
         IN more \in Seq(Items) /\ FlatMap(ItemIdsOf, more) = FlatMap(ItemIdsOf, items) \o ids
<1> DEFINE x == Item(type, role, ids)
<1>1. x \in Items /\ x.ids = ids
  BY DEF Item, Items
<1> HIDE DEF x
<1>2. ItemIdsOf[x] = ids
  BY <1>1 DEF ItemIdsOf
<1>3. FlatMap(ItemIdsOf, Append(items, x)) = FlatMap(ItemIdsOf, items) \o ItemIdsOf[x]
  BY <1>1, PartsTranslate, FlatMapAppend
<1>4. Append(items, x) \in Seq(Items)
  BY <1>1, AppendProperties
<1> QED BY <1>2, <1>3, <1>4 DEF x

LEMMA TextFlushes ==
  ASSUME NEW role \in Roles, NEW acc \in ItemAccs
  PROVE  FlushText(role, acc) \in Seq(Items) /\ FlatMap(ItemIdsOf, FlushText(role, acc)) = ItemAccIds(acc)
<1> DEFINE items == acc.items
           texts == acc.texts
           type == "message"
<1>1. items \in Seq(Items) /\ texts \in Seq(STRING) /\ FlatMap(ItemIdsOf, items) \in Seq(STRING) /\ type \in ItemTypes
  BY ItemAccsAre DEF ItemTypes
<1>2. /\ FlushText(role, acc) = IF texts = << >> THEN items ELSE Append(items, Item(type, role, texts))
      /\ ItemAccIds(acc) = FlatMap(ItemIdsOf, items) \o texts
  BY DEF FlushText, ItemAccIds
<1> HIDE DEF items, texts, type
<1>3. CASE texts = << >>
  BY <1>1, <1>2, <1>3, ConcatEmptySeq
<1>4. CASE texts # << >>
  BY <1>1, <1>2, <1>4, ItemMore
<1> QED BY <1>3, <1>4

LEMMA ItemSteps ==
  ASSUME NEW role \in Roles, NEW acc \in ItemAccs, NEW b \in SentBlocks
  PROVE  LET next == ResponsesStep(role, acc, b)
         IN next \in ItemAccs /\ ItemAccIds(next) = ItemAccIds(acc) \o <<b.id>>
<1> DEFINE next == ResponsesStep(role, acc, b)
           id == <<b.id>>
           flushed == FlushText(role, acc)
           said == ItemAccIds(acc)
<1>1. b.id \in STRING /\ id \in Seq(STRING) /\ b.kind \in {"text", "toolUse", "toolResult"} /\ NoText \in Roles
  BY Singleton DEF SentBlocks, Roles
<1>2. flushed \in Seq(Items) /\ FlatMap(ItemIdsOf, flushed) = said
  BY TextFlushes
<1>3. said \in Seq(STRING)
  BY ItemAccsAre, ConcatProperties DEF ItemAccIds
<1>4. CASE b.kind = "text"
  <2> DEFINE u == FlatMap(ItemIdsOf, acc.items)
             v == acc.texts
  <2>1. u \in Seq(STRING) /\ v \in Seq(STRING) /\ said = u \o v
    BY ItemAccsAre DEF ItemAccIds
  <2>2. next = [acc EXCEPT !.texts = Append(@, b.id)]
    BY <1>4 DEF ResponsesStep
  <2>3. Append(v, b.id) \in Seq(STRING) /\ Append(v, b.id) = v \o id
    BY <1>1, <2>1, AppendProperties, AppendIsConcat
  <2> HIDE DEF next
  <2>4. next = ItemAcc(acc.items, Append(v, b.id))
    BY <2>2 DEF ItemAcc, ItemAccs
  <2>5. next \in ItemAccs /\ ItemAccIds(next) = u \o Append(v, b.id)
    BY <2>3, <2>4, ItemAccsAre
  <2> HIDE DEF u, v, id, said
  <2>6. u \o (v \o id) = (u \o v) \o id
    BY <1>1, <2>1, ConcatAssociative
  <2> QED BY <2>1, <2>3, <2>5, <2>6 DEF next, id, said
<1>5. CASE b.kind \in {"toolUse", "toolResult"}
  <2> DEFINE type == IF b.kind = "toolUse" THEN "function_call" ELSE "function_call_output"
             more == Append(flushed, Item(type, NoText, id))
             none == << >>
  <2>1. next = ItemAcc(more, none)
    <3>1. CASE b.kind = "toolUse"
      BY <3>1 DEF ResponsesStep, ItemAcc
    <3>2. CASE b.kind = "toolResult"
      BY <3>2 DEF ResponsesStep, ItemAcc
    <3> QED BY <1>5, <3>1, <3>2
  <2>2. type \in ItemTypes
    BY DEF ItemTypes
  <2> HIDE DEF type, id, flushed, said, next
  <2>3. more \in Seq(Items) /\ FlatMap(ItemIdsOf, more) = said \o id
    BY <1>1, <1>2, <2>2, ItemMore
  <2>4. none \in Seq(STRING) /\ said \o id \in Seq(STRING)
    BY <1>1, <1>3, EmptySeq, ConcatProperties
  <2> HIDE DEF more
  <2>5. (said \o id) \o none = said \o id
    <3> DEFINE w == said \o id
    <3>1. w \in Seq(STRING)
      BY <2>4
    <3> HIDE DEF w
    <3>2. w \o none = w
      BY <3>1, ConcatEmptySeq
    <3> QED BY <3>2 DEF w
  <2> HIDE DEF none
  <2>6. next \in ItemAccs /\ ItemAccIds(next) = (said \o id) \o none
    BY <2>1, <2>3, <2>4, ItemAccsAre
  <2> QED BY <2>5, <2>6 DEF next, said, id
<1> QED BY <1>1, <1>4, <1>5
ItemsFold(role, base, bs) == FoldLeft(LAMBDA acc, b : ResponsesStep(role, acc, b), base, bs)

LEMMA ItemFold ==
  ASSUME NEW role \in Roles, NEW base \in ItemAccs, NEW bs \in Seq(SentBlocks)
  PROVE  \E p : /\ p[0] = base /\ p[Len(bs)] = ItemsFold(role, base, bs)
                /\ \A i \in 1..Len(bs) : p[i] = ResponsesStep(role, p[i - 1], bs[i])
                /\ \A i \in 0..Len(bs) : p[i] \in ItemAccs
<1> DEFINE n == Len(bs)
           S == SUBSET (1..n)
           step == [x \in ItemAccs \X SentBlocks |-> ResponsesStep(role, x[1], x[2])]
           iter == CHOOSE g : g = [t \in S |-> IF t = {} THEN base ELSE ResponsesStep(role, g[t \ {Max(t)}], bs[Max(t)])]
           p == [i \in 0..n |-> iter[1..i]]
<1>1. n \in Nat /\ DOMAIN bs = 1..n /\ \A i \in 1..n : bs[i] \in SentBlocks
  BY LenProperties, ElementOfSeq
<1>2. ItemsFold(role, base, bs) = iter[1..n]
  BY <1>1, Zenon DEF FoldLeft, MapThenFoldSet, ItemsFold
<1>3. step \in [ItemAccs \X SentBlocks -> ItemAccs] /\ \A a \in ItemAccs, b \in SentBlocks : step[<<a, b>>] = ResponsesStep(role, a, b)
  BY ItemSteps
<1> HIDE DEF step
<1>4. PICK g \in [S -> ItemAccs] : g = [t \in S |-> IF t = {} THEN base ELSE step[<<g[t \ {Max(t)}], bs[Max(t)]>>]]
  <2>1. StepsIn(step, ItemAccs, SentBlocks)
    BY <1>3 DEF StepsIn
  <2>2. \E g : FoldsTo(g, step, base, bs, ItemAccs)
    BY <2>1, FoldsExist
  <2> QED BY <2>2, Zenon DEF FoldsTo
<1>5. ASSUME NEW t \in S, t # {}
      PROVE  step[<<g[t \ {Max(t)}], bs[Max(t)]>>] = ResponsesStep(role, g[t \ {Max(t)}], bs[Max(t)])
  <2>1. Max(t) \in t
    BY <1>1, <1>5, GreatestIsIn
  <2>2. bs[Max(t)] \in SentBlocks /\ t \ {Max(t)} \in S
    BY <1>1, <2>1
  <2> QED BY <1>3, <1>4, <2>2
<1>6. g = [t \in S |-> IF t = {} THEN base ELSE ResponsesStep(role, g[t \ {Max(t)}], bs[Max(t)])]
  <2>1. \A t \in S : g[t] = IF t = {} THEN base ELSE step[<<g[t \ {Max(t)}], bs[Max(t)]>>]
    BY <1>4, Zenon
  <2>2. \A t \in S : g[t] = IF t = {} THEN base ELSE ResponsesStep(role, g[t \ {Max(t)}], bs[Max(t)])
    BY <1>5, <2>1, Zenon
  <2>3. g = [t \in S |-> g[t]]
    OBVIOUS
  <2> HIDE DEF S
  <2> QED BY <2>2, <2>3, Zenon
<1>7. iter = [t \in S |-> IF t = {} THEN base ELSE ResponsesStep(role, iter[t \ {Max(t)}], bs[Max(t)])]
  BY <1>6, Zenon
<1> HIDE DEF iter
<1>8. \A t \in S : iter[t] = IF t = {} THEN base ELSE ResponsesStep(role, iter[t \ {Max(t)}], bs[Max(t)])
  <2> HIDE DEF S
  <2> QED BY <1>7, Zenon
<1>9. p[0] = base
  <2>1. {} \in S /\ 1..0 = {} /\ 0 \in 0..n
    BY <1>1
  <2>2. iter[{}] = base
    BY <1>8, <2>1, Zenon
  <2> QED BY <2>1, <2>2
<1>10. ASSUME NEW i \in 1..n PROVE p[i] = ResponsesStep(role, p[i - 1], bs[i])
  <2> DEFINE t == 1..i
  <2>1. t \in S /\ t # {} /\ Max(t) = i /\ t \ {i} = 1..(i - 1)
    BY <1>1, Indices
  <2>2. p[i] = iter[t] /\ p[i - 1] = iter[1..(i - 1)]
    BY <1>1
  <2> HIDE DEF t, S, p
  <2>3. iter[t] = ResponsesStep(role, iter[t \ {Max(t)}], bs[Max(t)])
    BY <1>8, <2>1, Zenon
  <2>4. iter[t] = ResponsesStep(role, iter[1..(i - 1)], bs[i])
    BY <2>1, <2>3
  <2> QED BY <2>2, <2>4
<1>11. p[n] = iter[1..n]
  BY <1>1
<1> HIDE DEF p
<1>12. \A i \in 0..n : p[i] \in ItemAccs
  <2> DEFINE N == {i \in Nat : i <= n => p[i] \in ItemAccs}
  <2>1. 0 \in N
    BY <1>9
  <2>2. ASSUME NEW i \in Nat, i \in N PROVE i + 1 \in N
    <3> SUFFICES ASSUME i + 1 <= n PROVE p[i + 1] \in ItemAccs
      OBVIOUS
    <3>1. p[i] \in ItemAccs /\ i + 1 \in 1..n /\ (i + 1) - 1 = i
      BY <1>1, <2>2
    <3>2. p[i + 1] = ResponsesStep(role, p[i], bs[i + 1])
      BY <1>10, <3>1
    <3>3. bs[i + 1] \in SentBlocks
      BY <1>1, <3>1
    <3> QED BY <3>1, <3>2, <3>3, ItemSteps
  <2> HIDE DEF N
  <2>3. \A i \in Nat : i \in N
    BY <2>1, <2>2, SetInduction
  <2> QED BY <1>1, <2>3 DEF N
<1> QED BY <1>2, <1>9, <1>10, <1>11, <1>12

LEMMA ItemsOfMessage ==
  ASSUME NEW m \in SentMessages
  PROVE  ResponsesItems(m) \in Seq(Items) /\ FlatMap(ItemIdsOf, ResponsesItems(m)) = IdsOf[m]
<1> DEFINE bs == m.content
           role == m.role
           n == Len(bs)
           none == << >>
           base == ItemAcc(none, none)
           acc == ItemsFold(role, base, bs)
           given(i) == FlatMap(IdOf, SubSeq(bs, 1, i))
<1>1. role \in Roles /\ bs \in Seq(SentBlocks) /\ bs \in Seq(Blocks) /\ IdsOf[m] = FlatMap(IdOf, bs)
  BY SentAre DEF SentMessages, IdsOf
<1>2. ResponsesItems(m) = FlushText(role, acc)
  BY Zenon DEF ResponsesItems, ItemAcc, ItemsFold
<1>3. base \in ItemAccs /\ ItemAccIds(base) = << >>
  <2>1. none \in Seq(Items) /\ none \in Seq(STRING) /\ FlatMap(ItemIdsOf, none) = none /\ none \o none = none
    BY EmptySeq, FlatMapNone, ConcatEmptySeq
  <2> HIDE DEF none
  <2>2. base \in ItemAccs /\ ItemAccIds(base) = none
    BY <2>1, ItemAccsAre
  <2> QED BY <2>2 DEF none
<1> HIDE DEF bs, role, base
<1>4. n \in Nat /\ \A i \in 1..n : bs[i] \in SentBlocks /\ IdOf[bs[i]] = <<bs[i].id>>
  <2>1. n \in Nat /\ \A i \in 1..n : bs[i] \in SentBlocks
    BY <1>1, LenProperties, ElementOfSeq
  <2> QED BY <2>1, SentAre DEF IdOf
<1>5. PICK p : /\ p[0] = base /\ p[n] = acc
               /\ \A i \in 1..n : p[i] = ResponsesStep(role, p[i - 1], bs[i])
               /\ \A i \in 0..n : p[i] \in ItemAccs
  BY <1>1, <1>3, ItemFold
<1>6. /\ given(0) = << >> /\ given(n) = FlatMap(IdOf, bs)
      /\ \A i \in 1..n : given(i) = given(i - 1) \o IdOf[bs[i]]
  <2>1. GrowsBy(IdOf, bs, STRING)
    BY <1>1, PartsTranslate, FlatMapPrefix
  <2> QED BY <1>1, <2>1, FlatMapEnds DEF GrowsBy
<1> HIDE DEF acc, given
<1> DEFINE N == {i \in Nat : i <= n => ItemAccIds(p[i]) = given(i)}
<1>7. 0 \in N
  BY <1>3, <1>5, <1>6
<1>8. ASSUME NEW i \in Nat, i \in N PROVE i + 1 \in N
  <2> SUFFICES ASSUME i + 1 <= n PROVE ItemAccIds(p[i + 1]) = given(i + 1)
    OBVIOUS
  <2>1. i \in 0..n /\ i + 1 \in 1..n /\ (i + 1) - 1 = i
    BY <1>4
  <2>2. p[i + 1] = ResponsesStep(role, p[i], bs[i + 1]) /\ p[i] \in ItemAccs /\ bs[i + 1] \in SentBlocks
    BY <1>4, <1>5, <2>1
  <2>3. ItemAccIds(p[i]) = given(i)
    BY <1>8, <2>1
  <2>4. ItemAccIds(p[i + 1]) = ItemAccIds(p[i]) \o <<bs[i + 1].id>>
    BY <1>1, <2>2, ItemSteps
  <2>5. given(i + 1) = given(i) \o <<bs[i + 1].id>>
    BY <1>4, <1>6, <2>1
  <2> QED BY <2>3, <2>4, <2>5
<1> HIDE DEF N
<1>9. \A i \in Nat : i \in N
  BY <1>7, <1>8, SetInduction
<1>10. ItemAccIds(acc) = FlatMap(IdOf, bs) /\ acc \in ItemAccs
  BY <1>4, <1>5, <1>6, <1>9 DEF N
<1> QED BY <1>1, <1>2, <1>10, TextFlushes

LEMMA ItemsKept ==
  ASSUME NEW ms \in Seq(SentMessages)
  PROVE  ItemIds(ConverseToResponsesInput(ms)) = FlatMap(IdsOf, ms)
<1> DEFINE items == [m \in SentMessages |-> ResponsesItems(m)]
           ids == [m \in SentMessages |-> IdsOf[m]]
           all == ConverseToResponsesInput(ms)
<1>1. /\ \A m \in SentMessages : /\ items[m] = ResponsesItems(m) /\ ids[m] = IdsOf[m]
                                 /\ ResponsesItems(m) \in Seq(Items)
                                 /\ FlatMap(ItemIdsOf, ResponsesItems(m)) = IdsOf[m]
                                 /\ IdsOf[m] \in Seq(STRING)
  <2>1. \A m \in SentMessages : IdsOf[m] \in Seq(STRING)
    BY SentAre, PartsTranslate, TranslatedOne
  <2> QED BY <2>1, ItemsOfMessage
<1>2. Translates(items, SentMessages, Items) /\ Translates(ids, SentMessages, STRING)
  BY <1>1 DEF Translates
<1> HIDE DEF items, ids
<1>3. all = FlatMap(items, ms)
  <2>1. \A i \in 1..Len(ms) : ResponsesItems(ms[i]) = items[ms[i]]
    BY <1>1, ElementOfSeq
  <2>2. [i \in 1..Len(ms) |-> ResponsesItems(ms[i])] = [i \in 1..Len(ms) |-> items[ms[i]]]
    BY <2>1
  <2> QED BY <2>2, Zenon DEF FlatMap, ConverseToResponsesInput
<1>4. all \in Seq(Items)
  BY <1>2, <1>3, FlatMapType
<1> HIDE DEF all
<1>5. ItemIds(all) = FlatMap(ItemIdsOf, all)
  BY <1>4, ItemIdsAre
<1>6. \A m \in SentMessages : ids[m] = FlatMap(ItemIdsOf, items[m])
  BY <1>1
<1>7. FlatMap(ItemIdsOf, FlatMap(items, ms)) = FlatMap(ids, ms)
  BY <1>2, <1>6, PartsTranslate, FlatMapTwice
<1>8. FlatMap(ids, ms) = FlatMap(IdsOf, ms)
  <2>1. \A i \in 1..Len(ms) : ids[ms[i]] = IdsOf[ms[i]]
    BY <1>1, ElementOfSeq
  <2> QED BY <2>1, FlatMapSame
<1> QED BY <1>3, <1>5, <1>7, <1>8 DEF all

-----------------------------------------------------------------------------
(***************************************************************************)
(* The request, dialect by dialect.                                           *)
(***************************************************************************)
LEMMA SentIds ==
  ASSUME NEW sent \in Seq(SentMessages)
  PROVE  Ids(Contents(sent)) = FlatMap(IdsOf, sent) /\ ItemIds(ConverseToResponsesInput(sent)) = FlatMap(IdsOf, sent)
<1>1. sent \in Seq(Messages)
  BY SentAre
<1> QED BY <1>1, IdsOfContents, ItemsKept

AllKept(messages) ==
  LET sent == ToConverse(messages).messages
  IN /\ Ids(Contents(sent)) = AskedIds(messages)
     /\ ItemIds(ConverseToResponsesInput(sent)) = AskedIds(messages)
     /\ ConverseValid(sent)
     /\ dialect = "openai" /\ (\A i \in 1..Len(messages) : messages[i].role = "tool" \/ OpenAIBlocks(messages[i]) # << >>) =>
          ResultsApart(sent)

LEMMA OpenAIRequestKept ==
  ASSUME dialect = "openai", NEW messages \in Asks["openai"], Valid(messages)
  PROVE  AllKept(messages)
<1> DEFINE sent == OpenAIToConverse(messages).messages
<1>1. messages \in Seq(OpenAIMessages)
  BY ConversationsAssumption DEF OpenAIMessages
<1>2. sent = ToConverse(messages).messages
  BY DEF ToConverse
<1>3. /\ sent \in Seq(SentMessages) /\ FlatMap(IdsOf, sent) = AskedIds(messages)
      /\ (\A i \in 1..Len(messages) : messages[i].role = "tool" \/ OpenAIBlocks(messages[i]) # << >>) => ResultsApart(sent)
  BY <1>1, OpenAIKept, OpenAIAsked
<1> HIDE DEF sent
<1>4. ConverseValid(sent)
  BY <1>2 DEF Valid
<1>5. Ids(Contents(sent)) = AskedIds(messages) /\ ItemIds(ConverseToResponsesInput(sent)) = AskedIds(messages)
  BY <1>3, SentIds
<1> QED BY <1>2, <1>3, <1>4, <1>5, Zenon DEF AllKept

LEMMA AnthropicRequestKept ==
  ASSUME dialect = "anthropic", NEW messages \in Asks["anthropic"], Valid(messages)
  PROVE  AllKept(messages)
<1> DEFINE sent == AnthropicToConverse(messages, NoText).messages
<1>1. messages \in Seq(Messages)
  <2> DEFINE T == [role : STRING, content : Seq([kind : BlockKinds, id : STRING])]
  <2>1. messages \in Seq(T)
    BY ConversationsAssumption
  <2>2. T \subseteq Messages
    BY DEF Messages, Blocks, Roles
  <2> HIDE DEF T
  <2> QED BY <2>1, <2>2, SeqMonotonic
<1>2. sent = ToConverse(messages).messages
  BY DEF ToConverse
<1>3. AskedIds(messages) = Ids(Filter(Contents(messages), LAMBDA b : b.kind # "image" /\ Said(b)))
  BY Zenon DEF AskedIds
<1>4. sent \in Seq(SentMessages) /\ FlatMap(IdsOf, sent) = AskedIds(messages)
  BY <1>1, <1>3, AnthropicKept, AnthropicAsked
<1> HIDE DEF sent
<1>5. ConverseValid(sent)
  BY <1>2 DEF Valid
<1>6. Ids(Contents(sent)) = AskedIds(messages) /\ ItemIds(ConverseToResponsesInput(sent)) = AskedIds(messages)
  BY <1>4, SentIds
<1>7. dialect # "openai"
  OBVIOUS
<1> QED BY <1>2, <1>5, <1>6, <1>7, Zenon DEF AllKept

LEMMA NativeRequestKept ==
  ASSUME dialect = "native", NEW messages \in Asks["native"], Valid(messages)
  PROVE  AllKept(messages)
<1> DEFINE sent == ChatToConverse(messages).messages
           n == Len(messages)
<1>1. messages \in Seq(NativeMessages) /\ n \in Nat
  BY ConversationsAssumption, LenProperties DEF NativeMessages
<1>2. sent = ToConverse(messages).messages
  BY DEF ToConverse
<1>3. AskedIds(messages) = [i \in 1..Len(messages) |-> messages[i].text]
  BY Zenon DEF AskedIds
<1>4. sent \in Seq(SentMessages) /\ FlatMap(IdsOf, sent) = AskedIds(messages)
  BY <1>1, <1>3, NativeKept
<1>5. ConverseValid(sent)
  <2>1. messages # << >> /\ \A i \in 1..n : messages[i].role \in {"user", "assistant"}
    BY DEF Valid, ChatValid
  <2>2. sent = [i \in 1..n |-> Message(messages[i].role, <<Block("text", messages[i].text)>>)]
    BY DEF ChatToConverse
  <2> HIDE DEF sent
  <2>3. Len(sent) = n /\ n # 0
    BY <1>1, <1>4, <2>1, <2>2, LenProperties, EmptySeq
  <2>4. sent # << >>
    BY <2>3
  <2>5. \A i \in 1..n : sent[i].role = messages[i].role /\ sent[i].content # << >>
    BY <2>2 DEF Message
  <2> QED BY <2>1, <2>3, <2>4, <2>5 DEF ConverseValid
<1> HIDE DEF sent
<1>6. Ids(Contents(sent)) = AskedIds(messages) /\ ItemIds(ConverseToResponsesInput(sent)) = AskedIds(messages)
  BY <1>4, SentIds
<1>7. dialect # "openai"
  OBVIOUS
<1> QED BY <1>2, <1>5, <1>6, <1>7, Zenon DEF AllKept

LEMMA RequestKept ==
  ASSUME dialect \in Dialects, NEW messages \in Asks[dialect], Valid(messages)
  PROVE  AllKept(messages)
BY OpenAIRequestKept, AnthropicRequestKept, NativeRequestKept DEF Dialects

-----------------------------------------------------------------------------
(***************************************************************************)
(* The answer: the provider's items as content, in order.                     *)
(***************************************************************************)
AnswerBlocks == {b \in SpokenBlocks : Said(b)}
ProviderItems == {t \in [type : STRING, ids : Seq(STRING)] : t.type = "function_call" => Len(t.ids) = 1}
OutputOf == [t \in ProviderItems |-> OutputContent(t)]
SaidTexts(ids) == Filter(ids, LAMBDA id : id # NoText)
AnsweredOf ==
  [t \in ProviderItems |->
     CASE t.type = "function_call" -> t.ids
       [] t.type = "message" -> SaidTexts(t.ids)
       [] OTHER -> << >>]

LEMMA AnswerBlocksAre == AnswerBlocks \subseteq SentBlocks /\ \A c \in Seq(AnswerBlocks) : c \in Seq(SentBlocks) /\ c \in Seq(Blocks)
<1>1. AnswerBlocks \subseteq SentBlocks
  BY DEF AnswerBlocks, SpokenBlocks, SentBlocks
<1> QED BY <1>1, SeqMonotonic, SentAre

LEMMA SaidTextsAre ==
  ASSUME NEW ids \in Seq(STRING)
  PROVE  LET texts == [i \in 1..Len(ids) |-> Block("text", ids[i])]
         IN /\ Filter(texts, Said) \in Seq(AnswerBlocks)
            /\ FlatMap(IdOf, Filter(texts, Said)) = SaidTexts(ids)
            /\ SaidTexts(ids) \in Seq(STRING)
<1> DEFINE texts == [i \in 1..Len(ids) |-> Block("text", ids[i])]
           only == Only(STRING, {id \in STRING : id # NoText})
<1>1. Len(ids) \in Nat /\ \A i \in 1..Len(ids) : ids[i] \in STRING
  BY LenProperties, ElementOfSeq
<1>2. \A i \in 1..Len(ids) : texts[i] \in SpokenBlocks /\ texts[i].kind = "text" /\ texts[i].id = ids[i]
  BY <1>1 DEF Block, SpokenBlocks
<1>3. texts = [i \in 1..Len(ids) |-> texts[i]]
  OBVIOUS
<1>4. \A id \in STRING : only[id] = IF id # NoText THEN <<id>> ELSE << >>
  BY DEF Only
<1>5. Translates(only, STRING, STRING)
  BY OnlyTranslates
<1> HIDE DEF texts, only
<1>6. texts \in Seq(SpokenBlocks) /\ Len(texts) = Len(ids)
  BY <1>1, <1>2, <1>3, MadeOf
<1>7. texts \in Seq(SentBlocks)
  <2>1. SpokenBlocks \subseteq SentBlocks
    BY DEF SpokenBlocks, SentBlocks
  <2> QED BY <1>6, <2>1, SeqMonotonic
<1>8. Filter(texts, Said) \in Seq(AnswerBlocks)
  BY <1>6, SaidIn DEF AnswerBlocks
<1>9. FlatMap(IdOf, Filter(texts, Said)) = FlatMap(SaidSentIdOf, texts)
  BY <1>7, SaidSentKept
<1>10. FlatMap(SaidSentIdOf, texts) = FlatMap(only, ids)
  <2>1. \A i \in 1..Len(texts) : SaidSentIdOf[texts[i]] = only[ids[i]]
    <3>1. \A i \in 1..Len(texts) : texts[i] \in SentBlocks
      BY <1>7, ElementOfSeq
    <3>2. \A i \in 1..Len(texts) : SaidSentIdOf[texts[i]] = IF Said(texts[i]) THEN <<texts[i].id>> ELSE << >>
      BY <3>1, SaidSentAre
    <3>3. \A i \in 1..Len(texts) : Said(texts[i]) <=> ids[i] # NoText
      BY <1>2, <1>6 DEF Said
    <3>4. \A i \in 1..Len(texts) : texts[i].id = ids[i] /\ ids[i] \in STRING
      BY <1>1, <1>2, <1>6
    <3>5. ASSUME NEW i \in 1..Len(texts) PROVE SaidSentIdOf[texts[i]] = only[ids[i]]
      <4>1. SaidSentIdOf[texts[i]] = IF ids[i] # NoText THEN <<ids[i]>> ELSE << >>
        BY <3>2, <3>3, <3>4
      <4>2. only[ids[i]] = IF ids[i] # NoText THEN <<ids[i]>> ELSE << >>
        BY <1>4, <3>4, Zenon
      <4> QED BY <4>1, <4>2
    <3> QED BY <3>5
  <2> QED BY <1>6, <2>1, FlatMapSame
<1>11. SaidTexts(ids) = FlatMap(only, ids)
  <2>1. \A i \in 1..Len(ids) : (IF ids[i] # NoText THEN <<ids[i]>> ELSE << >>) = only[ids[i]]
    BY <1>1, <1>4
  <2>2. [i \in 1..Len(ids) |-> IF ids[i] # NoText THEN <<ids[i]>> ELSE << >>] = [i \in 1..Len(ids) |-> only[ids[i]]]
    BY <2>1
  <2> QED BY <2>2, Zenon DEF FlatMap, Filter, SaidTexts
<1>12. SaidTexts(ids) \in Seq(STRING)
  BY <1>5, <1>11, FlatMapType
<1> QED BY <1>8, <1>9, <1>10, <1>11, <1>12, Zenon DEF texts

LEMMA Outputs ==
  ASSUME NEW t \in ProviderItems
  PROVE  OutputContent(t) \in Seq(AnswerBlocks) /\ FlatMap(IdOf, OutputContent(t)) = AnsweredOf[t] /\ AnsweredOf[t] \in Seq(STRING)
<1>1. t.ids \in Seq(STRING) /\ (t.type = "function_call" => Len(t.ids) = 1)
  BY DEF ProviderItems
<1>2. CASE t.type = "function_call"
  <2> DEFINE b == Block("toolUse", t.ids[1])
  <2>1. Len(t.ids) = 1 /\ t.ids[1] \in STRING /\ t.ids = <<t.ids[1]>>
    BY <1>1, <1>2, ElementOfSeq
  <2>2. b \in AnswerBlocks /\ b.id = t.ids[1]
    BY <2>1 DEF Block, AnswerBlocks, SpokenBlocks, Said
  <2>3. OutputContent(t) = <<b>> /\ AnsweredOf[t] = t.ids
    BY <1>2 DEF OutputContent, AnsweredOf
  <2> HIDE DEF b
  <2>4. b \in Blocks /\ IdOf[b] = <<b.id>>
    BY <2>2, AnswerBlocksAre, SentAre DEF IdOf
  <2>5. FlatMap(IdOf, <<b>>) = <<b.id>> /\ <<b>> \in Seq(AnswerBlocks)
    BY <2>2, <2>4, PartsTranslate, FlatMapSingle, Singleton
  <2> QED BY <1>1, <2>1, <2>2, <2>3, <2>5
<1>3. CASE t.type = "message"
  <2> DEFINE ids == t.ids
             out == Filter([i \in 1..Len(ids) |-> Block("text", ids[i])], Said)
  <2>1. OutputContent(t) = out
    BY <1>3, Zenon DEF OutputContent
  <2>2. AnsweredOf[t] = SaidTexts(ids)
    BY <1>3 DEF AnsweredOf
  <2>3. out \in Seq(AnswerBlocks) /\ FlatMap(IdOf, out) = SaidTexts(ids) /\ SaidTexts(ids) \in Seq(STRING)
    BY <1>1, SaidTextsAre
  <2> HIDE DEF out, ids
  <2> QED BY <2>1, <2>2, <2>3
<1>4. CASE t.type \notin {"function_call", "message"}
  <2>1. OutputContent(t) = << >> /\ AnsweredOf[t] = << >>
    BY <1>4 DEF OutputContent, AnsweredOf
  <2> QED BY <2>1, FlatMapNone, EmptySeq
<1> QED BY <1>2, <1>3, <1>4

LEMMA ContentKept ==
  ASSUME NEW items \in Seq(ProviderItems)
  PROVE  LET content == ResponsesContent(items)
         IN content \in Seq(AnswerBlocks) /\ FlatMap(IdOf, content) = AnsweredIds(items)
<1> DEFINE content == ResponsesContent(items)
<1>1. /\ Translates(OutputOf, ProviderItems, AnswerBlocks) /\ Translates(OutputOf, ProviderItems, Blocks)
      /\ Translates(AnsweredOf, ProviderItems, STRING)
  <2>1. OutputOf \in [ProviderItems -> Seq(AnswerBlocks)] /\ OutputOf \in [ProviderItems -> Seq(Blocks)]
    BY Outputs, AnswerBlocksAre DEF OutputOf
  <2>2. AnsweredOf = [t \in ProviderItems |-> AnsweredOf[t]]
    BY DEF AnsweredOf
  <2>3. AnsweredOf \in [ProviderItems -> Seq(STRING)]
    BY <2>2, Outputs
  <2> QED BY <2>1, <2>3 DEF Translates
<1>2. \A i \in 1..Len(items) : items[i] \in ProviderItems
  BY ElementOfSeq
<1>3. content = FlatMap(OutputOf, items)
  <2>1. \A i \in 1..Len(items) : OutputContent(items[i]) = OutputOf[items[i]]
    BY <1>2 DEF OutputOf
  <2>2. [i \in 1..Len(items) |-> OutputContent(items[i])] = [i \in 1..Len(items) |-> OutputOf[items[i]]]
    BY <2>1
  <2> QED BY <2>2, Zenon DEF FlatMap, ResponsesContent
<1>4. AnsweredIds(items) = FlatMap(AnsweredOf, items)
  <2>1. ASSUME NEW i \in 1..Len(items)
        PROVE (CASE items[i].type = "function_call" -> items[i].ids
                 [] items[i].type = "message" -> SaidTexts(items[i].ids)
                 [] OTHER -> << >>) = AnsweredOf[items[i]]
    BY <1>2, Zenon DEF AnsweredOf
  <2>2. [i \in 1..Len(items) |-> CASE items[i].type = "function_call" -> items[i].ids
                                  [] items[i].type = "message" -> SaidTexts(items[i].ids)
                                  [] OTHER -> << >>] = [i \in 1..Len(items) |-> AnsweredOf[items[i]]]
    BY <2>1, Zenon
  <2>3. AnsweredIds(items) = FlattenSeq([i \in 1..Len(items) |-> CASE items[i].type = "function_call" -> items[i].ids
                                  [] items[i].type = "message" -> SaidTexts(items[i].ids)
                                  [] OTHER -> << >>])
    BY Zenon DEF AnsweredIds, SaidTexts
  <2> QED BY <2>2, <2>3, Zenon DEF FlatMap
<1>5. \A t \in ProviderItems : AnsweredOf[t] = FlatMap(IdOf, OutputOf[t])
  BY Outputs DEF OutputOf
<1>6. FlatMap(IdOf, FlatMap(OutputOf, items)) = FlatMap(AnsweredOf, items)
  BY <1>1, <1>5, PartsTranslate, FlatMapTwice
<1>7. FlatMap(OutputOf, items) \in Seq(AnswerBlocks)
  BY <1>1, FlatMapType
<1> QED BY <1>3, <1>4, <1>6, <1>7

LEMMA AnthropicAnswers == ASSUME NEW content \in Seq(AnswerBlocks) PROVE AnthropicAnswer(content) = content
<1>1. ASSUME NEW i \in 1..Len(content)
      PROVE  (IF content[i].kind \in {"text", "toolUse"} /\ Said(content[i]) THEN <<content[i]>> ELSE << >>)
               = Once(AnswerBlocks)[content[i]]
  <2>1. content[i] \in AnswerBlocks
    BY ElementOfSeq
  <2> QED BY <2>1 DEF AnswerBlocks, SpokenBlocks, Once
<1>2. [i \in 1..Len(content) |-> IF content[i].kind \in {"text", "toolUse"} /\ Said(content[i]) THEN <<content[i]>> ELSE << >>]
        = [i \in 1..Len(content) |-> Once(AnswerBlocks)[content[i]]]
  BY <1>1
<1>3. AnthropicAnswer(content) = FlatMap(Once(AnswerBlocks), content)
  BY <1>2, Zenon DEF FlatMap, AnthropicAnswer, Filter
<1> QED BY <1>3, FlatMapOnce

LEMMA ElementsJoin ==
  ASSUME NEW T, NEW s \in Seq(T), NEW t \in Seq(T)
  PROVE  ToSet(s \o t) = ToSet(s) \cup ToSet(t)
<1>1. Range(s \o t) = Range(s) \cup Range(t)
  BY RangeConcatenation
<1>2. \A x : ToSet(x) = Range(x)
  BY Zenon DEF ToSet, Range
<1> QED BY <1>1, <1>2

LEMMA ElementsMore ==
  ASSUME NEW T, NEW s \in Seq(T), NEW x \in T
  PROVE  /\ Append(s, x) \in Seq(T) /\ s \o <<x>> = Append(s, x) /\ s \o << >> = s
         /\ ToSet(Append(s, x)) = ToSet(s) \cup {x} /\ Len(Append(s, x)) = Len(s) + 1 /\ Len(s) \in Nat
<1> DEFINE one == <<x>>
<1>1. one \in Seq(T) /\ ToSet(one) = {x}
  BY Singleton DEF ToSet
<1>2. Append(s, x) \in Seq(T) /\ Len(Append(s, x)) = Len(s) + 1 /\ Append(s, x) = s \o one /\ Len(s) \in Nat /\ s \o << >> = s
  BY AppendProperties, AppendIsConcat, LenProperties, ConcatEmptySeq
<1> HIDE DEF one
<1>3. ToSet(s \o one) = ToSet(s) \cup {x}
  BY <1>1, ElementsJoin
<1> QED BY <1>2, <1>3 DEF one

LEMMA ElementsOfIds == ASSUME NEW c \in Seq(Blocks) PROVE ToSet(Ids(c)) = {b.id : b \in ToSet(c)} /\ Len(Ids(c)) = Len(c)
<1>1. Len(c) \in Nat /\ DOMAIN c = 1..Len(c)
  BY LenProperties
<1>2. DOMAIN Ids(c) = 1..Len(c) /\ \A i \in 1..Len(c) : Ids(c)[i] = c[i].id
  BY DEF Ids
<1>3. Len(Ids(c)) = Len(c)
  BY <1>1 DEF Ids
<1> HIDE DEF Ids
<1>4. ToSet(Ids(c)) = {b.id : b \in ToSet(c)}
  BY <1>1, <1>2 DEF ToSet
<1> QED BY <1>3, <1>4

OnlyKind(kind) == Only(AnswerBlocks, {b \in AnswerBlocks : b.kind = kind})

LEMMA KindTranslates == ASSUME NEW kind PROVE Translates(OnlyKind(kind), AnswerBlocks, AnswerBlocks)
<1> DEFINE K == {b \in AnswerBlocks : b.kind = kind}
<1>1. AnswerBlocks \cap K \subseteq AnswerBlocks
  OBVIOUS
<1> QED BY <1>1, OnlyTranslates DEF OnlyKind

LEMMA KindAppend ==
  ASSUME NEW kind, NEW s \in Seq(AnswerBlocks), NEW b \in AnswerBlocks
  PROVE  FlatMap(OnlyKind(kind), Append(s, b)) = FlatMap(OnlyKind(kind), s) \o OnlyKind(kind)[b]
<1> DEFINE e == OnlyKind(kind)
<1>1. Translates(e, AnswerBlocks, AnswerBlocks)
  BY KindTranslates
<1> HIDE DEF e
<1>2. FlatMap(e, Append(s, b)) = FlatMap(e, s) \o e[b]
  BY <1>1, FlatMapAppend
<1> QED BY <1>2 DEF e

\* The blocks of one kind and of the other are all the blocks, each once.
LEMMA OpenAIAnswers ==
  ASSUME NEW content \in Seq(AnswerBlocks)
  PROVE  LET answer == OpenAIAnswer(content)
         IN answer \in Seq(AnswerBlocks) /\ ToSet(answer) = ToSet(content) /\ Len(answer) = Len(content)
<1> DEFINE texts(s) == FlatMap(OnlyKind("text"), s)
           calls(s) == FlatMap(OnlyKind("toolUse"), s)
           P == {s \in Seq(AnswerBlocks) : /\ ToSet(texts(s)) \cup ToSet(calls(s)) = ToSet(s)
                                           /\ Len(texts(s)) + Len(calls(s)) = Len(s)}
<1>1. ASSUME NEW kind PROVE Translates(OnlyKind(kind), AnswerBlocks, AnswerBlocks) /\ OfKind(content, kind) = FlatMap(OnlyKind(kind), content)
  <2>1. Translates(OnlyKind(kind), AnswerBlocks, AnswerBlocks)
    BY KindTranslates
  <2>2. \A i \in 1..Len(content) : (IF content[i].kind = kind THEN <<content[i]>> ELSE << >>) = OnlyKind(kind)[content[i]]
    BY ElementOfSeq DEF Only, OnlyKind
  <2>3. [i \in 1..Len(content) |-> IF content[i].kind = kind THEN <<content[i]>> ELSE << >>]
          = [i \in 1..Len(content) |-> OnlyKind(kind)[content[i]]]
    BY <2>2
  <2>4. OfKind(content, kind) = FlatMap(OnlyKind(kind), content)
    BY <2>3, Zenon DEF FlatMap, OfKind, Filter
  <2> QED BY <2>1, <2>4
<1>2. \A b \in AnswerBlocks : \/ OnlyKind("text")[b] = <<b>> /\ OnlyKind("toolUse")[b] = << >>
                              \/ OnlyKind("text")[b] = << >> /\ OnlyKind("toolUse")[b] = <<b>>
  <2>1. \A b \in AnswerBlocks : b.kind \in {"text", "toolUse"}
    BY DEF AnswerBlocks, SpokenBlocks
  <2> QED BY <2>1 DEF Only, OnlyKind
<1>3. \A s \in Seq(AnswerBlocks) : texts(s) \in Seq(AnswerBlocks) /\ calls(s) \in Seq(AnswerBlocks)
  BY <1>1, FlatMapType
<1>4. ASSUME NEW s \in Seq(AnswerBlocks), NEW b \in AnswerBlocks
      PROVE  texts(Append(s, b)) = texts(s) \o OnlyKind("text")[b] /\ calls(Append(s, b)) = calls(s) \o OnlyKind("toolUse")[b]
  BY KindAppend
<1>5. << >> \in P
  <2> DEFINE none == << >>
  <2>1. texts(none) = none /\ calls(none) = none /\ Len(none) = 0 /\ none \in Seq(AnswerBlocks)
    BY FlatMapNone, EmptySeq
  <2> HIDE DEF none, texts, calls
  <2>2. none \in P
    BY <2>1
  <2> QED BY <2>2 DEF none
<1>6. ASSUME NEW s \in Seq(AnswerBlocks), NEW b \in AnswerBlocks, s \in P PROVE Append(s, b) \in P
  <2> DEFINE a == Append(s, b)
  <2>1. texts(a) = texts(s) \o OnlyKind("text")[b] /\ calls(a) = calls(s) \o OnlyKind("toolUse")[b]
    BY <1>4
  <2>2. texts(s) \in Seq(AnswerBlocks) /\ calls(s) \in Seq(AnswerBlocks)
    BY <1>3
  <2> DEFINE t == texts(s)
             c == calls(s)
  <2>3. ToSet(t) \cup ToSet(c) = ToSet(s) /\ Len(t) + Len(c) = Len(s) /\ t \in Seq(AnswerBlocks) /\ c \in Seq(AnswerBlocks)
    BY <1>6, <2>2
  <2>4. \/ texts(a) = t \o <<b>> /\ calls(a) = c \o << >>
        \/ texts(a) = t \o << >> /\ calls(a) = c \o <<b>>
    BY <1>2, <2>1
  <2> HIDE DEF t, c, texts, calls, a
  <2>5. a \in Seq(AnswerBlocks) /\ ToSet(a) = ToSet(s) \cup {b} /\ Len(a) = Len(s) + 1 /\ Len(s) \in Nat
    BY ElementsMore DEF a
  <2>6. t \o <<b>> = Append(t, b) /\ ToSet(Append(t, b)) = ToSet(t) \cup {b} /\ Len(Append(t, b)) = Len(t) + 1 /\ Len(t) \in Nat /\ t \o << >> = t
    BY <2>3, ElementsMore
  <2>7. c \o <<b>> = Append(c, b) /\ ToSet(Append(c, b)) = ToSet(c) \cup {b} /\ Len(Append(c, b)) = Len(c) + 1 /\ Len(c) \in Nat /\ c \o << >> = c
    BY <2>3, ElementsMore
  <2>8. ToSet(texts(a)) \cup ToSet(calls(a)) = ToSet(a) /\ Len(texts(a)) + Len(calls(a)) = Len(a)
    <3>1. CASE texts(a) = Append(t, b) /\ calls(a) = c
      BY <2>3, <2>5, <2>6, <3>1
    <3>2. CASE texts(a) = t /\ calls(a) = Append(c, b)
      BY <2>3, <2>5, <2>7, <3>2
    <3> QED BY <2>4, <2>6, <2>7, <3>1, <3>2
  <2>9. a \in P
    BY <2>5, <2>8
  <2> QED BY <2>9 DEF a
<1> HIDE DEF P
<1>7. \A s \in Seq(AnswerBlocks) : s \in P
  BY <1>5, <1>6, SeqInduction
<1>8. ToSet(texts(content)) \cup ToSet(calls(content)) = ToSet(content) /\ Len(texts(content)) + Len(calls(content)) = Len(content)
  BY <1>7 DEF P
<1>9. OpenAIAnswer(content) = texts(content) \o calls(content)
  BY <1>1 DEF OpenAIAnswer
<1>10. texts(content) \in Seq(AnswerBlocks) /\ calls(content) \in Seq(AnswerBlocks)
  BY <1>3
<1> DEFINE t == texts(content)
           c == calls(content)
<1>11. /\ t \in Seq(AnswerBlocks) /\ c \in Seq(AnswerBlocks) /\ OpenAIAnswer(content) = t \o c
       /\ ToSet(t) \cup ToSet(c) = ToSet(content) /\ Len(t) + Len(c) = Len(content)
  BY <1>8, <1>9, <1>10, Zenon
<1> HIDE DEF t, c
<1>12. t \o c \in Seq(AnswerBlocks) /\ Len(t \o c) = Len(t) + Len(c) /\ ToSet(t \o c) = ToSet(t) \cup ToSet(c)
  BY <1>11, ElementsJoin, ConcatProperties
<1> QED BY <1>11, <1>12

LEMMA AnswerKept ==
  ASSUME NEW answer \in Answers
  PROVE  LET content == ResponsesContent(answer.items)
             said == AnsweredIds(answer.items)
         IN /\ Ids(AnthropicAnswer(content)) = said
            /\ ToSet(Ids(OpenAIAnswer(content))) = ToSet(said) /\ Len(OpenAIAnswer(content)) = Len(said)
<1> DEFINE items == answer.items
           content == ResponsesContent(items)
           said == AnsweredIds(items)
           reply == OpenAIAnswer(content)
<1>1. items \in Seq(ProviderItems)
  <2> DEFINE T == [type : STRING, ids : Seq(STRING)]
             n == Len(items)
  <2>1. items \in Seq(T) /\ \A i \in 1..n : items[i].type = "function_call" => Len(items[i].ids) = 1
    BY ConversationsAssumption
  <2>2. n \in Nat /\ items = [i \in 1..n |-> items[i]] /\ \A i \in 1..n : items[i] \in T
    BY <2>1, LenProperties, ElementOfSeq
  <2> HIDE DEF T, items, n
  <2>3. \A i \in 1..n : items[i] \in ProviderItems
    BY <2>1, <2>2 DEF ProviderItems, T
  <2> QED BY <2>2, <2>3, MadeOf
<1> HIDE DEF items
<1>2. content \in Seq(AnswerBlocks) /\ FlatMap(IdOf, content) = said
  BY <1>1, ContentKept
<1> HIDE DEF content, said
<1>3. AnthropicAnswer(content) = content
  BY <1>2, AnthropicAnswers
<1>4. reply \in Seq(AnswerBlocks) /\ ToSet(reply) = ToSet(content) /\ Len(reply) = Len(content)
  BY <1>2, OpenAIAnswers
<1> HIDE DEF reply
<1>5. content \in Seq(Blocks) /\ reply \in Seq(Blocks)
  BY <1>2, <1>4, AnswerBlocksAre
<1>6. Ids(content) = said
  BY <1>2, <1>5, IdsAre
<1>7. ToSet(Ids(reply)) = ToSet(said) /\ Len(reply) = Len(said)
  <2>1. ToSet(Ids(reply)) = {b.id : b \in ToSet(reply)}
    BY <1>5, ElementsOfIds
  <2>2. ToSet(said) = {b.id : b \in ToSet(content)} /\ Len(said) = Len(content)
    BY <1>5, <1>6, ElementsOfIds
  <2> QED BY <1>4, <2>1, <2>2
<1> QED BY <1>3, <1>6, <1>7 DEF items, content, said, reply

(***************************************************************************)
(* The body in the handler's hands is one that was asked or answered.         *)
(***************************************************************************)
BodyInv ==
  /\ dialect \in Dialects
  /\ body.stage = "request" => body.messages \in Asks[dialect]
  /\ body.stage = "answer" => body.answer \in Answers

LEMMA BodyInit == Init => BodyInv
<1>1. Init => body = NoBody /\ dialect \in Dialects
  BY Zenon DEF Init
<1>2. NoBody.stage = "none"
  BY DEF NoBody
<1> QED BY <1>1, <1>2 DEF BodyInv

LEMMA BodyMoves ==
  Next => /\ dialect' = dialect
          /\ \/ body' = body
             \/ body' = NoBody
             \/ \E messages \in Asks[dialect] : body' = [stage |-> "request", messages |-> messages]
             \/ \E answer \in Answers : body' = [stage |-> "answer", answer |-> answer]
<1> SUFFICES ASSUME Next
             PROVE  /\ dialect' = dialect
                    /\ \/ body' = body
                       \/ body' = NoBody
                       \/ \E messages \in Asks[dialect] : body' = [stage |-> "request", messages |-> messages]
                       \/ \E answer \in Answers : body' = [stage |-> "answer", answer |-> answer]
  OBVIOUS
<1>1. CASE TakeRequest
  BY <1>1, Zenon DEF TakeRequest, choice
<1>2. CASE RejectRequest
  BY <1>2, Zenon DEF RejectRequest, choice
<1>3. CASE SendRequest
  BY <1>3, Zenon DEF SendRequest, choice
<1>4. CASE ReceiveAnswer
  BY <1>4, Zenon DEF ReceiveAnswer, choice
<1>5. CASE ReturnAnswer
  BY <1>5, Zenon DEF ReturnAnswer, choice
<1>6. CASE CallFails
  BY <1>6, Zenon DEF CallFails, choice
<1>7. CASE ReadBedrock
  BY <1>7, Zenon DEF ReadBedrock, choice
<1>8. CASE ReadMantle
  BY <1>8, Zenon DEF ReadMantle, choice
<1>9. CASE Deliver
  BY <1>9, Zenon DEF Deliver, choice
<1>10. CASE WriteFails
  BY <1>10, Zenon DEF WriteFails, choice
<1>11. CASE BodyEnds
  BY <1>11, Zenon DEF BodyEnds, choice
<1>12. CASE ReadFails
  BY <1>12, Zenon DEF ReadFails, choice
<1>13. CASE HangUp
  BY <1>13, Zenon DEF HangUp, choice
<1>14. CASE Finished
  BY <1>14, Zenon DEF Finished, vars, choice
<1> QED BY <1>1, <1>2, <1>3, <1>4, <1>5, <1>6, <1>7, <1>8, <1>9, <1>10, <1>11, <1>12, <1>13, <1>14 DEF Next

LEMMA BodyNext == BodyInv /\ [Next]_vars => BodyInv'
<1> SUFFICES ASSUME BodyInv, [Next]_vars PROVE BodyInv'
  OBVIOUS
<1>1. CASE UNCHANGED vars
  BY <1>1 DEF vars, choice, BodyInv
<1>2. CASE Next
  <2>1. dialect' = dialect
    BY <1>2, BodyMoves
  <2>2. CASE body' = body
    BY <2>1, <2>2 DEF BodyInv
  <2>3. CASE body' = NoBody
    BY <2>1, <2>3 DEF BodyInv, NoBody
  <2>4. CASE \E messages \in Asks[dialect] : body' = [stage |-> "request", messages |-> messages]
    BY <2>1, <2>4 DEF BodyInv
  <2>5. CASE \E answer \in Answers : body' = [stage |-> "answer", answer |-> answer]
    BY <2>1, <2>5 DEF BodyInv
  <2> QED BY <1>2, <2>2, <2>3, <2>4, <2>5, BodyMoves
<1> QED BY <1>1, <1>2

LEMMA BodyKept == BodyInv => ConversationKept
<1> SUFFICES ASSUME BodyInv PROVE ConversationKept
  OBVIOUS
<1>1. ASSUME body.stage = "request", Valid(body.messages) PROVE AllKept(body.messages)
  <2> DEFINE messages == body.messages
  <2>1. messages \in Asks[dialect] /\ dialect \in Dialects /\ Valid(messages)
    BY <1>1 DEF BodyInv
  <2> HIDE DEF messages
  <2>2. AllKept(messages)
    BY <2>1, RequestKept
  <2> QED BY <2>2 DEF messages
<1>2. ASSUME body.stage = "answer"
      PROVE  LET content == ResponsesContent(body.answer.items)
                 said == AnsweredIds(body.answer.items)
             IN /\ Ids(AnthropicAnswer(content)) = said
                /\ ToSet(Ids(OpenAIAnswer(content))) = ToSet(said) /\ Len(OpenAIAnswer(content)) = Len(said)
  <2> DEFINE answer == body.answer
  <2>1. answer \in Answers
    BY <1>2 DEF BodyInv
  <2> HIDE DEF answer
  <2>2. LET content == ResponsesContent(answer.items)
            said == AnsweredIds(answer.items)
        IN /\ Ids(AnthropicAnswer(content)) = said
           /\ ToSet(Ids(OpenAIAnswer(content))) = ToSet(said) /\ Len(OpenAIAnswer(content)) = Len(said)
    BY <2>1, AnswerKept
  <2> QED BY <2>2 DEF answer
<1> QED BY <1>1, <1>2, Zenon DEF ConversationKept, AllKept, ResultsApart

(***************************************************************************)
(* Every conversation, of any length and in any of the dialects, reaches the  *)
(* provider complete and in order, as Converse messages and as Responses      *)
(* input, and every answer reaches the client so: ToConverse, ConverseTo-     *)
(* ResponsesInput, and the answers' translations.                             *)
(***************************************************************************)
THEOREM ConversationIsKept == Spec => []ConversationKept
<1>1. Init => BodyInv
  BY BodyInit
<1>2. BodyInv /\ [Next]_vars => BodyInv'
  BY BodyNext
<1>3. BodyInv => ConversationKept
  BY BodyKept
<1> QED BY <1>1, <1>2, <1>3, PTL DEF Spec
=============================================================================
