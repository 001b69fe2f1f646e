------------------------ MODULE PartialSumsTheorems ------------------------
(***************************************************************************)
(* The facts about SumTo that the accounting proofs cite: it exists, adding  *)
(* functions adds sums, one row that changes changes the sum by as much,     *)
(* and a sum of naturals is a natural.                                       *)
(***************************************************************************)
EXTENDS PartialSums, WellFoundedInduction, TLAPS

(***************************************************************************)
(* Induction over a set of naturals.  It follows from the existence of a     *)
(* minimal element of a non-empty set, which, unlike the library's            *)
(* induction theorems, takes no operator as a parameter.                      *)
(***************************************************************************)
LEMMA SetInduction ==
  ASSUME NEW S, 0 \in S, \A n \in Nat : n \in S => n+1 \in S
  PROVE  \A n \in Nat : n \in S
<1> DEFINE T == Nat \ S
           L == OpToRel(<, Nat)
<1>1. SUFFICES ASSUME T # {} PROVE FALSE
  OBVIOUS
<1>2. IsWellFoundedOn(L, Nat)
  BY NatLessThanWellFounded
<1>3. T \subseteq Nat
  OBVIOUS
<1> HIDE DEF T, L
<1>4. PICK m \in T : \A k \in T : ~ (<<k, m>> \in L)
  BY <1>1, <1>2, <1>3, WFMin
<1>5. m \in Nat /\ m \notin S /\ m # 0
  BY <1>4 DEF T
<1>6. m-1 \in Nat /\ <<m-1, m>> \in L
  BY <1>5 DEF L, OpToRel
<1>7. m-1 \in S
  BY <1>4, <1>6 DEF T
<1>8. (m-1)+1 \in S
  BY <1>6, <1>7
<1> QED
  BY <1>5, <1>8

(***************************************************************************)
(* A function satisfying the equations of Partials exists for every n.       *)
(***************************************************************************)
LEMMA PartialsExist ==
  ASSUME NEW f
  PROVE  \A n \in Nat : \E p : p = [i \in 0..n |-> IF i = 0 THEN 0 ELSE p[i-1] + f[i]]
<1> DEFINE S == {n \in Nat : \E p : p = [i \in 0..n |-> IF i = 0 THEN 0 ELSE p[i-1] + f[i]]}
<1>1. 0 \in S
  <2> DEFINE p == [i \in 0..0 |-> 0]
  <2>1. p = [i \in 0..0 |-> IF i = 0 THEN 0 ELSE p[i-1] + f[i]]
    OBVIOUS
  <2> HIDE DEF p
  <2> QED BY <2>1
<1>2. ASSUME NEW n \in Nat, n \in S PROVE n+1 \in S
  <2>1. PICK p : p = [i \in 0..n |-> IF i = 0 THEN 0 ELSE p[i-1] + f[i]]
    BY <1>2
  <2> DEFINE q == [i \in 0..(n+1) |-> IF i = n+1 THEN p[n] + f[n+1] ELSE p[i]]
  <2>2. ASSUME NEW i \in 0..(n+1)
        PROVE  q[i] = IF i = 0 THEN 0 ELSE q[i-1] + f[i]
    <3>1. CASE i = n+1
      BY <3>1
    <3>2. CASE i # n+1 /\ i # 0
      <4>1. i \in 0..n /\ i-1 \in 0..n
        BY <3>2
      <4>2. p[i] = p[i-1] + f[i]
        BY <2>1, <4>1, <3>2
      <4> QED BY <4>1, <4>2, <3>2
    <3>3. CASE i = 0
      <4>1. 0 \in 0..n /\ 0 # n+1
        OBVIOUS
      <4>2. p[0] = 0
        BY <2>1, <4>1
      <4> QED BY <3>3, <4>1, <4>2
    <3> QED BY <3>1, <3>2, <3>3
  <2>3. q = [i \in 0..(n+1) |-> IF i = 0 THEN 0 ELSE q[i-1] + f[i]]
    BY <2>2
  <2> HIDE DEF q
  <2>4. \E r : r = [i \in 0..(n+1) |-> IF i = 0 THEN 0 ELSE r[i-1] + f[i]]
    BY <2>3
  <2> QED BY <2>4
<1> HIDE DEF S
<1>3. \A n \in Nat : n \in S
  BY <1>1, <1>2, SetInduction
<1> QED BY <1>3 DEF S

LEMMA PartialsEquation ==
  ASSUME NEW f, NEW n \in Nat
  PROVE  Partials(f, n) = [i \in 0..n |-> IF i = 0 THEN 0 ELSE Partials(f, n)[i-1] + f[i]]
<1>1. \E p : p = [i \in 0..n |-> IF i = 0 THEN 0 ELSE p[i-1] + f[i]]
  BY PartialsExist
<1> QED BY <1>1, Zenon DEF Partials

(***************************************************************************)
(* A sequence of running totals ends in the sum: the equations of Partials   *)
(* have one solution, so a witness for them is the sum.                       *)
(***************************************************************************)
LEMMA RunningTotal ==
  ASSUME NEW f, NEW n \in Nat, NEW p,
         p[0] = 0, \A i \in 1..n : p[i] = p[i-1] + f[i]
  PROVE  \A i \in 0..n : Partials(f, n)[i] = p[i]
<1> DEFINE q == Partials(f, n)
           S == {i \in Nat : i <= n => q[i] = p[i]}
<1>1. \A i \in 0..n : q[i] = IF i = 0 THEN 0 ELSE q[i-1] + f[i]
  BY PartialsEquation
<1> HIDE DEF q
<1>2. 0 \in S
  BY <1>1
<1>3. ASSUME NEW i \in Nat, i \in S PROVE i+1 \in S
  <2>1. SUFFICES ASSUME i+1 <= n PROVE q[i+1] = p[i+1]
    OBVIOUS
  <2>2. q[i+1] = q[i] + f[i+1] /\ p[i+1] = p[i] + f[i+1]
    BY <1>1, <2>1, i+1 \in 1..n, i+1 \in 0..n, (i+1)-1 = i
  <2>3. q[i] = p[i]
    BY <1>3, <2>1
  <2> QED BY <2>2, <2>3
<1> HIDE DEF S
<1>4. \A i \in Nat : i \in S
  BY <1>2, <1>3, SetInduction
<1>5. \A i \in 0..n : q[i] = p[i]
  BY <1>4 DEF S
<1> QED BY <1>5 DEF q

LEMMA PartialsType ==
  ASSUME NEW n \in Nat, NEW f, \A i \in 1..n : f[i] \in Int
  PROVE  /\ Partials(f, n) \in [0..n -> Int]
         /\ Partials(f, n)[0] = 0
         /\ \A i \in 1..n : Partials(f, n)[i] = Partials(f, n)[i-1] + f[i]
<1> DEFINE q == Partials(f, n)
           S == {i \in Nat : i <= n => q[i] \in Int}
<1>1. q = [i \in 0..n |-> IF i = 0 THEN 0 ELSE q[i-1] + f[i]]
  BY PartialsEquation
<1> HIDE DEF q
<1>2. q[0] = 0 /\ \A i \in 1..n : q[i] = q[i-1] + f[i]
  <2>1. \A i \in 0..n : q[i] = IF i = 0 THEN 0 ELSE q[i-1] + f[i]
    BY <1>1
  <2> QED BY <2>1
<1>3. 0 \in S
  BY <1>2
<1>4. ASSUME NEW i \in Nat, i \in S PROVE i+1 \in S
  <2>1. SUFFICES ASSUME i+1 <= n PROVE q[i+1] \in Int
    OBVIOUS
  <2>2. i+1 \in 1..n /\ (i+1)-1 = i
    BY <2>1
  <2>3. q[i+1] = q[i] + f[i+1] /\ f[i+1] \in Int
    BY <1>2, <2>2
  <2>4. q[i] \in Int
    BY <1>4, <2>1
  <2> QED BY <2>3, <2>4
<1> HIDE DEF S
<1>5. \A i \in Nat : i \in S
  BY <1>3, <1>4, SetInduction
<1>6. \A i \in 0..n : q[i] \in Int
  BY <1>5 DEF S
<1>7. q \in [0..n -> Int]
  BY <1>1, <1>6
<1> QED BY <1>2, <1>7 DEF q

LEMMA SumType ==
  ASSUME NEW n \in Nat, NEW f, \A i \in 1..n : f[i] \in Int
  PROVE  SumTo(f, n) \in Int
BY PartialsType DEF SumTo

LEMMA SumOfRunningTotal ==
  ASSUME NEW f, NEW n \in Nat, NEW p,
         p[0] = 0, \A i \in 1..n : p[i] = p[i-1] + f[i]
  PROVE  SumTo(f, n) = p[n]
BY RunningTotal, n \in 0..n DEF SumTo

(***************************************************************************)
(* Sums are additive.                                                         *)
(***************************************************************************)
LEMMA SumAdds ==
  ASSUME NEW n \in Nat, NEW f, NEW g, NEW h,
         \A i \in 1..n : f[i] \in Int /\ g[i] \in Int /\ h[i] = f[i] + g[i]
  PROVE  SumTo(h, n) = SumTo(f, n) + SumTo(g, n)
<1> DEFINE p == Partials(f, n)
           q == Partials(g, n)
           r == [i \in 0..n |-> p[i] + q[i]]
<1>1. /\ p \in [0..n -> Int] /\ p[0] = 0
      /\ \A i \in 1..n : p[i] = p[i-1] + f[i]
  BY PartialsType
<1>2. /\ q \in [0..n -> Int] /\ q[0] = 0
      /\ \A i \in 1..n : q[i] = q[i-1] + g[i]
  BY PartialsType
<1> HIDE DEF p, q
<1>3. r[0] = 0
  BY <1>1, <1>2
<1>4. ASSUME NEW i \in 1..n PROVE r[i] = r[i-1] + h[i]
  <2>1. i \in 0..n /\ i-1 \in 0..n
    OBVIOUS
  <2>2. p[i-1] \in Int /\ q[i-1] \in Int
    BY <1>1, <1>2, <2>1
  <2>3. r[i] = p[i] + q[i] /\ r[i-1] = p[i-1] + q[i-1]
    BY <2>1
  <2>4. p[i] = p[i-1] + f[i] /\ q[i] = q[i-1] + g[i]
    BY <1>1, <1>2
  <2> HIDE DEF r
  <2> QED BY <2>2, <2>3, <2>4
<1> HIDE DEF r
<1>5. SumTo(h, n) = r[n]
  BY <1>3, <1>4, SumOfRunningTotal
<1>6. r[n] = p[n] + q[n]
  BY n \in 0..n DEF r
<1> QED BY <1>5, <1>6 DEF SumTo, p, q

(***************************************************************************)
(* What moves between two pairs of functions, row by row, leaves the total    *)
(* of the pair as it is.                                                      *)
(***************************************************************************)
LEMMA SumExchange ==
  ASSUME NEW n \in Nat, NEW f, NEW g, NEW h, NEW k,
         \A i \in 1..n : f[i] \in Int /\ g[i] \in Int /\ h[i] \in Int /\ k[i] \in Int,
         \A i \in 1..n : f[i] + g[i] = h[i] + k[i]
  PROVE  SumTo(f, n) + SumTo(g, n) = SumTo(h, n) + SumTo(k, n)
<1> DEFINE s == [i \in 1..n |-> f[i] + g[i]]
<1>1. \A i \in 1..n : f[i] \in Int /\ g[i] \in Int /\ s[i] = f[i] + g[i]
  OBVIOUS
<1>2. \A i \in 1..n : h[i] \in Int /\ k[i] \in Int /\ s[i] = h[i] + k[i]
  OBVIOUS
<1> HIDE DEF s
<1>3. SumTo(s, n) = SumTo(f, n) + SumTo(g, n)
  BY <1>1, SumAdds
<1>4. SumTo(s, n) = SumTo(h, n) + SumTo(k, n)
  BY <1>2, SumAdds
<1> QED BY <1>3, <1>4

(***************************************************************************)
(* A function with one row that is not zero sums to that row.                *)
(***************************************************************************)
LEMMA SumOfOne ==
  ASSUME NEW n \in Nat, NEW f, NEW k \in 1..n, f[k] \in Int,
         \A i \in 1..n : i # k => f[i] = 0
  PROVE  SumTo(f, n) = f[k]
<1> DEFINE r == [i \in 0..n |-> IF i < k THEN 0 ELSE f[k]]
<1>1. r[0] = 0
  OBVIOUS
<1>2. ASSUME NEW i \in 1..n PROVE r[i] = r[i-1] + f[i]
  <2>1. i \in 0..n /\ i-1 \in 0..n
    OBVIOUS
  <2>2. CASE i < k   BY <2>1, <2>2
  <2>3. CASE i = k   BY <2>1, <2>3
  <2>4. CASE i > k   BY <2>1, <2>4
  <2> QED BY <2>2, <2>3, <2>4
<1>3. r[n] = f[k]
  BY n \in 0..n
<1> HIDE DEF r
<1> QED BY <1>1, <1>2, <1>3, SumOfRunningTotal

LEMMA SumOfNone ==
  ASSUME NEW n \in Nat, NEW f, \A i \in 1..n : f[i] = 0
  PROVE  SumTo(f, n) = 0
<1> DEFINE r == [i \in 0..n |-> 0]
<1>1. r[0] = 0 /\ r[n] = 0 /\ \A i \in 1..n : r[i] = r[i-1] + f[i]
  OBVIOUS
<1> HIDE DEF r
<1> QED BY <1>1, SumOfRunningTotal

(***************************************************************************)
(* When one row changes, the sum changes by as much.                          *)
(***************************************************************************)
LEMMA SumUpdate ==
  ASSUME NEW n \in Nat, NEW f, NEW g, NEW k \in 1..n,
         \A i \in 1..n : f[i] \in Int /\ g[i] \in Int,
         \A i \in 1..n : i # k => g[i] = f[i]
  PROVE  SumTo(g, n) = SumTo(f, n) + g[k] - f[k]
<1> DEFINE d == [i \in 1..n |-> IF i = k THEN g[k] - f[k] ELSE 0]
<1>1. \A i \in 1..n : f[i] \in Int /\ d[i] \in Int /\ g[i] = f[i] + d[i]
  OBVIOUS
<1>2. d[k] \in Int /\ \A i \in 1..n : i # k => d[i] = 0
  OBVIOUS
<1>3. d[k] = g[k] - f[k]
  OBVIOUS
<1> HIDE DEF d
<1>4. SumTo(d, n) = d[k]
  BY <1>2, SumOfOne
<1>5. SumTo(g, n) = SumTo(f, n) + SumTo(d, n)
  BY <1>1, SumAdds
<1>6. SumTo(f, n) \in Int /\ f[k] \in Int /\ g[k] \in Int
  BY SumType
<1> QED BY <1>3, <1>4, <1>5, <1>6

LEMMA SumSame ==
  ASSUME NEW n \in Nat, NEW f, NEW g,
         \A i \in 1..n : f[i] \in Int,
         \A i \in 1..n : g[i] = f[i]
  PROVE  SumTo(g, n) = SumTo(f, n)
<1> DEFINE p == Partials(f, n)
<1>1. p[0] = 0 /\ \A i \in 1..n : p[i] = p[i-1] + f[i]
  BY PartialsType
<1> HIDE DEF p
<1>2. \A i \in 1..n : p[i] = p[i-1] + g[i]
  BY <1>1
<1>3. SumTo(g, n) = p[n]
  BY <1>1, <1>2, SumOfRunningTotal
<1> QED BY <1>3 DEF p, SumTo

(***************************************************************************)
(* A sum of naturals is a natural.                                            *)
(***************************************************************************)
LEMMA SumNat ==
  ASSUME NEW n \in Nat, NEW f, \A i \in 1..n : f[i] \in Nat
  PROVE  SumTo(f, n) \in Nat
<1> DEFINE p == Partials(f, n)
           S == {i \in Nat : i <= n => p[i] \in Nat}
<1>1. p[0] = 0 /\ \A i \in 1..n : p[i] = p[i-1] + f[i]
  BY PartialsType
<1> HIDE DEF p
<1>2. 0 \in S
  BY <1>1
<1>3. ASSUME NEW i \in Nat, i \in S PROVE i+1 \in S
  <2>1. SUFFICES ASSUME i+1 <= n PROVE p[i+1] \in Nat
    OBVIOUS
  <2>2. i+1 \in 1..n /\ (i+1)-1 = i
    BY <2>1
  <2>3. p[i+1] = p[i] + f[i+1] /\ f[i+1] \in Nat /\ p[i] \in Nat
    BY <1>1, <1>3, <2>1, <2>2
  <2> QED BY <2>3
<1> HIDE DEF S
<1>4. \A i \in Nat : i \in S
  BY <1>2, <1>3, SetInduction
<1>5. p[n] \in Nat
  BY <1>4 DEF S
<1> QED BY <1>5 DEF p, SumTo
=============================================================================
