------------------------------ MODULE NatFacts ------------------------------
(***************************************************************************)
(* Facts about natural numbers that the proofs of several components rest  *)
(* on: induction, running sums, and division that rounds up.               *)
(*                                                                         *)
(* Induction is stated for a set in place of a predicate, so that it is    *)
(* first order and within reach of the provers; it follows from the        *)
(* library's fact that < is well founded on Nat.  What the models define   *)
(* by recursion is shown to exist, and to be what it should, by taking for *)
(* the set the numbers up to which that is so.                             *)
(***************************************************************************)
EXTENDS Integers, WellFoundedInduction, TLAPS

Less == {p \in Nat \X Nat : p[1] < p[2]}

\* The order of the natural numbers, as a set of pairs, is well founded.
LEMMA LessIsWellFounded == IsWellFoundedOn(Less, Nat)
BY NatLessThanWellFounded DEF OpToRel, Less

\* A set that holds 0, and n + 1 with every n, holds every natural number.
THEOREM NatInSet ==
  ASSUME NEW S, 0 \in S, \A n \in Nat : n \in S => n + 1 \in S
  PROVE  Nat \subseteq S
<1> DEFINE Outside == Nat \ S
<1> SUFFICES ASSUME Outside # {} PROVE FALSE
  OBVIOUS
<1>1. \E n \in Outside : \A m \in Outside : <<m, n>> \notin Less
  <2>1. Outside \subseteq Nat
    OBVIOUS
  <2> HIDE DEF Outside
  <2> QED BY <2>1, LessIsWellFounded, WFMin
<1>2. PICK n \in Outside : \A m \in Outside : ~(m < n)
  BY <1>1 DEF Less
<1>3. n - 1 \in Nat /\ n - 1 < n
  BY <1>2
<1>4. n - 1 \in S
  BY <1>2, <1>3
<1> QED BY <1>2, <1>3, <1>4

\* The running sums of n numbers exist: the recursion that defines them has a
\* solution.
THEOREM RunningSumsExist ==
  ASSUME NEW g, NEW n \in Nat
  PROVE  \E f : f = [k \in 1 .. n + 1 |-> IF k = 1 THEN 0 ELSE f[k - 1] + g[k - 1]]
<1> DEFINE S == {m \in Nat :
             \E f : f = [k \in 1 .. m + 1 |-> IF k = 1 THEN 0 ELSE f[k - 1] + g[k - 1]]}
<1>1. 0 \in S
  <2> DEFINE f == [k \in 1 .. 1 |-> 0]
  <2>1. f = [k \in 1 .. 0 + 1 |-> IF k = 1 THEN 0 ELSE f[k - 1] + g[k - 1]]
    OBVIOUS
  <2> QED BY <2>1
<1>2. ASSUME NEW m \in Nat, m \in S PROVE m + 1 \in S
  <2>1. PICK f : f = [k \in 1 .. m + 1 |-> IF k = 1 THEN 0 ELSE f[k - 1] + g[k - 1]]
    BY <1>2
  <2> DEFINE h == [k \in 1 .. m + 2 |-> IF k = m + 2 THEN f[m + 1] + g[m + 1] ELSE f[k]]
  <2>2. h = [k \in 1 .. m + 2 |-> IF k = 1 THEN 0 ELSE h[k - 1] + g[k - 1]]
    <3>1. \A k \in 1 .. m + 2 : h[k] = IF k = 1 THEN 0 ELSE h[k - 1] + g[k - 1]
      <4> SUFFICES ASSUME NEW k \in 1 .. m + 2
                   PROVE  h[k] = IF k = 1 THEN 0 ELSE h[k - 1] + g[k - 1]
        OBVIOUS
      <4>1. CASE k = m + 2
        BY <4>1
      <4>2. CASE k \in 1 .. m + 1
        <5>1. h[k] = f[k] /\ (k # 1 => h[k - 1] = f[k - 1])
          BY <4>2
        <5>2. f[k] = IF k = 1 THEN 0 ELSE f[k - 1] + g[k - 1]
          BY <2>1, <4>2
        <5> QED BY <5>1, <5>2
      <4> QED BY <4>1, <4>2
    <3> QED BY <3>1
  <2>3. (m + 1) + 1 = m + 2 /\ m + 1 \in Nat
    OBVIOUS
  <2> HIDE DEF h
  <2>4. h = [k \in 1 .. (m + 1) + 1 |-> IF k = 1 THEN 0 ELSE h[k - 1] + g[k - 1]]
    BY <2>2, <2>3
  <2> QED BY <2>3, <2>4
<1>3. n \in S
  <2> HIDE DEF S
  <2> QED BY <1>1, <1>2, NatInSet
<1> QED BY <1>3
\* f begins with a and goes on by g, within S.
Recursion(f, S, a, g) ==
  f \in [Nat -> S] /\ f[0] = a /\ \A n \in Nat : f[n + 1] = g[<<n, f[n]>>]

\* A function of the numbers by recursion over a set: it exists.
THEOREM NatRecursionExists ==
  ASSUME NEW S, NEW a \in S, NEW g, \A n \in Nat, s \in S : g[<<n, s>>] \in S
  PROVE  \E f : Recursion(f, S, a, g)
<1> DEFINE Upto(m, f) == /\ f \in [0 .. m -> S] /\ f[0] = a
                         /\ \A n \in 0 .. m - 1 : f[n + 1] = g[<<n, f[n]>>]
           Done == {m \in Nat : \E f : Upto(m, f)}
<1>1. 0 \in Done
  <2>1. Upto(0, [k \in 0 .. 0 |-> a])
    OBVIOUS
  <2> HIDE DEF Upto
  <2> QED BY <2>1
<1>2. ASSUME NEW m \in Nat, m \in Done PROVE m + 1 \in Done
  <2>1. PICK f : Upto(m, f)
    BY <1>2
  <2> DEFINE h == [k \in 0 .. m + 1 |-> IF k = m + 1 THEN g[<<m, f[m]>>] ELSE f[k]]
  <2>2. h \in [0 .. m + 1 -> S]
    <3>1. g[<<m, f[m]>>] \in S
      BY <2>1
    <3>2. \A k \in 0 .. m + 1 : k # m + 1 => f[k] \in S
      BY <2>1
    <3> QED BY <3>1, <3>2
  <2>3. ASSUME NEW n \in 0 .. (m + 1) - 1 PROVE h[n + 1] = g[<<n, h[n]>>]
    <3>1. n + 1 \in 0 .. m + 1 /\ n \in 0 .. m /\ h[n] = f[n]
      OBVIOUS
    <3>2. CASE n = m
      BY <3>1, <3>2
    <3>3. CASE n # m
      <4>1. n \in 0 .. m - 1 /\ h[n + 1] = f[n + 1]
        BY <3>3
      <4> QED BY <2>1, <3>1, <4>1
    <3> QED BY <3>2, <3>3
  <2>4. h[0] = a
    BY <2>1
  <2>5. Upto(m + 1, h)
    BY <2>2, <2>3, <2>4
  <2> HIDE DEF Upto
  <2> QED BY <2>5
<1>3. ASSUME NEW m \in Nat PROVE \E f : Upto(m, f)
  <2> HIDE DEF Upto
  <2>1. Nat \subseteq Done
    <3> HIDE DEF Done
    <3> QED BY <1>1, <1>2, NatInSet
  <2> QED BY <2>1
<1> DEFINE F == [m \in Nat |-> CHOOSE f : Upto(m, f)]
<1>4. ASSUME NEW m \in Nat PROVE Upto(m, F[m])
  <2> HIDE DEF Upto
  <2> QED BY <1>3
<1> HIDE DEF F
\* The longer solutions extend the shorter ones.
<1>5. ASSUME NEW m \in Nat, NEW n \in Nat, n <= m PROVE F[n][n] = F[m][n]
  <2> DEFINE Same == {k \in Nat : k <= n => F[n][k] = F[m][k]}
  <2>1. 0 \in Same
    BY <1>4
  <2>2. ASSUME NEW k \in Nat, k \in Same PROVE k + 1 \in Same
    <3> SUFFICES ASSUME k + 1 <= n PROVE F[n][k + 1] = F[m][k + 1]
      OBVIOUS
    <3>1. k \in 0 .. n - 1 /\ k \in 0 .. m - 1 /\ F[n][k] = F[m][k]
      BY <1>5, <2>2
    <3>2. F[n][k + 1] = g[<<k, F[n][k]>>]
      BY <1>4, <3>1
    <3>3. F[m][k + 1] = g[<<k, F[m][k]>>]
      BY <1>4, <3>1
    <3> QED BY <3>1, <3>2, <3>3
  <2>3. Nat \subseteq Same
    <3> HIDE DEF Same
    <3> QED BY <2>1, <2>2, NatInSet
  <2> QED BY <2>3
<1> DEFINE f == [n \in Nat |-> F[n][n]]
<1>6. \A n \in Nat : F[n][n] \in S
  BY <1>4
<1>7. f[0] = a
  BY <1>4
<1>8. ASSUME NEW n \in Nat PROVE f[n + 1] = g[<<n, f[n]>>]
  <2>1. n \in 0 .. (n + 1) - 1 /\ n + 1 \in Nat
    OBVIOUS
  <2>2. F[n + 1][n + 1] = g[<<n, F[n + 1][n]>>]
    BY <1>4, <2>1
  <2>3. F[n][n] = F[n + 1][n]
    BY <1>5, <2>1
  <2> QED BY <2>1, <2>2, <2>3
<1>9. Recursion(f, S, a, g)
  BY <1>6, <1>7, <1>8 DEF Recursion
<1> QED BY <1>9
-----------------------------------------------------------------------------

\* A quotient is where its divisor puts the dividend.
LEMMA Quotient ==
  ASSUME NEW n \in Nat, NEW s \in Nat \ {0}
  PROVE  /\ n \div s \in Nat
         /\ s * (n \div s) <= n
         /\ n < s * (n \div s) + s
OBVIOUS

\* A product with a larger factor is larger by one of the other at least.
LEMMA LargerFactor ==
  ASSUME NEW s \in Nat, NEW k \in Int, NEW m \in Int, k < m
  PROVE  s * k + s <= s * m
<1>1. PICK e \in Nat : m = k + 1 + e
  <2>1. m - k - 1 \in Nat /\ m = k + 1 + (m - k - 1)
    OBVIOUS
  <2> QED BY <2>1
<1>2. s * m = s * k + s + s * e /\ s * e \in Nat
  BY <1>1
<1> QED BY <1>2

\* There is only one quotient.
LEMMA QuotientIs ==
  ASSUME NEW n \in Nat, NEW s \in Nat \ {0}, NEW q \in Nat, s * q <= n, n < s * q + s
  PROVE  n \div s = q
<1> DEFINE p == n \div s
<1>1. p \in Nat /\ s * p <= n /\ n < s * p + s
  BY Quotient
<1> HIDE DEF p
<1>2. s * p \in Nat /\ s * q \in Nat
  BY <1>1
<1>3. ~(p < q)
  <2>1. p < q => s * p + s <= s * q
    BY <1>1, LargerFactor
  <2> QED BY <2>1, <1>1, <1>2
<1>4. ~(q < p)
  <2>1. q < p => s * q + s <= s * p
    BY <1>1, LargerFactor
  <2> QED BY <2>1, <1>1, <1>2
<1> QED BY <1>1, <1>3, <1>4 DEF p

\* What is left of a division.
LEMMA Remainder ==
  ASSUME NEW n \in Nat, NEW d \in Nat \ {0}
  PROVE  n % d \in 0 .. d - 1 /\ n \div d \in Nat /\ n = d * (n \div d) + (n % d)
<1>1. n % d \in 0 .. d - 1
  OBVIOUS
<1>2. n = d * (n \div d) + (n % d)
  OBVIOUS
<1> QED BY <1>1, <1>2, Quotient

LEMMA RemainderIs ==
  ASSUME NEW d \in Nat \ {0}, NEW q \in Nat, NEW r \in 0 .. d - 1
  PROVE  (d * q + r) % d = r
<1> DEFINE n == d * q + r
<1>1. d * q \in Nat
  OBVIOUS
<1>2. n \in Nat /\ d * q <= n /\ n < d * q + d
  BY <1>1
<1> HIDE DEF n
<1>3. n \div d = q
  BY <1>2, QuotientIs
<1>4. n = d * q + (n % d)
  BY <1>2, <1>3, Remainder
<1>5. n = d * q + r
  BY DEF n
<1>6. n % d \in 0 .. d - 1
  BY <1>2, Remainder
<1>7. n % d = r
  BY <1>1, <1>4, <1>5, <1>6
<1> QED BY <1>7 DEF n

\* (n + s - 1) / s is the number of pieces of size s that cover n.
THEOREM RoundingUp ==
  ASSUME NEW n \in Nat, NEW s \in Nat \ {0}
  PROVE  /\ (n + s - 1) \div s \in Nat
         /\ \A k \in Nat : n <= s * k <=> (n + s - 1) \div s <= k
<1> DEFINE q == (n + s - 1) \div s
<1>1. q \in Nat /\ s * q <= n + s - 1 /\ n + s - 1 < s * q + s
  BY Quotient
<1> HIDE DEF q
<1>2. ASSUME NEW k \in Nat PROVE n <= s * k <=> q <= k
  <2>1. s * k \in Nat /\ s * q \in Nat
    BY <1>1
  <2>2. CASE q <= k
    <3>1. s * q <= s * k
      <4>1. CASE q < k
        BY <4>1, <1>1, <2>1, LargerFactor
      <4> QED BY <4>1, <2>2, <1>1
    <3> QED BY <1>1, <2>1, <2>2, <3>1
  <2>3. CASE k < q
    <3>1. s * k + s <= s * q
      BY <2>3, <1>1, LargerFactor
    <3> QED BY <1>1, <2>1, <2>3, <3>1
  <2> QED BY <1>1, <2>2, <2>3
<1> QED BY <1>1, <1>2 DEF q
=============================================================================
