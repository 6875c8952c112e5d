---------------------------- MODULE GaloisProofs ----------------------------
(***************************************************************************)
(* Theorems about the field, the coefficients, the tables and the kernels  *)
(* of the encoder, for every field that a primitive polynomial makes,      *)
(* every request, buffers of any length and any processor.                 *)
(*                                                                         *)
(* The powers of 2 visit every element but 0 (WalkOnto), so the tables     *)
(* multiply and the bases have the full order; any n consecutive rows of   *)
(* the coefficients of n slices are then a regular matrix, by elimination  *)
(* of one slice after another (VandermondeRegular).  The product is linear *)
(* in its bits, so the tables of bytes, of nibbles and of bits give it,    *)
(* and the shuffles of the kernels take every byte back to its place.      *)
(***************************************************************************)
EXTENDS SimdKernels, CoeffTables, NatFacts, FiniteSetTheorems

-----------------------------------------------------------------------------
(* Words                                                                   *)

\* The sum of words is a group in which every word is its own inverse.
LEMMA XorLaws ==
  /\ \A x, y : Xor(x, y) = Xor(y, x)
  /\ \A x, y, z : Xor(Xor(x, y), z) = Xor(x, Xor(y, z))
  /\ \A x : Xor(x, {}) = x /\ Xor({}, x) = x /\ Xor(x, x) = {}
BY DEF Xor

\* The sum of four words does not depend on how they are paired.
LEMMA XorPairs ==
  ASSUME NEW w, NEW x, NEW y, NEW z
  PROVE  Xor(Xor(w, x), Xor(y, z)) = Xor(Xor(w, y), Xor(x, z))
BY DEF Xor

LEMMA XorInElements ==
  ASSUME NEW x \in Elements, NEW y \in Elements
  PROVE  Xor(x, y) \in Elements
BY DEF Xor, Elements

\* A place is moved by one, and no other with it.
LEMMA PlaceUp ==
  ASSUME NEW x \in SUBSET Int, NEW i \in Int, NEW n \in Int
  PROVE  i \in Up(x, n) <=> i - n \in x
<1>1. i \in Up(x, n) => i - n \in x
  BY DEF Up
<1>2. i - n \in x => i = (i - n) + n
  OBVIOUS
<1> QED BY <1>1, <1>2 DEF Up

LEMMA UpXor ==
  ASSUME NEW x \in SUBSET Int, NEW y \in SUBSET Int, NEW n \in Int
  PROVE  Up(Xor(x, y), n) = Xor(Up(x, n), Up(y, n))
<1>1. Up(x, n) \in SUBSET Int /\ Up(y, n) \in SUBSET Int
      /\ Up(Xor(x, y), n) \in SUBSET Int /\ Xor(x, y) \in SUBSET Int
  BY DEF Up, Xor
<1>2. ASSUME NEW i \in Int
      PROVE  i \in Up(Xor(x, y), n) <=> i \in Xor(Up(x, n), Up(y, n))
  BY <1>1, PlaceUp DEF Xor
<1>3. Xor(Up(x, n), Up(y, n)) \in SUBSET Int
  BY <1>1 DEF Xor
<1> QED BY <1>1, <1>2, <1>3

\* What the assumption says of the polynomial.
LEMMA Polynomial ==
  /\ FIELD_BITS \in Nat /\ 0 < FIELD_BITS
  /\ FIELD_GENERATOR \subseteq 0 .. FIELD_BITS /\ FIELD_BITS \in FIELD_GENERATOR
BY FieldAssumption DEF Primitive

LEMMA DoubleInElements ==
  ASSUME NEW x \in Elements
  PROVE  Double(x) \in Elements
<1>1. Up(x, 1) \subseteq 0 .. FIELD_BITS
  BY Polynomial DEF Up, Elements
<1>2. CASE FIELD_BITS \in Up(x, 1)
  <2>1. Double(x) = Xor(Up(x, 1), FIELD_GENERATOR)
    BY <1>2 DEF Double
  <2>2. ASSUME NEW i \in Double(x) PROVE i \in 0 .. FIELD_BITS /\ i # FIELD_BITS
    BY <1>1, <1>2, <2>1, Polynomial DEF Xor
  <2>3. \A i \in Double(x) : i \in 0 .. FIELD_BITS - 1
    BY <2>2, Polynomial
  <2> QED BY <2>3 DEF Elements
<1>3. CASE FIELD_BITS \notin Up(x, 1)
  BY <1>1, <1>3, Polynomial DEF Double, Elements
<1> QED BY <1>2, <1>3

LEMMA DoubleXor ==
  ASSUME NEW x \in Elements, NEW y \in Elements
  PROVE  Double(Xor(x, y)) = Xor(Double(x), Double(y))
<1> DEFINE a == Up(x, 1)
           b2 == Up(y, 1)
<1>1. Up(Xor(x, y), 1) = Xor(a, b2)
  BY Polynomial, UpXor DEF Elements
<1>2. Double(x) = IF FIELD_BITS \in a THEN Xor(a, FIELD_GENERATOR) ELSE a
  BY DEF Double
<1>3. Double(y) = IF FIELD_BITS \in b2 THEN Xor(b2, FIELD_GENERATOR) ELSE b2
  BY DEF Double
<1>4. Double(Xor(x, y)) =
      IF FIELD_BITS \in Xor(a, b2) THEN Xor(Xor(a, b2), FIELD_GENERATOR) ELSE Xor(a, b2)
  BY <1>1 DEF Double
<1> HIDE DEF a, b2
<1> QED BY <1>2, <1>3, <1>4 DEF Xor

LEMMA Zero ==
  /\ {} \in Elements /\ {0} \in Elements
  /\ Double({}) = {}
BY Polynomial DEF Elements, Double, Up

-----------------------------------------------------------------------------
(* The product of the field, by Horner's rule                              *)

\* A row of the product: the sum so far, the next bit of y taken in.
Row(s, x, y, n) == IF FIELD_BITS - n \in y THEN Xor(Double(s), x) ELSE Double(s)

IsHorner(f, x, y) ==
  /\ f \in [0 .. FIELD_BITS -> Elements]
  /\ f[0] = {}
  /\ \A n \in 1 .. FIELD_BITS : f[n] = Row(f[n - 1], x, y, n)

LEMMA RowInElements ==
  ASSUME NEW s \in Elements, NEW x \in Elements, NEW y, NEW n
  PROVE  Row(s, x, y, n) \in Elements
BY DoubleInElements, XorInElements DEF Row

LEMMA HornerExists ==
  ASSUME NEW x \in Elements, NEW y
  PROVE  \E f : IsHorner(f, x, y)
<1> DEFINE g == [p \in Nat \X Elements |-> Row(p[2], x, y, p[1] + 1)]
<1>1. \A n \in Nat, s \in Elements : g[<<n, s>>] \in Elements
  BY RowInElements
<1>2. \A n \in Nat, s \in Elements : g[<<n, s>>] = Row(s, x, y, n + 1)
  OBVIOUS
<1> HIDE DEF g
<1>3. PICK f : Recursion(f, Elements, {}, g)
  <2>1. {} \in Elements
    BY Zero
  <2> QED BY <1>1, <2>1, NatRecursionExists
<1> DEFINE h == [n \in 0 .. FIELD_BITS |-> f[n]]
<1>4. h \in [0 .. FIELD_BITS -> Elements] /\ h[0] = {}
  BY <1>3, Polynomial DEF Recursion
<1>5. ASSUME NEW n \in 1 .. FIELD_BITS PROVE h[n] = Row(h[n - 1], x, y, n)
  <2>1. n - 1 \in Nat /\ (n - 1) + 1 = n /\ h[n] = f[n] /\ h[n - 1] = f[n - 1]
    BY Polynomial
  <2>2. f[n] = g[<<n - 1, f[n - 1]>>] /\ f[n - 1] \in Elements
    BY <1>3, <2>1 DEF Recursion
  <2> QED BY <1>2, <2>1, <2>2
<1> QED BY <1>4, <1>5 DEF IsHorner

LEMMA HornerUnique ==
  ASSUME NEW x, NEW y, NEW f, NEW g, IsHorner(f, x, y), IsHorner(g, x, y)
  PROVE  f[FIELD_BITS] = g[FIELD_BITS]
<1> DEFINE S == {n \in Nat : n <= FIELD_BITS => f[n] = g[n]}
<1>1. 0 \in S
  BY DEF IsHorner
<1>2. ASSUME NEW n \in Nat, n \in S PROVE n + 1 \in S
  <2> SUFFICES ASSUME n + 1 <= FIELD_BITS PROVE f[n + 1] = g[n + 1]
    OBVIOUS
  <2>1. n + 1 \in 1 .. FIELD_BITS /\ (n + 1) - 1 = n /\ f[n] = g[n]
    BY <1>2, Polynomial
  <2> QED BY <2>1 DEF IsHorner
<1>3. FIELD_BITS \in S
  <2> HIDE DEF S
  <2> QED BY <1>1, <1>2, NatInSet, Polynomial
<1> QED BY <1>3

\* The product is the last sum of Horner's rule.
LEMMA PolyMulIs ==
  ASSUME NEW x \in Elements, NEW y, NEW f, IsHorner(f, x, y)
  PROVE  PolyMul(x, y) = f[FIELD_BITS]
<1> DEFINE Def(s) == s = [n \in 0 .. FIELD_BITS |->
             IF n = 0 THEN {}
             ELSE IF FIELD_BITS - n \in y THEN Xor(Double(s[n - 1]), x) ELSE Double(s[n - 1])]
           sum == CHOOSE s : Def(s)
<1>1. Def(f)
  <2>1. f = [n \in 0 .. FIELD_BITS |-> f[n]]
    BY DEF IsHorner
  <2>2. ASSUME NEW n \in 0 .. FIELD_BITS
        PROVE  f[n] = IF n = 0 THEN {}
             ELSE IF FIELD_BITS - n \in y THEN Xor(Double(f[n - 1]), x) ELSE Double(f[n - 1])
    <3>1. n # 0 => n \in 1 .. FIELD_BITS
      BY Polynomial
    <3> QED BY <3>1 DEF IsHorner, Row
  <2> QED BY <2>1, <2>2
<1>2. Def(sum)
  <2> HIDE DEF Def
  <2> QED BY <1>1
<1>3. PolyMul(x, y) = sum[FIELD_BITS]
  BY DEF PolyMul
<1>4. IsHorner(sum, x, y)
  <2> HIDE DEF sum
  <2>1. sum[0] = {}
    BY <1>2, Polynomial
  <2>2. ASSUME NEW n \in 1 .. FIELD_BITS PROVE sum[n] = Row(sum[n - 1], x, y, n)
    <3>1. n \in 0 .. FIELD_BITS /\ n # 0
      BY Polynomial
    <3> QED BY <1>2, <3>1 DEF Row
  <2>3. sum \in [0 .. FIELD_BITS -> Elements]
    <3> DEFINE S == {n \in Nat : n <= FIELD_BITS => sum[n] \in Elements}
    <3>1. 0 \in S
      BY <2>1, Zero
    <3>2. ASSUME NEW n \in Nat, n \in S PROVE n + 1 \in S
      <4> SUFFICES ASSUME n + 1 <= FIELD_BITS PROVE sum[n + 1] \in Elements
        OBVIOUS
      <4>1. n + 1 \in 1 .. FIELD_BITS /\ (n + 1) - 1 = n /\ sum[n] \in Elements
        BY <3>2, Polynomial
      <4>2. sum[n + 1] = Row(sum[n], x, y, n + 1)
        BY <2>2, <4>1
      <4> QED BY <4>1, <4>2, RowInElements
    <3>3. Nat \subseteq S
      <4> HIDE DEF S
      <4> QED BY <3>1, <3>2, NatInSet
    <3>4. \A n \in 0 .. FIELD_BITS : sum[n] \in Elements
      BY <3>3, Polynomial
    <3>5. sum = [n \in 0 .. FIELD_BITS |-> sum[n]]
      BY <1>2
    <3> QED BY <3>4, <3>5
  <2> QED BY <2>1, <2>2, <2>3 DEF IsHorner
<1> HIDE DEF sum
<1> QED BY <1>3, <1>4, HornerUnique

\* The product is in the field, and it is linear in either factor.
LEMMA PolyMulInElements ==
  ASSUME NEW x \in Elements, NEW y
  PROVE  PolyMul(x, y) \in Elements
<1>1. PICK f : IsHorner(f, x, y)
  BY HornerExists
<1>2. PolyMul(x, y) = f[FIELD_BITS]
  BY <1>1, PolyMulIs
<1> QED BY <1>1, <1>2, Polynomial DEF IsHorner

LEMMA PolyMulLeft ==
  ASSUME NEW x \in Elements, NEW z \in Elements, NEW y
  PROVE  PolyMul(Xor(x, z), y) = Xor(PolyMul(x, y), PolyMul(z, y))
<1>1. PICK f : IsHorner(f, x, y)
  BY HornerExists
<1>2. PICK g : IsHorner(g, z, y)
  BY HornerExists
<1> DEFINE h == [n \in 0 .. FIELD_BITS |-> Xor(f[n], g[n])]
<1>3. IsHorner(h, Xor(x, z), y)
  <2>1. \A n \in 0 .. FIELD_BITS : f[n] \in Elements /\ g[n] \in Elements
    BY <1>1, <1>2 DEF IsHorner
  <2>2. h \in [0 .. FIELD_BITS -> Elements]
    BY <2>1, XorInElements
  <2>3. h[0] = {}
    <3>1. f[0] = {} /\ g[0] = {}
      BY <1>1, <1>2 DEF IsHorner
    <3>2. h[0] = Xor(f[0], g[0])
      BY Polynomial
    <3> HIDE DEF h
    <3> QED BY <3>1, <3>2, XorLaws
  <2>4. ASSUME NEW n \in 1 .. FIELD_BITS PROVE h[n] = Row(h[n - 1], Xor(x, z), y, n)
    <3>1. n \in 0 .. FIELD_BITS /\ n - 1 \in 0 .. FIELD_BITS
      BY Polynomial
    <3>2. f[n] = Row(f[n - 1], x, y, n) /\ g[n] = Row(g[n - 1], z, y, n)
      BY <1>1, <1>2 DEF IsHorner
    <3>3. Double(Xor(f[n - 1], g[n - 1])) = Xor(Double(f[n - 1]), Double(g[n - 1]))
      BY <2>1, <3>1, DoubleXor
    <3>4. Xor(Xor(Double(f[n - 1]), Double(g[n - 1])), Xor(x, z)) =
          Xor(Xor(Double(f[n - 1]), x), Xor(Double(g[n - 1]), z))
      BY XorPairs
    <3>5. h[n] = Xor(f[n], g[n]) /\ h[n - 1] = Xor(f[n - 1], g[n - 1])
      BY <3>1
    <3> HIDE DEF h
    <3> QED BY <3>2, <3>3, <3>4, <3>5 DEF Row
  <2> QED BY <2>2, <2>3, <2>4 DEF IsHorner
<1>4. h[FIELD_BITS] = Xor(f[FIELD_BITS], g[FIELD_BITS])
  BY Polynomial
<1>5. PolyMul(x, y) = f[FIELD_BITS] /\ PolyMul(z, y) = g[FIELD_BITS]
  BY <1>1, <1>2, PolyMulIs
<1>6. Xor(x, z) \in Elements
  BY XorInElements
<1>7. PolyMul(Xor(x, z), y) = h[FIELD_BITS]
  <2> HIDE DEF h
  <2> QED BY <1>3, <1>6, PolyMulIs
<1> QED BY <1>4, <1>5, <1>7

LEMMA PolyMulRight ==
  ASSUME NEW x \in Elements, NEW y, NEW z
  PROVE  PolyMul(x, Xor(y, z)) = Xor(PolyMul(x, y), PolyMul(x, z))
<1>1. PICK f : IsHorner(f, x, y)
  BY HornerExists
<1>2. PICK g : IsHorner(g, x, z)
  BY HornerExists
<1> DEFINE h == [n \in 0 .. FIELD_BITS |-> Xor(f[n], g[n])]
<1>3. IsHorner(h, x, Xor(y, z))
  <2>1. \A n \in 0 .. FIELD_BITS : f[n] \in Elements /\ g[n] \in Elements
    BY <1>1, <1>2 DEF IsHorner
  <2>2. h \in [0 .. FIELD_BITS -> Elements]
    BY <2>1, XorInElements
  <2>3. h[0] = {}
    <3>1. f[0] = {} /\ g[0] = {}
      BY <1>1, <1>2 DEF IsHorner
    <3>2. h[0] = Xor(f[0], g[0])
      BY Polynomial
    <3> HIDE DEF h
    <3> QED BY <3>1, <3>2, XorLaws
  <2>4. ASSUME NEW n \in 1 .. FIELD_BITS PROVE h[n] = Row(h[n - 1], x, Xor(y, z), n)
    <3>1. n \in 0 .. FIELD_BITS /\ n - 1 \in 0 .. FIELD_BITS
      BY Polynomial
    <3>2. f[n] = Row(f[n - 1], x, y, n) /\ g[n] = Row(g[n - 1], x, z, n)
      BY <1>1, <1>2 DEF IsHorner
    <3>3. Double(Xor(f[n - 1], g[n - 1])) = Xor(Double(f[n - 1]), Double(g[n - 1]))
      BY <2>1, <3>1, DoubleXor
    <3>4. h[n] = Xor(f[n], g[n]) /\ h[n - 1] = Xor(f[n - 1], g[n - 1])
      BY <3>1
    <3>5. FIELD_BITS - n \in Xor(y, z) <=>
            ~(FIELD_BITS - n \in y <=> FIELD_BITS - n \in z)
      BY DEF Xor
    <3> DEFINE df == Double(f[n - 1])
               dg == Double(g[n - 1])
    <3>6. /\ Xor(Xor(df, x), Xor(dg, x)) = Xor(df, dg)
          /\ Xor(Xor(df, x), dg) = Xor(Xor(df, dg), x)
          /\ Xor(df, Xor(dg, x)) = Xor(Xor(df, dg), x)
      <4> HIDE DEF df, dg
      <4> QED BY DEF Xor
    <3> HIDE DEF h
    <3> QED BY <3>2, <3>3, <3>4, <3>5, <3>6 DEF Row
  <2> QED BY <2>2, <2>3, <2>4 DEF IsHorner
<1>4. h[FIELD_BITS] = Xor(f[FIELD_BITS], g[FIELD_BITS])
  BY Polynomial
<1>5. PolyMul(x, y) = f[FIELD_BITS] /\ PolyMul(x, z) = g[FIELD_BITS]
  BY <1>1, <1>2, PolyMulIs
<1>6. PolyMul(x, Xor(y, z)) = h[FIELD_BITS]
  <2> HIDE DEF h
  <2> QED BY <1>3, PolyMulIs
<1> QED BY <1>4, <1>5, <1>6

\* A factor of 2 comes out of the product.
LEMMA PolyMulDouble ==
  ASSUME NEW x \in Elements, NEW y
  PROVE  PolyMul(Double(x), y) = Double(PolyMul(x, y))
<1>1. PICK f : IsHorner(f, x, y)
  BY HornerExists
<1> DEFINE h == [n \in 0 .. FIELD_BITS |-> Double(f[n])]
<1>2. IsHorner(h, Double(x), y)
  <2>1. \A n \in 0 .. FIELD_BITS : f[n] \in Elements
    BY <1>1 DEF IsHorner
  <2>2. h \in [0 .. FIELD_BITS -> Elements]
    BY <2>1, DoubleInElements
  <2>3. h[0] = {}
    <3>1. f[0] = {}
      BY <1>1 DEF IsHorner
    <3>2. h[0] = Double(f[0])
      BY Polynomial
    <3> HIDE DEF h
    <3> QED BY <3>1, <3>2, Zero
  <2>4. ASSUME NEW n \in 1 .. FIELD_BITS PROVE h[n] = Row(h[n - 1], Double(x), y, n)
    <3>1. n \in 0 .. FIELD_BITS /\ n - 1 \in 0 .. FIELD_BITS
      BY Polynomial
    <3>2. f[n] = Row(f[n - 1], x, y, n) /\ Double(f[n - 1]) \in Elements
      BY <1>1, <2>1, <3>1, DoubleInElements DEF IsHorner
    <3>3. Double(Xor(Double(f[n - 1]), x)) = Xor(Double(Double(f[n - 1])), Double(x))
      BY <3>2, DoubleXor
    <3>4. h[n] = Double(f[n]) /\ h[n - 1] = Double(f[n - 1])
      BY <3>1
    <3> HIDE DEF h
    <3> QED BY <3>2, <3>3, <3>4 DEF Row
  <2> QED BY <2>2, <2>3, <2>4 DEF IsHorner
<1>3. h[FIELD_BITS] = Double(f[FIELD_BITS])
  BY Polynomial
<1>4. PolyMul(x, y) = f[FIELD_BITS]
  BY <1>1, PolyMulIs
<1>5. PolyMul(Double(x), y) = h[FIELD_BITS]
  <2> HIDE DEF h
  <2>1. Double(x) \in Elements
    BY DoubleInElements
  <2> QED BY <1>2, <2>1, PolyMulIs
<1> QED BY <1>3, <1>4, <1>5

LEMMA PolyMulZero ==
  ASSUME NEW x \in Elements, NEW y
  PROVE  PolyMul(x, {}) = {} /\ PolyMul({}, y) = {}
<1> DEFINE h == [n \in 0 .. FIELD_BITS |-> {}]
<1>1. ASSUME NEW n \in 1 .. FIELD_BITS PROVE h[n] = {} /\ h[n - 1] = {}
  BY Polynomial
<1>2. h \in [0 .. FIELD_BITS -> Elements] /\ h[0] = {} /\ h[FIELD_BITS] = {}
  BY Zero, Polynomial
<1> HIDE DEF h
<1>3. IsHorner(h, x, {})
  BY <1>1, <1>2, Zero DEF IsHorner, Row
<1>4. IsHorner(h, {}, y)
  BY <1>1, <1>2, Zero, XorLaws DEF IsHorner, Row
<1>5. {} \in Elements
  BY Zero
<1> QED BY <1>2, <1>3, <1>4, <1>5, PolyMulIs

\* 1 is the neutral element: after n rows the sum is the n highest bits of y.
LEMMA PolyMulOne ==
  ASSUME NEW y \in Elements
  PROVE  PolyMul({0}, y) = y
<1> DEFINE h == [n \in 0 .. FIELD_BITS |->
                   {i \in 0 .. FIELD_BITS - 1 : i < n /\ i + (FIELD_BITS - n) \in y}]
<1>1. h \in [0 .. FIELD_BITS -> Elements]
  BY DEF Elements
<1>2. h[0] = {}
  BY Polynomial
<1>3. ASSUME NEW n \in 1 .. FIELD_BITS PROVE h[n] = Row(h[n - 1], {0}, y, n)
  <2>1. n \in 0 .. FIELD_BITS /\ n - 1 \in 0 .. FIELD_BITS
    BY Polynomial
  <2>2. \A i \in Int : i \in h[n] <=> i >= 0 /\ i < n /\ i + (FIELD_BITS - n) \in y
    BY <2>1, Polynomial
  <2>3. \A i \in Int : i \in h[n - 1] <=> i >= 0 /\ i < n - 1 /\ i + (FIELD_BITS - n + 1) \in y
    BY <2>1, Polynomial
  <2>4. h[n] \in SUBSET Int /\ h[n - 1] \in SUBSET Int
    BY <2>1
  <2> HIDE DEF h
  <2> DEFINE up == Up(h[n - 1], 1)
  <2>5. up \in SUBSET Int
    BY <2>4 DEF Up
  <2>6. \A i \in Int : i \in up <=> i - 1 \in h[n - 1]
    BY <2>4, PlaceUp
  <2>7. Double(h[n - 1]) = up
    <3>1. FIELD_BITS - 1 \notin h[n - 1]
      BY <2>3, Polynomial
    <3>2. FIELD_BITS \notin up
      BY <3>1, <2>6, Polynomial
    <3> QED BY <3>2 DEF Double
  <2>8. Row(h[n - 1], {0}, y, n) = IF FIELD_BITS - n \in y THEN Xor(up, {0}) ELSE up
    BY <2>7 DEF Row
  <2> HIDE DEF up
  <2>9. ASSUME NEW i \in Int
        PROVE  i \in h[n] <=> i \in up \/ (i = 0 /\ FIELD_BITS - n \in y)
    <3>1. i \in up <=> i - 1 >= 0 /\ i - 1 < n - 1 /\ (i - 1) + (FIELD_BITS - n + 1) \in y
      BY <2>3, <2>6
    <3>2. (i - 1) + (FIELD_BITS - n + 1) = i + (FIELD_BITS - n)
      BY Polynomial
    <3>3. i = 0 => i + (FIELD_BITS - n) = FIELD_BITS - n
      BY Polynomial
    <3> QED BY <2>2, <3>1, <3>2, <3>3
  <2>10. 0 \notin up
    BY <2>3, <2>6
  <2>11. CASE FIELD_BITS - n \in y
    <3>1. h[n] = up \cup {0}
      <4>1. \A i \in Int : i \in h[n] <=> i \in up \cup {0}
        BY <2>9, <2>11
      <4>2. up \cup {0} \in SUBSET Int
        BY <2>5
      <4> QED BY <2>4, <4>1, <4>2
    <3>2. Xor(up, {0}) = up \cup {0}
      BY <2>10 DEF Xor
    <3> QED BY <2>8, <2>11, <3>1, <3>2
  <2>12. CASE FIELD_BITS - n \notin y
    <3>1. h[n] = up
      BY <2>4, <2>5, <2>9, <2>12
    <3> QED BY <2>8, <2>12, <3>1
  <2> QED BY <2>11, <2>12
<1>4. h[FIELD_BITS] = y
  <2>1. h[FIELD_BITS] = {i \in 0 .. FIELD_BITS - 1 : i < FIELD_BITS /\ i + (FIELD_BITS - FIELD_BITS) \in y}
    BY Polynomial
  <2>2. \A i \in 0 .. FIELD_BITS - 1 : i < FIELD_BITS /\ i + (FIELD_BITS - FIELD_BITS) = i
    BY Polynomial
  <2>3. y \subseteq 0 .. FIELD_BITS - 1
    BY DEF Elements
  <2> QED BY <2>1, <2>2, <2>3
<1> HIDE DEF h
<1>5. IsHorner(h, {0}, y)
  BY <1>1, <1>2, <1>3 DEF IsHorner
<1>6. {0} \in Elements
  BY Zero
<1> QED BY <1>4, <1>5, <1>6, PolyMulIs

-----------------------------------------------------------------------------
(* The powers of 2                                                         *)

\* The element after n doublings of 1, as the loop that fills the tables goes.
Walk[n \in Nat] == IF n = 0 THEN {0} ELSE Double(Walk[n - 1])

LEMMA WalkLaws ==
  /\ \A n \in Nat : Walk[n] \in Elements
  /\ Walk[0] = {0}
  /\ \A n \in Nat : Walk[n + 1] = Double(Walk[n])
<1> DEFINE Def(w) == w = [n \in Nat |-> IF n = 0 THEN {0} ELSE Double(w[n - 1])]
           g == [p \in Nat \X Elements |-> Double(p[2])]
<1>1. \A n \in Nat, s \in Elements : g[<<n, s>>] = Double(s)
  OBVIOUS
<1>2. \A n \in Nat, s \in Elements : g[<<n, s>>] \in Elements
  BY <1>1, DoubleInElements
<1> HIDE DEF g
<1>3. {0} \in Elements
  BY Zero
<1>4. PICK f : Recursion(f, Elements, {0}, g)
  BY <1>2, <1>3, NatRecursionExists
<1>5. Def(f)
  <2>1. f = [n \in Nat |-> f[n]]
    BY <1>4 DEF Recursion
  <2>2. ASSUME NEW n \in Nat PROVE f[n] = IF n = 0 THEN {0} ELSE Double(f[n - 1])
    <3>1. CASE n = 0
      BY <1>4, <3>1 DEF Recursion
    <3>2. CASE n # 0
      <4>1. n - 1 \in Nat /\ (n - 1) + 1 = n
        BY <3>2
      <4>2. f[n] = g[<<n - 1, f[n - 1]>>] /\ f[n - 1] \in Elements
        BY <1>4, <4>1 DEF Recursion
      <4> QED BY <1>1, <3>2, <4>1, <4>2
    <3> QED BY <3>1, <3>2
  <2> QED BY <2>1, <2>2
<1>6. Def(Walk)
  <2>1. Walk = CHOOSE w : Def(w)
    BY DEF Walk
  <2> HIDE DEF Def
  <2> QED BY <1>5, <2>1
<1>7. Walk[0] = {0}
  BY <1>6
<1>8. ASSUME NEW n \in Nat PROVE Walk[n + 1] = Double(Walk[n])
  <2>1. n + 1 \in Nat /\ n + 1 # 0 /\ (n + 1) - 1 = n
    OBVIOUS
  <2> QED BY <1>6, <2>1
<1> DEFINE S == {n \in Nat : Walk[n] \in Elements}
<1>9. Nat \subseteq S
  <2>1. 0 \in S
    BY <1>3, <1>7
  <2>2. ASSUME NEW n \in Nat, n \in S PROVE n + 1 \in S
    BY <1>8, <2>2, DoubleInElements
  <2> HIDE DEF S
  <2> QED BY <2>1, <2>2, NatInSet
<1> QED BY <1>7, <1>8, <1>9

\* Exponents add up.
LEMMA WalkAdds ==
  ASSUME NEW m \in Nat, NEW n \in Nat
  PROVE  PolyMul(Walk[m], Walk[n]) = Walk[m + n]
<1> DEFINE S == {k \in Nat : PolyMul(Walk[k], Walk[n]) = Walk[k + n]}
<1>1. 0 \in S
  BY WalkLaws, PolyMulOne
<1>2. ASSUME NEW k \in Nat, k \in S PROVE k + 1 \in S
  <2>1. Walk[k + 1] = Double(Walk[k]) /\ Walk[k] \in Elements
    BY WalkLaws
  <2>2. PolyMul(Walk[k + 1], Walk[n]) = Double(Walk[k + n])
    BY <1>2, <2>1, PolyMulDouble
  <2>3. k + n \in Nat /\ (k + n) + 1 = (k + 1) + n
    OBVIOUS
  <2>4. Walk[(k + n) + 1] = Double(Walk[k + n])
    BY <2>3, WalkLaws
  <2> QED BY <2>2, <2>3, <2>4
<1>3. Nat \subseteq S
  <2> HIDE DEF S
  <2> QED BY <1>1, <1>2, NatInSet
<1> QED BY <1>3

\* Squaring gives the same powers.
LEMMA PowerIsWalk ==
  ASSUME NEW n \in Nat
  PROVE  Power[n] = Walk[n]
<1> DEFINE Next2(p, k) == IF k % 2 = 0 THEN PolyMul(p[k \div 2], p[k \div 2])
                          ELSE Double(PolyMul(p[k \div 2], p[k \div 2]))
           Def(p) == p = [k \in Nat |-> IF k = 0 THEN {0} ELSE Next2(p, k)]
<1>1. \A k \in Nat : k # 0 => k \div 2 \in Nat /\ k \div 2 < k
  OBVIOUS
<1>2. ASSUME NEW k \in Nat PROVE Walk[k] = Next2(Walk, k)
  <2> DEFINE h == k \div 2
  <2>1. h \in Nat
    OBVIOUS
  <2>2. PolyMul(Walk[h], Walk[h]) = Walk[h + h]
    BY <2>1, WalkAdds
  <2>3. CASE k % 2 = 0
    <3>1. k = h + h
      BY <2>3
    <3> QED BY <2>2, <2>3, <3>1
  <2>4. CASE k % 2 # 0
    <3>1. k = (h + h) + 1 /\ h + h \in Nat
      BY <2>4
    <3>2. Walk[k] = Double(Walk[h + h])
      BY <3>1, WalkLaws
    <3> QED BY <2>2, <2>4, <3>2
  <2> QED BY <2>3, <2>4
<1>3. \A k \in Nat : Walk[k] = IF k = 0 THEN {0} ELSE Next2(Walk, k)
  BY <1>2, WalkLaws
<1>4. Def([k \in Nat |-> Walk[k]])
  <2> DEFINE w == [k \in Nat |-> Walk[k]]
  <2>1. \A k \in Nat : w[k] = Walk[k] /\ w[k \div 2] = Walk[k \div 2]
    OBVIOUS
  <2>2. \A k \in Nat : Next2(w, k) = Next2(Walk, k)
    BY <2>1
  <2>3. \A k \in Nat : w[k] = IF k = 0 THEN {0} ELSE Next2(w, k)
    BY <1>3, <2>1, <2>2
  <2> HIDE DEF Next2
  <2> QED BY <2>3
<1>5. Def(Power)
  <2>1. Power = CHOOSE p : Def(p)
    BY DEF Power
  <2> HIDE DEF Def
  <2> QED BY <1>4, <2>1
<1> DEFINE S == {m \in Nat : \A k \in 0 .. m : Power[k] = Walk[k]}
<1>6. 0 \in S
  <2>1. Power[0] = {0}
    BY <1>5
  <2>2. \A k \in 0 .. 0 : k = 0
    OBVIOUS
  <2> QED BY <2>1, <2>2, WalkLaws
<1>7. ASSUME NEW m \in Nat, m \in S PROVE m + 1 \in S
  <2> DEFINE k == m + 1
  <2>1. k \in Nat /\ k # 0 /\ k \div 2 \in 0 .. m
    OBVIOUS
  <2>2. Power[k \div 2] = Walk[k \div 2]
    BY <1>7, <2>1
  <2>3. Power[k] = Next2(Power, k)
    BY <1>5, <2>1
  <2>4. Next2(Power, k) = Next2(Walk, k)
    BY <2>2
  <2>5. Power[m + 1] = Walk[m + 1]
    BY <2>1, <2>3, <2>4, <1>2
  <2>6. \A i \in 0 .. m + 1 : i \in 0 .. m \/ i = m + 1
    OBVIOUS
  <2> QED BY <1>7, <2>5, <2>6
<1>8. Nat \subseteq S
  <2> HIDE DEF S
  <2> QED BY <1>6, <1>7, NatInSet
<1> QED BY <1>8

\* There are FIELD_LIMIT elements but 0.
LEMMA Order ==
  /\ FIELD_LIMIT \in Nat \ {0} /\ FIELD_COUNT = FIELD_LIMIT + 1
  /\ IsFiniteSet(Elements) /\ Cardinality(Elements) = FIELD_LIMIT + 1
<1>1. IsFiniteSet(0 .. FIELD_BITS - 1) /\ Cardinality(0 .. FIELD_BITS - 1) = FIELD_BITS
  BY FS_Interval, Polynomial
<1>2. IsFiniteSet(Elements) /\ Cardinality(Elements) = FIELD_COUNT
  BY <1>1, FS_SUBSET DEF Elements, FIELD_COUNT
<1>3. FIELD_COUNT \in Nat
  BY <1>2, FS_CardinalityType
<1>4. 2 <= FIELD_COUNT
  <2> DEFINE zero == {}
             one == {0}
  <2>1. zero \in Elements /\ one \in Elements /\ zero # one
    BY Zero
  <2> HIDE DEF zero, one
  <2>2. IsFiniteSet({zero}) /\ Cardinality({zero}) = 1
    BY FS_Singleton
  <2>3. Cardinality({zero} \cup {one}) = 2
    BY <2>1, <2>2, FS_AddElement
  <2>4. {zero} \cup {one} \in SUBSET Elements
    BY <2>1
  <2>5. Cardinality({zero} \cup {one}) <= Cardinality(Elements)
    BY <1>2, <2>4, FS_Subset
  <2> QED BY <1>2, <1>3, <2>3, <2>5
<1> QED BY <1>2, <1>3, <1>4 DEF FIELD_LIMIT

\* A period d of the walk carries over to its multiples.
LEMMA WalkPeriod ==
  ASSUME NEW d \in Nat \ {0}, Walk[d] = {0}, NEW n \in Nat
  PROVE  Walk[n % d] = Walk[n]
<1> DEFINE r == n % d
           S == {q \in Nat : Walk[d * q + r] = Walk[r]}
<1>1. r \in Nat /\ n \div d \in Nat /\ n = d * (n \div d) + r
  BY Remainder
<1> HIDE DEF r
<1>2. 0 \in S
  BY <1>1
<1>3. ASSUME NEW q \in Nat, q \in S PROVE q + 1 \in S
  <2> DEFINE m == d * q + r
  <2>1. d * (q + 1) = d * q + d /\ d * q \in Nat
    OBVIOUS
  <2>2. m \in Nat /\ d * (q + 1) + r = d + m
    BY <1>1, <2>1
  <2>3. Walk[d + m] = PolyMul(Walk[d], Walk[m])
    BY <2>2, WalkAdds
  <2>4. PolyMul(Walk[d], Walk[m]) = Walk[m]
    BY <2>2, WalkLaws, PolyMulOne
  <2> QED BY <1>3, <2>2, <2>3, <2>4
<1>4. Nat \subseteq S
  <2> HIDE DEF S
  <2> QED BY <1>2, <1>3, NatInSet
<1> QED BY <1>1, <1>4 DEF r

\* 2 has the full order: the walk is back at 1 at FIELD_LIMIT and not before.
LEMMA WalkOrder ==
  /\ Walk[FIELD_LIMIT] = {0}
  /\ \A n \in 1 .. FIELD_LIMIT - 1 : Walk[n] # {0}
<1>1. Walk[FIELD_LIMIT] = {0}
  BY FieldAssumption, Order, PowerIsWalk DEF Primitive
<1>2. ASSUME NEW k \in 1 .. FIELD_LIMIT - 1, Walk[k] = {0} PROVE FALSE
  <2> DEFINE S == {n \in Nat : \A i \in 1 .. n : Walk[i] # {0}}
  <2>1. ~(Nat \subseteq S)
    BY <1>2, Order
  <2>2. PICK n \in Nat : n \in S /\ n + 1 \notin S
    <3>1. 0 \in S
      OBVIOUS
    <3> HIDE DEF S
    <3> QED BY <2>1, <3>1, NatInSet
  <2> DEFINE d == n + 1
  <2>3. Walk[d] = {0} /\ \A i \in 1 .. n : Walk[i] # {0}
    <3>1. \A i \in 1 .. d : i \in 1 .. n \/ i = d
      OBVIOUS
    <3> QED BY <2>2, <3>1
  <2>4. d <= k /\ d \in Nat \ {0}
    BY <1>2, <2>3, Order
  <2>5. FIELD_LIMIT % d \in 0 .. n
    BY <2>4, Order
  <2>6. Walk[FIELD_LIMIT % d] = {0}
    BY <1>1, <2>3, <2>4, Order, WalkPeriod
  <2>7. FIELD_LIMIT % d = 0
    BY <2>3, <2>5, <2>6
  <2>8. d \in 1 .. FIELD_LIMIT - 1
    BY <2>4, Order
  <2>9. Power[d] # {0}
    BY <2>7, <2>8, FieldAssumption DEF Primitive
  <2> QED BY <2>3, <2>4, <2>9, PowerIsWalk
<1> QED BY <1>1, <1>2

LEMMA WalkReduced ==
  ASSUME NEW n \in Nat
  PROVE  Walk[n % FIELD_LIMIT] = Walk[n]
BY Order, WalkOrder, WalkPeriod

\* Up to its order, the walk is at no element twice.
LEMMA WalkInjective ==
  ASSUME NEW i \in 0 .. FIELD_LIMIT - 1, NEW j \in 0 .. FIELD_LIMIT - 1, Walk[i] = Walk[j]
  PROVE  i = j
<1>1. ASSUME NEW m \in 0 .. FIELD_LIMIT - 1, NEW n \in 0 .. FIELD_LIMIT - 1,
             m < n, Walk[m] = Walk[n]
      PROVE  FALSE
  <2>1. FIELD_LIMIT - m \in Nat /\ n - m \in 1 .. FIELD_LIMIT - 1
    BY <1>1, Order
  <2>2. Walk[(FIELD_LIMIT - m) + m] = Walk[(FIELD_LIMIT - m) + n]
    <3>1. m \in Nat /\ n \in Nat
      BY Order
    <3>2. PolyMul(Walk[FIELD_LIMIT - m], Walk[m]) = Walk[(FIELD_LIMIT - m) + m]
      BY <2>1, <3>1, WalkAdds
    <3>3. PolyMul(Walk[FIELD_LIMIT - m], Walk[n]) = Walk[(FIELD_LIMIT - m) + n]
      BY <2>1, <3>1, WalkAdds
    <3> QED BY <1>1, <3>2, <3>3
  <2>3. (FIELD_LIMIT - m) + m = FIELD_LIMIT /\ (FIELD_LIMIT - m) + n = FIELD_LIMIT + (n - m)
    BY Order
  <2>4. Walk[FIELD_LIMIT + (n - m)] = PolyMul(Walk[FIELD_LIMIT], Walk[n - m])
    BY <2>1, Order, WalkAdds
  <2>5. PolyMul(Walk[FIELD_LIMIT], Walk[n - m]) = Walk[n - m]
    BY <2>1, WalkOrder, WalkLaws, PolyMulOne
  <2>6. Walk[n - m] = {0}
    BY <2>2, <2>3, <2>4, <2>5, WalkOrder
  <2> QED BY <2>1, <2>6, WalkOrder
<1> QED BY <1>1, Order

\* It is never at 0.
LEMMA WalkNotZero ==
  ASSUME NEW n \in Nat
  PROVE  Walk[n] # {}
<1> SUFFICES ASSUME Walk[n] = {} PROVE FALSE
  OBVIOUS
<1> DEFINE m == n % FIELD_LIMIT
<1>1. m \in 0 .. FIELD_LIMIT - 1
  BY Order
<1>2. Walk[m] = {}
  BY WalkReduced
<1>3. FIELD_LIMIT - m \in Nat /\ m + (FIELD_LIMIT - m) = FIELD_LIMIT /\ m \in Nat
  BY <1>1, Order
<1> HIDE DEF m
<1>4. PolyMul(Walk[m], Walk[FIELD_LIMIT - m]) = Walk[FIELD_LIMIT]
  BY <1>3, WalkAdds
<1>5. {} \in Elements
  BY Zero
<1>6. PolyMul({}, Walk[FIELD_LIMIT - m]) = {}
  BY <1>5, PolyMulZero
<1> QED BY <1>2, <1>4, <1>6, WalkOrder

\* It is at every element but 0.
LEMMA WalkOnto ==
  ASSUME NEW x \in Elements, x # {}
  PROVE  \E n \in 0 .. FIELD_LIMIT - 1 : Walk[n] = x
<1> DEFINE N == 0 .. FIELD_LIMIT - 1
           T == Elements \ {{}}
           w == [n \in N |-> Walk[n]]
<1>1. IsFiniteSet(N) /\ Cardinality(N) = FIELD_LIMIT
  BY FS_Interval, Order
<1>2. IsFiniteSet(T) /\ Cardinality(T) = FIELD_LIMIT
  <2> DEFINE zero == {}
  <2>1. zero \in Elements
    BY Zero
  <2> HIDE DEF zero
  <2>2. IsFiniteSet(Elements \ {zero}) /\ Cardinality(Elements \ {zero}) = Cardinality(Elements) - 1
    BY <2>1, Order, FS_RemoveElement
  <2> QED BY <2>2, Order DEF zero
<1>3. w \in [N -> T]
  BY WalkLaws, WalkNotZero
<1>4. w \in Injection(N, T)
  <2>1. \A i, j \in N : w[i] = w[j] => i = j
    BY WalkInjective
  <2> HIDE DEF w, N, T
  <2> QED BY <1>3, <2>1 DEF Injection, IsInjective
<1>5. w \in Surjection(N, T)
  <2> HIDE DEF w, N, T
  <2> QED BY <1>1, <1>2, <1>4, FS_Injection
<1>6. \E n \in N : w[n] = x
  <2> HIDE DEF w, N
  <2> QED BY <1>5 DEF Surjection
<1> QED BY <1>6

-----------------------------------------------------------------------------
(* The tables and the arithmetic on them                                   *)

\* The tables hold the walk so far.
TablesInv ==
  /\ l \in 0 .. FIELD_COUNT
  /\ log = [x \in Elements |-> log[x]]
  /\ antilog = [n \in 0 .. FIELD_LIMIT |-> antilog[n]]
  /\ l <= FIELD_LIMIT => b = Walk[l]
  /\ \A n \in 0 .. FIELD_LIMIT - 1 : n < l => antilog[n] = Walk[n] /\ log[Walk[n]] = n

\* They hold all of it.
Tabulated == \A n \in 0 .. FIELD_LIMIT - 1 : antilog[n] = Walk[n] /\ log[Walk[n]] = n

LEMMA TablesBegin ==
  ASSUME TablesInit
  PROVE  TablesInv
<1>1. /\ l = 0 /\ b = {0}
      /\ log = [x \in Elements |-> 0] /\ antilog = [n \in 0 .. FIELD_LIMIT |-> {}]
  BY DEF TablesInit
<1>2. \A n \in 0 .. FIELD_LIMIT - 1 : ~(n < l)
  BY <1>1, Order
<1>3. l \in 0 .. FIELD_COUNT /\ b = Walk[l]
  BY <1>1, Order, WalkLaws
<1> QED BY <1>1, <1>2, <1>3 DEF TablesInv

LEMMA TablesStep ==
  ASSUME TablesInv, BuildTables \/ UNCHANGED tables
  PROVE  TablesInv'
<1>1. CASE FillEntry
  <2>1. /\ l \in 0 .. FIELD_LIMIT - 1 /\ l' = l + 1
        /\ log' = [log EXCEPT ![b] = l]
        /\ antilog' = [antilog EXCEPT ![l] = b]
        /\ b' = Double(b) /\ b = Walk[l]
    BY <1>1, Order DEF FillEntry, TablesInv
  <2>2. l' \in 0 .. FIELD_COUNT /\ b' = Walk[l']
    BY <2>1, Order, WalkLaws
  <2>3. b \in Elements /\ l \in 0 .. FIELD_LIMIT
    BY <2>1, Order, WalkLaws
  <2>4. DOMAIN log = Elements /\ DOMAIN antilog = 0 .. FIELD_LIMIT
    BY DEF TablesInv
  <2>5. log' = [x \in Elements |-> log'[x]] /\ antilog' = [n \in 0 .. FIELD_LIMIT |-> antilog'[n]]
    BY <2>1, <2>4
  <2>6. ASSUME NEW n \in 0 .. FIELD_LIMIT - 1, n < l'
        PROVE  antilog'[n] = Walk[n] /\ log'[Walk[n]] = n
    <3>0. Walk[n] \in Elements /\ n \in 0 .. FIELD_LIMIT
      BY Order, WalkLaws
    <3>1. CASE n = l
      BY <2>1, <2>3, <2>4, <3>1
    <3>2. CASE n # l
      <4>1. n < l
        BY <2>1, <2>6, <3>2
      <4>2. antilog[n] = Walk[n] /\ log[Walk[n]] = n
        BY <4>1 DEF TablesInv
      <4>3. Walk[n] # b
        BY <2>1, <3>2, WalkInjective
      <4> QED BY <2>1, <2>4, <3>0, <3>2, <4>2, <4>3
    <3> QED BY <3>1, <3>2
  <2> QED BY <2>2, <2>5, <2>6 DEF TablesInv
<1>2. CASE Sentinels
  <2>1. /\ l = FIELD_LIMIT /\ l' = l + 1 /\ b' = b
        /\ log' = [log EXCEPT ![{}] = FIELD_LIMIT]
        /\ antilog' = [antilog EXCEPT ![FIELD_LIMIT] = {}]
    BY <1>2 DEF Sentinels
  <2>2. l' \in 0 .. FIELD_COUNT /\ ~(l' <= FIELD_LIMIT)
    BY <2>1, Order
  <2>3. DOMAIN log = Elements /\ DOMAIN antilog = 0 .. FIELD_LIMIT
    BY DEF TablesInv
  <2>4. log' = [x \in Elements |-> log'[x]] /\ antilog' = [n \in 0 .. FIELD_LIMIT |-> antilog'[n]]
    BY <2>1, <2>3
  <2>5. ASSUME NEW n \in 0 .. FIELD_LIMIT - 1
        PROVE  antilog'[n] = Walk[n] /\ log'[Walk[n]] = n
    <3>1. Walk[n] \in Elements /\ Walk[n] # {} /\ n \in 0 .. FIELD_LIMIT /\ n # FIELD_LIMIT
      BY Order, WalkLaws, WalkNotZero
    <3>2. antilog[n] = Walk[n] /\ log[Walk[n]] = n
      <4>1. n < l
        BY <2>1, Order
      <4> QED BY <4>1 DEF TablesInv
    <3> QED BY <2>1, <2>3, <3>1, <3>2
  <2> QED BY <2>2, <2>4, <2>5 DEF TablesInv
<1>3. CASE UNCHANGED tables
  BY <1>3 DEF tables, TablesInv
<1> QED BY <1>1, <1>2, <1>3 DEF BuildTables

LEMMA TablesComplete ==
  ASSUME TablesInv, Built
  PROVE  Tabulated
<1>1. \A n \in 0 .. FIELD_LIMIT - 1 : n < l
  BY Order DEF Built
<1> QED BY <1>1 DEF TablesInv, Tabulated

\* Every element but 0 is where its logarithm says.
LEMMA Logarithm ==
  ASSUME Tabulated, NEW x \in Elements, x # {}
  PROVE  log[x] \in 0 .. FIELD_LIMIT - 1 /\ x = Walk[log[x]]
<1>1. PICK n \in 0 .. FIELD_LIMIT - 1 : Walk[n] = x
  BY WalkOnto
<1> QED BY <1>1 DEF Tabulated

LEMMA MulIsExact ==
  ASSUME Tabulated, NEW x \in Elements, NEW y \in Elements
  PROVE  gf_mul(x, y) = PolyMul(x, y)
<1>1. CASE x = {} \/ y = {}
  BY <1>1, PolyMulZero DEF gf_mul
<1>2. CASE x # {} /\ y # {}
  <2>1. PICK m \in 0 .. FIELD_LIMIT - 1 : m = log[x] /\ x = Walk[m]
    BY <1>2, Logarithm
  <2>2. PICK n \in 0 .. FIELD_LIMIT - 1 : n = log[y] /\ y = Walk[n]
    BY <1>2, Logarithm
  <2> DEFINE i == IF m + n >= FIELD_LIMIT THEN m + n - FIELD_LIMIT ELSE m + n
  <2>3. gf_mul(x, y) = antilog[i]
    <3> DEFINE sum == log[x] + log[y]
               place == IF sum >= FIELD_LIMIT THEN sum - FIELD_LIMIT ELSE sum
    <3>1. gf_mul(x, y) = IF x = {} \/ y = {} THEN {} ELSE antilog[place]
      BY DEF gf_mul
    <3>2. sum = m + n
      BY <2>1, <2>2
    <3>3. i = place
      <4> HIDE DEF sum
      <4> QED BY <3>2, Order
    <3> HIDE DEF i, place
    <3> QED BY <1>2, <3>1, <3>3
  <2>4. i \in 0 .. FIELD_LIMIT - 1
    BY Order
  <2>5. i = (m + n) % FIELD_LIMIT
    <3>1. CASE m + n >= FIELD_LIMIT
      <4>1. i \in 0 .. FIELD_LIMIT - 1 /\ m + n = FIELD_LIMIT * 1 + i
        BY <3>1, Order
      <4> HIDE DEF i
      <4>2. (FIELD_LIMIT * 1 + i) % FIELD_LIMIT = i
        BY <4>1, Order, RemainderIs
      <4> QED BY <4>1, <4>2
    <3>2. CASE ~(m + n >= FIELD_LIMIT)
      <4>1. i \in 0 .. FIELD_LIMIT - 1 /\ m + n = FIELD_LIMIT * 0 + i
        BY <3>2, Order
      <4> HIDE DEF i
      <4>2. (FIELD_LIMIT * 0 + i) % FIELD_LIMIT = i
        BY <4>1, Order, RemainderIs
      <4> QED BY <4>1, <4>2
    <3> QED BY <3>1, <3>2
  <2> HIDE DEF i
  <2>6. m \in Nat /\ n \in Nat /\ m + n \in Nat
    BY Order
  <2>7. antilog[i] = Walk[i]
    BY <2>4 DEF Tabulated
  <2>8. Walk[i] = Walk[m + n]
    BY <2>5, <2>6, WalkReduced
  <2>9. PolyMul(Walk[m], Walk[n]) = Walk[m + n]
    BY <2>6, WalkAdds
  <2> QED BY <2>1, <2>2, <2>3, <2>7, <2>8, <2>9
<1> QED BY <1>1, <1>2

\* The inverse takes the walk back to where it is 1.
LEMMA InvIsExact ==
  ASSUME Tabulated, NEW x \in Elements \ {{}}
  PROVE  PolyMul(x, gf_inv(x)) = {0}
<1>1. PICK n \in 0 .. FIELD_LIMIT - 1 : n = log[x] /\ x = Walk[n]
  BY Logarithm
<1> DEFINE m == FIELD_LIMIT - n
           i == m % FIELD_LIMIT
<1>2. n \in Nat /\ m \in Nat /\ n + m = FIELD_LIMIT
  BY Order
<1>3. i \in 0 .. FIELD_LIMIT - 1
  <2> HIDE DEF m
  <2> QED BY <1>2, Order, Remainder
<1>4. gf_inv(x) = antilog[i]
  BY <1>1 DEF gf_inv
<1>5. Walk[i] = Walk[m]
  BY <1>2, WalkReduced
<1> HIDE DEF m, i
<1>6. antilog[i] = Walk[i]
  BY <1>3 DEF Tabulated
<1>7. PolyMul(Walk[n], Walk[m]) = Walk[n + m]
  BY <1>2, WalkAdds
<1> QED BY <1>1, <1>2, <1>4, <1>5, <1>6, <1>7, WalkOrder

\* A power is a product of logarithms.
LEMMA PowIsWalk ==
  ASSUME Tabulated, NEW a \in 0 .. FIELD_LIMIT - 1, NEW e \in Nat
  PROVE  a * e \in Nat /\ gf_pow(Walk[a], e) = Walk[a * e]
<1>1. a \in Nat /\ a * e \in Nat
  BY Order
<1>2. CASE e = 0
  <2>1. a * e = 0
    BY <1>1, <1>2
  <2> QED BY <1>1, <1>2, <2>1, WalkLaws DEF gf_pow
<1>3. CASE e # 0
  <2>1. Walk[a] # {} /\ log[Walk[a]] = a
    BY <1>1, WalkNotZero DEF Tabulated
  <2>2. gf_pow(Walk[a], e) = antilog[(a * e) % FIELD_LIMIT]
    BY <1>3, <2>1 DEF gf_pow
  <2> DEFINE n == a * e
             i == n % FIELD_LIMIT
  <2>3. n \in Nat /\ gf_pow(Walk[a], e) = antilog[i]
    BY <1>1, <2>2
  <2> HIDE DEF n
  <2>4. i \in 0 .. FIELD_LIMIT - 1
    BY <2>3, Order, Remainder
  <2>5. Walk[i] = Walk[n]
    BY <2>3, WalkReduced
  <2> HIDE DEF i
  <2>6. antilog[i] = Walk[i]
    BY <2>4 DEF Tabulated
  <2> QED BY <2>3, <2>5, <2>6 DEF n
<1> QED BY <1>2, <1>3

\* So a power is the repeated product.
LEMMA PowIsExact ==
  ASSUME Tabulated, NEW x \in Elements, NEW e \in Nat
  PROVE  gf_pow(x, 0) = {0} /\ gf_pow(x, e + 1) = PolyMul(x, gf_pow(x, e))
<1>0. gf_pow(x, 0) = {0} /\ e + 1 \in Nat /\ e + 1 # 0
  BY DEF gf_pow
<1>1. CASE x = {}
  <2>1. gf_pow(x, e + 1) = {}
    BY <1>0, <1>1 DEF gf_pow
  <2> QED BY <1>0, <1>1, <2>1, PolyMulZero
<1>2. CASE x # {}
  <2>1. PICK a \in 0 .. FIELD_LIMIT - 1 : x = Walk[a]
    BY <1>2, Logarithm
  <2>2. a \in Nat /\ a * e \in Nat /\ a * (e + 1) = a + a * e
    BY Order
  <2>3. gf_pow(x, e) = Walk[a * e] /\ gf_pow(x, e + 1) = Walk[a * (e + 1)]
    BY <1>0, <2>1, PowIsWalk
  <2>4. PolyMul(Walk[a], Walk[a * e]) = Walk[a + a * e]
    BY <2>2, WalkAdds
  <2> QED BY <1>0, <2>1, <2>2, <2>3, <2>4
<1> QED BY <1>1, <1>2

\* What ArithmeticIsExact says of the tables once they are built.
Exact ==
  /\ \A x, y \in Elements : gf_mul(x, y) = PolyMul(x, y)
  /\ \A x \in Elements \ {{}} : PolyMul(x, gf_inv(x)) = {0}
  /\ \A x \in Elements, e \in 0 .. 2 * FIELD_COUNT :
       gf_pow(x, 0) = {0} /\ gf_pow(x, e + 1) = PolyMul(x, gf_pow(x, e))

ExactOnceBuilt == Built => Exact

\* Every step of the encoder or of a caller leaves the tables alone or builds
\* them on.
LEMMA StepOfTables ==
  ASSUME [CoeffNext]_coeffVars
  PROVE  BuildTables \/ UNCHANGED tables
BY DEF CoeffNext, coeffVars, BuildEncoder, New, RsNext, rsVars, Tables, NewEncoder, TakeBase,
       SkipBase, Exhausted, Exponents

\* For every width of a word and every primitive polynomial: the logarithm
\* tables give the product, the inverse and the powers of the field.
THEOREM LogarithmsMultiply == CoeffSpec => ArithmeticIsExact
<1>1. CoeffInit => TablesInv
  BY TablesBegin DEF CoeffInit, RsInit
<1>2. TablesInv /\ [CoeffNext]_coeffVars => TablesInv'
  BY TablesStep, StepOfTables
<1>3. TablesInv => ExactOnceBuilt
  <2> SUFFICES ASSUME TablesInv, Built PROVE Exact
    BY DEF ExactOnceBuilt
  <2>1. Tabulated
    BY TablesComplete
  <2>2. \A e \in 0 .. 2 * FIELD_COUNT : e \in Nat
    BY Order
  <2> QED BY <2>1, <2>2, MulIsExact, InvIsExact, PowIsExact DEF Exact
<1>4. ExactOnceBuilt' =>
        [Completed =>
          /\ \A x, y \in Elements : gf_mul(x, y)' = PolyMul(x, y)
          /\ \A x \in Elements \ {{}} : PolyMul(x, gf_inv(x)') = {0}
          /\ \A x \in Elements, e \in 0 .. 2 * FIELD_COUNT :
               /\ gf_pow(x, 0)' = {0}
               /\ gf_pow(x, e + 1)' = PolyMul(x, gf_pow(x, e)')]_tables
  BY DEF ExactOnceBuilt, Exact, Completed
<1> QED BY <1>1, <1>2, <1>3, <1>4, PTL DEF CoeffSpec, ArithmeticIsExact

-----------------------------------------------------------------------------
(* The greatest common divisor                                             *)

Divides(d, n) == \E k \in Nat : n = d * k

LEMMA DividesLaws ==
  ASSUME NEW d \in Nat
  PROVE  /\ Divides(d, 0) /\ Divides(d, d)
         /\ \A m, n \in Nat : Divides(d, m) /\ Divides(d, n) => Divides(d, m + n)
         /\ \A m, n \in Nat : Divides(d, m + n) /\ Divides(d, n) => Divides(d, m)
         /\ \A m, n \in Nat : Divides(d, m) => Divides(d, m * n)
<1>1. Divides(d, 0)
  <2>1. 0 \in Nat /\ 0 = d * 0
    OBVIOUS
  <2> QED BY <2>1 DEF Divides
<1>2. Divides(d, d)
  <2>1. 1 \in Nat /\ d = d * 1
    OBVIOUS
  <2> QED BY <2>1 DEF Divides
<1>3. ASSUME NEW m \in Nat, NEW n \in Nat, Divides(d, m), Divides(d, n)
      PROVE  Divides(d, m + n)
  <2>1. PICK i \in Nat : m = d * i
    BY <1>3 DEF Divides
  <2>2. PICK j \in Nat : n = d * j
    BY <1>3 DEF Divides
  <2>3. i + j \in Nat /\ m + n = d * (i + j)
    BY <2>1, <2>2
  <2> QED BY <2>3 DEF Divides
<1>4. ASSUME NEW m \in Nat, NEW n \in Nat, Divides(d, m + n), Divides(d, n)
      PROVE  Divides(d, m)
  <2>1. PICK i \in Nat : m + n = d * i
    BY <1>4 DEF Divides
  <2>2. PICK j \in Nat : n = d * j
    BY <1>4 DEF Divides
  <2>3. d * i \in Nat /\ d * j \in Nat /\ m = d * i - d * j /\ d * j <= d * i
    BY <2>1, <2>2
  <2>4. CASE i < j
    <3>1. d * i + d <= d * j
      BY <2>4, LargerFactor
    <3>2. d = 0
      BY <2>3, <3>1
    <3>3. m = d * 0
      BY <2>1, <2>2, <3>2
    <3> QED BY <3>3 DEF Divides
  <2>5. CASE j <= i
    <3>1. i - j \in Nat /\ m = d * (i - j)
      BY <2>3, <2>5
    <3> QED BY <3>1 DEF Divides
  <2> QED BY <2>4, <2>5
<1>5. ASSUME NEW m \in Nat, NEW n \in Nat, Divides(d, m) PROVE Divides(d, m * n)
  <2>1. PICK i \in Nat : m = d * i
    BY <1>5 DEF Divides
  <2>2. i * n \in Nat /\ m * n = d * (i * n)
    BY <2>1
  <2> QED BY <2>2 DEF Divides
<1> QED BY <1>1, <1>2, <1>3, <1>4, <1>5

LEMMA DividesBoth ==
  ASSUME NEW m \in Nat, NEW n \in Nat, Divides(m, n), Divides(n, m)
  PROVE  m = n
<1>1. PICK i \in Nat : n = m * i
  BY DEF Divides
<1>2. PICK j \in Nat : m = n * j
  BY DEF Divides
<1>3. CASE m = 0 \/ n = 0
  BY <1>1, <1>2, <1>3
<1>4. CASE m # 0 /\ n # 0
  <2>1. i # 0 /\ j # 0
    BY <1>1, <1>2, <1>4
  <2>2. m * 0 + m <= m * i
    BY <2>1, LargerFactor
  <2>3. n * 0 + n <= n * j
    BY <2>1, LargerFactor
  <2>4. m * 0 = 0 /\ n * 0 = 0
    OBVIOUS
  <2> QED BY <1>1, <1>2, <2>2, <2>3, <2>4
<1> QED BY <1>3, <1>4

\* A step of Euclid keeps the common divisors.
LEMMA EuclidKeepsDivisors ==
  ASSUME NEW x \in Nat, NEW y \in Nat \ {0}, NEW d \in Nat
  PROVE  Divides(d, x) /\ Divides(d, y) <=> Divides(d, y) /\ Divides(d, x % y)
<1> DEFINE r == x % y
           q == x \div y
<1>1. r \in Nat /\ q \in Nat /\ x = y * q + r
  BY Remainder
<1> HIDE DEF r, q
<1>2. y * q \in Nat /\ x = r + y * q
  BY <1>1
<1>3. Divides(d, y) => Divides(d, y * q)
  BY <1>1, DividesLaws
<1>4. Divides(d, r) /\ Divides(d, y * q) => Divides(d, r + y * q)
  BY <1>1, <1>2, DividesLaws
<1>5. Divides(d, r + y * q) /\ Divides(d, y * q) => Divides(d, r)
  BY <1>1, <1>2, DividesLaws
<1> QED BY <1>2, <1>3, <1>4, <1>5 DEF r

\* The recursion has a solution.
LEMMA GcdLaws ==
  /\ \A x \in Nat : gcd[<<x, 0>>] = x
  /\ \A x \in Nat, y \in Nat \ {0} : gcd[<<x, y>>] = gcd[<<y, x % y>>]
<1> DEFINE Common(x, y) == {d \in Nat : Divides(d, x) /\ Divides(d, y)}
           Def(f) == f = [p \in Nat \X Nat |->
                            IF p[2] = 0 THEN p[1] ELSE f[<<p[2], p[1] % p[2]>>]]
           g == [p \in Nat \X Nat |-> CHOOSE n \in Nat : Common(n, 0) = Common(p[1], p[2])]
<1>1. ASSUME NEW x \in Nat PROVE g[<<x, 0>>] = x
  <2> DEFINE Is(n) == Common(n, 0) = Common(x, 0)
  <2>1. \A n \in Nat : Is(n) => n = x
    <3> SUFFICES ASSUME NEW n \in Nat, Is(n) PROVE n = x
      OBVIOUS
    <3>1. n \in Common(n, 0) /\ x \in Common(x, 0)
      BY DividesLaws
    <3>2. n \in Common(x, 0) /\ x \in Common(n, 0)
      <4> HIDE DEF Common
      <4> QED BY <3>1
    <3> QED BY <3>2, DividesBoth
  <2>2. Is(x)
    OBVIOUS
  <2>3. g[<<x, 0>>] = CHOOSE n \in Nat : Is(n)
    OBVIOUS
  <2> HIDE DEF g, Is
  <2> QED BY <2>1, <2>2, <2>3
<1>2. ASSUME NEW x \in Nat, NEW y \in Nat \ {0} PROVE g[<<x, y>>] = g[<<y, x % y>>]
  <2>1. x % y \in Nat
    BY Remainder
  <2>2. Common(x, y) = Common(y, x % y)
    BY EuclidKeepsDivisors
  <2>3. g[<<x, y>>] = CHOOSE n \in Nat : Common(n, 0) = Common(x, y)
    OBVIOUS
  <2>4. g[<<y, x % y>>] = CHOOSE n \in Nat : Common(n, 0) = Common(y, x % y)
    BY <2>1
  <2> HIDE DEF g, Common
  <2> QED BY <2>2, <2>3, <2>4
<1>3. Def(g)
  <2>1. ASSUME NEW p \in Nat \X Nat
        PROVE  g[p] = IF p[2] = 0 THEN p[1] ELSE g[<<p[2], p[1] % p[2]>>]
    <3>1. PICK x \in Nat, y \in Nat : p = <<x, y>>
      OBVIOUS
    <3> HIDE DEF g
    <3>2. CASE y = 0
      BY <1>1, <3>1, <3>2
    <3>3. CASE y # 0
      BY <1>2, <3>1, <3>3
    <3> QED BY <3>2, <3>3
  <2>2. g = [p \in Nat \X Nat |-> g[p]]
    OBVIOUS
  <2> HIDE DEF g
  <2> QED BY <2>1, <2>2
<1>4. Def(gcd)
  <2>1. gcd = CHOOSE f : Def(f)
    BY DEF gcd
  <2> HIDE DEF Def
  <2> QED BY <1>3, <2>1
<1>5. ASSUME NEW x \in Nat PROVE gcd[<<x, 0>>] = x
  BY <1>4
<1>6. ASSUME NEW x \in Nat, NEW y \in Nat \ {0} PROVE gcd[<<x, y>>] = gcd[<<y, x % y>>]
  BY <1>4
<1> QED BY <1>5, <1>6

\* Every common divisor divides the greatest.
LEMMA GcdIsMultiple ==
  ASSUME NEW x \in Nat, NEW y \in Nat, NEW d \in Nat, Divides(d, x), Divides(d, y)
  PROVE  Divides(d, gcd[<<x, y>>])
<1> DEFINE For(n) == \A m \in Nat : Divides(d, m) /\ Divides(d, n) => Divides(d, gcd[<<m, n>>])
           S == {k \in Nat : \A n \in 0 .. k : For(n)}
<1>1. 0 \in S
  <2>1. For(0)
    BY GcdLaws
  <2>2. \A n \in 0 .. 0 : n = 0
    OBVIOUS
  <2> HIDE DEF For
  <2> QED BY <2>1, <2>2
<1>2. ASSUME NEW k \in Nat, k \in S PROVE k + 1 \in S
  <2> DEFINE n == k + 1
  <2>1. ASSUME NEW m \in Nat, Divides(d, m), Divides(d, n) PROVE Divides(d, gcd[<<m, n>>])
    <3>1. n \in Nat \ {0} /\ m % n \in 0 .. k
      <4>1. n \in Nat \ {0} /\ n - 1 = k
        OBVIOUS
      <4> HIDE DEF n
      <4> QED BY <4>1, Remainder
    <3> HIDE DEF n
    <3>2. gcd[<<m, n>>] = gcd[<<n, m % n>>]
      BY <3>1, GcdLaws
    <3>3. Divides(d, m % n)
      BY <2>1, <3>1, EuclidKeepsDivisors
    <3>4. For(m % n)
      <4> HIDE DEF For
      <4> QED BY <1>2, <3>1
    <3> QED BY <2>1, <3>1, <3>2, <3>3, <3>4
  <2>2. For(n)
    BY <2>1
  <2>3. \A i \in 0 .. k + 1 : i \in 0 .. k \/ i = n
    OBVIOUS
  <2> HIDE DEF For, n
  <2> QED BY <1>2, <2>2, <2>3
<1>3. For(y)
  <2>1. y \in S
    <3> HIDE DEF S
    <3> QED BY <1>1, <1>2, NatInSet
  <2> HIDE DEF For
  <2> QED BY <2>1
<1> QED BY <1>3

\* The multiples of a number coprime to n are back at a multiple of n no sooner
\* than n.
LEMMA CoprimeCancels ==
  ASSUME NEW n \in Nat \ {0}, NEW a \in Nat, gcd[<<n, a>>] = 1,
         NEW d \in 1 .. n - 1
  PROVE  ~Divides(n, a * d)
<1> SUFFICES ASSUME Divides(n, a * d) PROVE FALSE
  OBVIOUS
<1> DEFINE S == {k \in Nat : \A i \in 1 .. k : ~Divides(n, a * i)}
<1>1. PICK k \in Nat : k \in S /\ k + 1 \notin S
  <2>1. 0 \in S
    OBVIOUS
  <2>2. d \in Nat /\ d \in 1 .. d
    OBVIOUS
  <2>3. d \notin S
    BY <2>2
  <2> HIDE DEF S
  <2> QED BY <2>1, <2>2, <2>3, NatInSet
<1> DEFINE e == k + 1
<1>2. Divides(n, a * e) /\ \A i \in 1 .. k : ~Divides(n, a * i)
  <2>1. \A i \in 1 .. k + 1 : i \in 1 .. k \/ i = e
    OBVIOUS
  <2> QED BY <1>1, <2>1
<1>3. e \in Nat \ {0} /\ e <= d
  <2>1. ~(e <= d) => d \in 1 .. k
    OBVIOUS
  <2> QED BY <1>2, <2>1
<1> DEFINE q == n \div e
           r == n % e
<1>4. q \in Nat /\ r \in 0 .. e - 1 /\ n = e * q + r
  <2> HIDE DEF e
  <2> QED BY <1>3, Remainder
<1>5. r = 0
  <2>1. r \in Nat /\ (r # 0 => r \in 1 .. k)
    BY <1>4
  <2> HIDE DEF e, q, r
  <2>2. a * r \in Nat /\ a * e \in Nat /\ (a * e) * q \in Nat
    BY <1>3, <1>4, <2>1
  <2>3. a * n = a * r + (a * e) * q
    <3>1. a * n = a * (e * q) + a * r
      BY <1>3, <1>4, <2>1
    <3>2. a * (e * q) = (a * e) * q
      BY <1>3, <1>4
    <3> QED BY <2>2, <3>1, <3>2
  <2>4. Divides(n, a * n)
    BY DEF Divides
  <2>5. Divides(n, (a * e) * q)
    BY <1>2, <1>4, <2>2, DividesLaws
  <2>6. Divides(n, a * r)
    BY <2>2, <2>3, <2>4, <2>5, DividesLaws
  <2> QED BY <1>2, <2>1, <2>6
<1> HIDE DEF e, q, r
<1>6. n = e * q /\ n = q * e
  BY <1>3, <1>4, <1>5
<1>7. PICK j \in Nat : a * e = n * j
  BY <1>2 DEF Divides
<1>8. a = q * j
  <2>1. q * j \in Nat
    BY <1>4
  <2>2. e * a = e * (q * j)
    <3>1. a * e = (e * q) * j
      BY <1>6, <1>7
    <3>2. (e * q) * j = e * (q * j) /\ a * e = e * a
      BY <1>3, <1>4
    <3> QED BY <3>1, <3>2
  <2>3. e * a \in Nat /\ e * (q * j) \in Nat
    BY <1>3, <2>1
  <2>4. a < q * j => e * a + e <= e * (q * j)
    BY <1>3, <2>1, LargerFactor
  <2>5. q * j < a => e * (q * j) + e <= e * a
    BY <1>3, <2>1, LargerFactor
  <2> QED BY <1>3, <2>1, <2>2, <2>3, <2>4, <2>5
<1>9. Divides(q, 1)
  <2>1. Divides(q, n) /\ Divides(q, a)
    BY <1>3, <1>6, <1>8 DEF Divides
  <2> QED BY <1>4, <2>1, GcdIsMultiple
<1>10. q = 1
  <2>1. Divides(1, q)
    <3>1. q = 1 * q
      BY <1>4
    <3> QED BY <1>4, <3>1 DEF Divides
  <2> QED BY <1>4, <1>9, <2>1, DividesBoth
<1> QED BY <1>3, <1>6, <1>10

-----------------------------------------------------------------------------
(* The input bases                                                         *)

\* The logarithms below n of which the walk takes a base.
Coprimes(n) == {k \in 0 .. n - 1 : gcd[<<FIELD_LIMIT, k>>] = 1}

\* The bases taken when the walk is at n.
BasesBelow(s, n) ==
  /\ s \in Seq(Elements)
  /\ Len(s) = Cardinality(Coprimes(n))
  /\ \A i \in 1 .. Len(s) : \E k \in Coprimes(n) : s[i] = Walk[k]
  /\ \A i \in 1 .. Len(s), j \in 1 .. Len(s) : s[i] = s[j] => i = j

BasesInv ==
  /\ pc \in {"tables", "idle", "bases", "ready", "multiply", "panic"}
  /\ pc # "tables" => Built
  /\ logbase \in 0 .. FIELD_LIMIT /\ BasesBelow(input_bases, logbase)
  /\ input_count \in Nat /\ first_exponent \in Nat /\ recovery_count \in Nat
  /\ pc = "panic" => logbase = FIELD_LIMIT /\ Len(input_bases) < input_count
  /\ pc \in {"ready", "multiply"} =>
       /\ Len(input_bases) = input_count
       /\ recovery_exponents = [r \in 1 .. recovery_count |-> first_exponent + r - 1]

LEMMA CoprimesAreFinite ==
  ASSUME NEW n \in Nat
  PROVE  IsFiniteSet(Coprimes(n)) /\ Cardinality(Coprimes(n)) \in Nat
<1>1. IsFiniteSet(0 .. n - 1)
  BY FS_Interval
<1>2. Coprimes(n) \in SUBSET (0 .. n - 1)
  BY DEF Coprimes
<1> QED BY <1>1, <1>2, FS_Subset, FS_CardinalityType

LEMMA NoBases == BasesBelow(<<>>, 0)
<1>1. Coprimes(0) = {}
  BY DEF Coprimes
<1>2. Cardinality({}) = 0
  BY FS_EmptySet
<1>3. <<>> \in Seq(Elements) /\ Len(<<>>) = 0
  OBVIOUS
<1> QED BY <1>1, <1>2, <1>3 DEF BasesBelow

\* A logarithm that is not coprime to the order is passed over.
LEMMA BasesSkip ==
  ASSUME NEW n \in Nat, NEW s, BasesBelow(s, n), gcd[<<FIELD_LIMIT, n>>] # 1
  PROVE  BasesBelow(s, n + 1)
<1>1. \A k : k \in 0 .. (n + 1) - 1 <=> k \in 0 .. n - 1 \/ k = n
  OBVIOUS
<1>2. Coprimes(n + 1) = Coprimes(n)
  BY <1>1 DEF Coprimes
<1> QED BY <1>2 DEF BasesBelow

\* One that is coprime gives a base that is not there yet.
LEMMA BasesTake ==
  ASSUME NEW n \in 0 .. FIELD_LIMIT - 1, NEW s, BasesBelow(s, n),
         gcd[<<FIELD_LIMIT, n>>] = 1
  PROVE  BasesBelow(Append(s, Walk[n]), n + 1)
<1>0. n \in Nat
  BY Order
<1>1. \A k : k \in 0 .. (n + 1) - 1 <=> k \in 0 .. n - 1 \/ k = n
  BY <1>0
<1>2. Coprimes(n + 1) = Coprimes(n) \cup {n} /\ n \notin Coprimes(n)
  BY <1>0, <1>1 DEF Coprimes
<1>3. Cardinality(Coprimes(n + 1)) = Cardinality(Coprimes(n)) + 1
  BY <1>0, <1>2, CoprimesAreFinite, FS_AddElement
<1> DEFINE t == Append(s, Walk[n])
<1>4. s \in Seq(Elements) /\ Walk[n] \in Elements /\ Len(s) = Cardinality(Coprimes(n))
  BY <1>0, WalkLaws DEF BasesBelow
<1>5. /\ t \in Seq(Elements) /\ Len(t) = Len(s) + 1 /\ Len(s) \in Nat
      /\ t[Len(s) + 1] = Walk[n] /\ \A i \in 1 .. Len(s) : t[i] = s[i]
  BY <1>4
<1> HIDE DEF t
<1>6. \A i \in 1 .. Len(t) : i \in 1 .. Len(s) \/ i = Len(s) + 1
  BY <1>5
<1>7. ASSUME NEW i \in 1 .. Len(t) PROVE \E k \in Coprimes(n + 1) : t[i] = Walk[k]
  BY <1>2, <1>5, <1>6 DEF BasesBelow
<1>8. ASSUME NEW i \in 1 .. Len(s) PROVE t[i] # Walk[n]
  <2>1. PICK k \in Coprimes(n) : s[i] = Walk[k]
    BY DEF BasesBelow
  <2>2. k \in 0 .. n - 1
    BY <2>1 DEF Coprimes
  <2>3. k \in 0 .. FIELD_LIMIT - 1 /\ k # n
    BY <1>0, <2>2, Order
  <2> QED BY <1>5, <2>1, <2>3, WalkInjective
<1>9. ASSUME NEW i \in 1 .. Len(t), NEW j \in 1 .. Len(t), t[i] = t[j] PROVE i = j
  <2>1. CASE i \in 1 .. Len(s) /\ j \in 1 .. Len(s)
    BY <1>5, <1>9, <2>1 DEF BasesBelow
  <2>2. CASE i \in 1 .. Len(s) /\ j = Len(s) + 1
    BY <1>5, <1>8, <1>9, <2>2
  <2>3. CASE j \in 1 .. Len(s) /\ i = Len(s) + 1
    BY <1>5, <1>8, <1>9, <2>3
  <2> QED BY <1>6, <2>1, <2>2, <2>3
<1>10. Len(t) = Cardinality(Coprimes(n + 1))
  BY <1>3, <1>4, <1>5
<1>11. BasesBelow(t, n + 1)
  BY <1>5, <1>7, <1>9, <1>10 DEF BasesBelow
<1> QED BY <1>11 DEF t

LEMMA BasesStep ==
  ASSUME TablesInv, BasesInv, [CoeffNext]_coeffVars
  PROVE  BasesInv'
<1>1. CASE Tables /\ UNCHANGED <<coeff, simd>>
  <2>1. /\ pc = "tables" /\ pc' = IF Built' THEN "idle" ELSE pc
        /\ UNCHANGED <<request, input_bases, logbase, recovery_exponents>>
    BY <1>1 DEF Tables
  <2>2. pc' \in {"tables", "idle"} /\ (pc' # "tables" => Built')
    BY <2>1
  <2> QED BY <2>1, <2>2 DEF BasesInv, request
<1>2. ASSUME NEW r \in Requests, NewEncoder(r) PROVE BasesInv'
  <2>1. r.input_count \in Nat /\ r.first_exponent \in Nat /\ r.recovery_count \in Nat
    BY EncoderAssumption
  <2> QED BY <1>2, <2>1 DEF NewEncoder, BasesInv, tables, Built
<1>3. CASE TakeBase
  <2>1. /\ pc = "bases" /\ logbase \in 0 .. FIELD_LIMIT - 1 /\ Built
        /\ gcd[<<FIELD_LIMIT, logbase>>] = 1
        /\ input_bases' = Append(input_bases, antilog[logbase])
        /\ logbase' = logbase + 1
        /\ UNCHANGED <<tables, request, pc, recovery_exponents>>
    BY <1>3, Order DEF TakeBase, BasesInv
  <2>2. antilog[logbase] = Walk[logbase]
    BY <2>1, TablesComplete DEF Tabulated
  <2>3. BasesBelow(input_bases', logbase')
    <3>1. BasesBelow(Append(input_bases, Walk[logbase]), logbase + 1)
      BY <2>1, BasesTake DEF BasesInv
    <3> QED BY <2>1, <2>2, <3>1
  <2>4. logbase' \in 0 .. FIELD_LIMIT
    BY <2>1, Order
  <2> QED BY <2>1, <2>3, <2>4 DEF BasesInv, tables, Built, request
<1>4. CASE SkipBase
  <2>1. /\ pc = "bases" /\ logbase \in 0 .. FIELD_LIMIT - 1
        /\ gcd[<<FIELD_LIMIT, logbase>>] # 1
        /\ logbase' = logbase + 1
        /\ UNCHANGED <<tables, request, pc, input_bases, recovery_exponents>>
    BY <1>4, Order DEF SkipBase, BasesInv
  <2>2. BasesBelow(input_bases, logbase + 1)
    <3>1. logbase \in Nat
      BY <2>1, Order
    <3> QED BY <2>1, <3>1, BasesSkip DEF BasesInv
  <2>3. logbase' \in 0 .. FIELD_LIMIT
    BY <2>1, Order
  <2> QED BY <2>1, <2>2, <2>3 DEF BasesInv, tables, Built, request
<1>5. CASE Exhausted
  <2>1. logbase = FIELD_LIMIT
    BY <1>5, Order DEF Exhausted, BasesInv
  <2> QED BY <1>5, <2>1 DEF Exhausted, BasesInv, tables, Built, request
<1>6. CASE Exponents
  BY <1>6 DEF Exponents, BasesInv, tables, Built, request
<1>7. ASSUME NEW path \in Paths, New(path) PROVE BasesInv'
  BY <1>7 DEF New, BasesInv, tables, Built, request
<1>8. CASE UNCHANGED coeffVars
  BY <1>8 DEF coeffVars, rsVars, BasesInv, tables, Built, request
<1> QED BY <1>1, <1>2, <1>3, <1>4, <1>5, <1>6, <1>7, <1>8
    DEF CoeffNext, BuildEncoder, RsNext

LEMMA EncoderInvariant == CoeffSpec => [](TablesInv /\ BasesInv)
<1>1. CoeffInit => TablesInv /\ BasesInv
  <2> SUFFICES ASSUME CoeffInit PROVE TablesInv /\ BasesInv
    OBVIOUS
  <2>1. RsInit /\ TablesInit
    BY DEF CoeffInit, RsInit
  <2>2. 0 \in 0 .. FIELD_LIMIT
    BY Order
  <2> QED BY <2>1, <2>2, TablesBegin, NoBases DEF RsInit, BasesInv
<1>2. TablesInv /\ BasesInv /\ [CoeffNext]_coeffVars => (TablesInv /\ BasesInv)'
  BY TablesStep, StepOfTables, BasesStep
<1> QED BY <1>1, <1>2, PTL DEF CoeffSpec

\* A base has the full order.
LEMMA PowersAreDistinct ==
  ASSUME Tabulated, NEW a \in Coprimes(FIELD_LIMIT),
         NEW e \in 0 .. FIELD_LIMIT - 1, NEW f \in 0 .. FIELD_LIMIT - 1, e < f
  PROVE  gf_pow(Walk[a], e) # gf_pow(Walk[a], f)
<1> SUFFICES ASSUME gf_pow(Walk[a], e) = gf_pow(Walk[a], f) PROVE FALSE
  OBVIOUS
<1>1. a \in 0 .. FIELD_LIMIT - 1 /\ a \in Nat /\ e \in Nat /\ f \in Nat
      /\ gcd[<<FIELD_LIMIT, a>>] = 1
  BY Order DEF Coprimes
<1> DEFINE d == f - e
<1>2. d \in 1 .. FIELD_LIMIT - 1 /\ d \in Nat /\ f = e + d
  BY <1>1, Order
<1> HIDE DEF d
<1>3. a * e \in Nat /\ a * d \in Nat /\ a * f = a * d + a * e
  BY <1>1, <1>2
<1>4. Walk[a * e] = Walk[a * f]
  BY <1>1, PowIsWalk
<1> DEFINE i == (a * e) % FIELD_LIMIT
           m == FIELD_LIMIT - i
           q == (a * e) \div FIELD_LIMIT
<1>5. i \in 0 .. FIELD_LIMIT - 1 /\ q \in Nat /\ a * e = FIELD_LIMIT * q + i
  BY <1>3, Order, Remainder
<1>6. m \in Nat /\ i + m = FIELD_LIMIT
  BY <1>5, Order
<1> HIDE DEF i, m, q
\* Past the powers up to a multiple of the order, e is 0.
<1>7. Walk[m + a * e] = {0}
  <2>1. m + a * e = FIELD_LIMIT * q + FIELD_LIMIT /\ FIELD_LIMIT * q \in Nat
    BY <1>3, <1>5, <1>6, Order
  <2>2. FIELD_LIMIT * (q + 1) = FIELD_LIMIT * q + FIELD_LIMIT
    BY <1>5, Order
  <2>3. 0 \in 0 .. FIELD_LIMIT - 1 /\ q + 1 \in Nat
    BY <1>5, Order
  <2>4. (FIELD_LIMIT * (q + 1) + 0) % FIELD_LIMIT = 0
    BY <2>3, Order, RemainderIs
  <2>5. (m + a * e) % FIELD_LIMIT = 0
    <3>1. m + a * e = FIELD_LIMIT * (q + 1) + 0
      BY <2>1, <2>2, Order
    <3> QED BY <2>4, <3>1
  <2>6. m + a * e \in Nat
    BY <1>3, <1>6
  <2> QED BY <2>5, <2>6, WalkReduced, WalkLaws
<1>8. Walk[m + a * f] = {0}
  <2>1. a * f \in Nat
    BY <1>3
  <2>2. PolyMul(Walk[m], Walk[a * e]) = Walk[m + a * e]
    BY <1>3, <1>6, WalkAdds
  <2>3. PolyMul(Walk[m], Walk[a * f]) = Walk[m + a * f]
    BY <1>6, <2>1, WalkAdds
  <2> QED BY <1>4, <1>7, <2>2, <2>3
<1>9. Walk[a * d] = {0}
  <2>1. m + a * f = (m + a * e) + a * d /\ m + a * e \in Nat
    BY <1>3, <1>6
  <2>2. PolyMul(Walk[m + a * e], Walk[a * d]) = Walk[(m + a * e) + a * d]
    BY <1>3, <2>1, WalkAdds
  <2>3. PolyMul({0}, Walk[a * d]) = Walk[a * d]
    BY <1>3, WalkLaws, PolyMulOne
  <2> QED BY <1>7, <1>8, <2>1, <2>2, <2>3
<1> DEFINE k == (a * d) % FIELD_LIMIT
           p == (a * d) \div FIELD_LIMIT
<1>10. k \in 0 .. FIELD_LIMIT - 1 /\ p \in Nat /\ a * d = FIELD_LIMIT * p + k
  BY <1>3, Order, Remainder
<1>11. Walk[k] = {0}
  BY <1>3, <1>9, WalkReduced
<1> HIDE DEF k, p
<1>12. k = 0
  BY <1>10, <1>11, Order, WalkOrder
<1>13. a * d = FIELD_LIMIT * p
  BY <1>3, <1>10, <1>12, Order
<1> QED BY <1>1, <1>2, <1>10, <1>13, Order, CoprimeCancels DEF Divides

LEMMA BaseHasFullOrder ==
  ASSUME Tabulated, NEW a \in Coprimes(FIELD_LIMIT)
  PROVE  Cardinality({gf_pow(Walk[a], e) : e \in 0 .. FIELD_LIMIT - 1}) = FIELD_LIMIT
<1> DEFINE N == 0 .. FIELD_LIMIT - 1
           T == {gf_pow(Walk[a], e) : e \in N}
           w == [e \in N |-> gf_pow(Walk[a], e)]
<1>1. IsFiniteSet(N) /\ Cardinality(N) = FIELD_LIMIT
  BY FS_Interval, Order
<1>2. w \in [N -> T] /\ \A t \in T : \E e \in N : w[e] = t
  OBVIOUS
<1>3. \A e \in N, f \in N : w[e] = w[f] => e = f
  <2>1. \A e \in N, f \in N : e < f \/ f < e \/ e = f
    BY Order
  <2>2. \A e \in N, f \in N : e < f => w[e] # w[f]
    BY PowersAreDistinct
  <2> HIDE DEF w, N
  <2> QED BY <2>1, <2>2
<1> HIDE DEF N, T, w
<1>4. w \in Surjection(N, T) /\ w \in Injection(N, T)
  BY <1>2, <1>3 DEF Surjection, Injection, IsInjective
<1>5. Cardinality(T) = Cardinality(N)
  BY <1>1, <1>4, FS_Surjection
<1> QED BY <1>1, <1>5 DEF T, N

\* For every field and every request: the walk finds as many bases as there are
\* logarithms coprime to the order before it gives up, no base twice, and each
\* of them with as many powers as there are exponents.
THEOREM BasesAreGenerators == CoeffSpec => []BasesGenerate
<1>1. TablesInv /\ BasesInv => BasesGenerate
  <2> SUFFICES ASSUME TablesInv, BasesInv PROVE BasesGenerate
    OBVIOUS
  <2>1. CASE pc = "panic"
    <3>1. Len(input_bases) = Cardinality(Coprimes(FIELD_LIMIT))
      BY <2>1 DEF BasesInv, BasesBelow
    <3>2. MAX_INPUT_BLOCKS = Cardinality(Coprimes(FIELD_LIMIT))
      BY EncoderAssumption DEF Coprimes
    <3>3. Cardinality(Coprimes(FIELD_LIMIT)) \in Nat
      BY Order, CoprimesAreFinite
    <3> QED BY <2>1, <3>1, <3>2, <3>3 DEF BasesGenerate, BasesInv
  <2>2. CASE pc = "ready"
    <3>1. Tabulated
      BY <2>2, TablesComplete DEF BasesInv
    <3>2. input_count = Len(input_bases) /\ input_count \in Nat
      BY <2>2 DEF BasesInv
    <3>3. ASSUME NEW i \in 1 .. input_count, NEW j \in 1 .. i - 1
          PROVE  input_bases[i] # input_bases[j]
      <4>1. j \in 1 .. input_count /\ i # j
        BY <3>2
      <4> QED BY <3>2, <4>1 DEF BasesInv, BasesBelow
    <3>4. ASSUME NEW i \in 1 .. input_count
          PROVE  Cardinality({gf_pow(input_bases[i], e) : e \in 0 .. FIELD_LIMIT - 1}) = FIELD_LIMIT
      <4>1. PICK a \in Coprimes(logbase) : input_bases[i] = Walk[a]
        BY <3>2 DEF BasesInv, BasesBelow
      <4>2. a \in Coprimes(FIELD_LIMIT)
        BY Order DEF BasesInv, Coprimes
      <4> QED BY <3>1, <4>1, <4>2, BaseHasFullOrder
    <3> QED BY <2>2, <3>3, <3>4 DEF BasesGenerate
  <2>3. CASE pc \notin {"panic", "ready"}
    BY <2>3 DEF BasesGenerate
  <2> QED BY <2>1, <2>2, <2>3
<1> QED BY <1>1, EncoderInvariant, PTL

-----------------------------------------------------------------------------
(* Sums of words over a finite set                                         *)

\* The place a fold takes first.
Chosen(S) == CHOOSE k \in S : TRUE

\* What a step of the fold makes of the sums h over the subsets of S.
Added(h, S, f) ==
  [s \in SUBSET S |-> IF s = {} THEN {} ELSE Xor(f[Chosen(s)], h[s \ {Chosen(s)}])]

\* The sum of f[i] over S, as Accumulated folds it.
Total(S, f) == FoldFunctionOnSet(Xor, {}, f, S)

Summable(S, f) == IsFiniteSet(S) /\ \A i \in S : f[i] \in Elements

LEMMA PickIn ==
  ASSUME NEW S, S # {}
  PROVE  Chosen(S) \in S
BY DEF Chosen

\* Finite sets are reached by adding one element after another.
LEMMA PickInduction ==
  ASSUME NEW S, IsFiniteSet(S), NEW P, {} \in P,
         \A s \in SUBSET S : s # {} /\ s \ {Chosen(s)} \in P => s \in P
  PROVE  SUBSET S \subseteq P
<1> DEFINE N == {n \in Nat : \A s \in SUBSET S : Cardinality(s) = n => s \in P}
<1>1. \A s \in SUBSET S : IsFiniteSet(s) /\ Cardinality(s) \in Nat
  BY FS_Subset, FS_CardinalityType
<1>2. 0 \in N
  BY <1>1, FS_EmptySet
<1>3. ASSUME NEW n \in Nat, n \in N PROVE n + 1 \in N
  <2> SUFFICES ASSUME NEW s \in SUBSET S, Cardinality(s) = n + 1 PROVE s \in P
    OBVIOUS
  <2>1. s # {}
    BY FS_EmptySet
  <2> DEFINE k == Chosen(s)
  <2>2. k \in s
    BY <2>1, PickIn
  <2> HIDE DEF k
  <2>3. Cardinality(s \ {k}) = n
    <3>1. IsFiniteSet(s)
      BY <1>1
    <3>2. Cardinality(s \ {k}) = Cardinality(s) - 1
      BY <2>2, <3>1, FS_RemoveElement
    <3> QED BY <3>2
  <2>4. s \ {k} \in P
    BY <1>3, <2>3
  <2> QED BY <2>1, <2>4 DEF k
<1>4. Nat \subseteq N
  <2> HIDE DEF N
  <2> QED BY <1>2, <1>3, NatInSet
<1> QED BY <1>1, <1>4

\* Summing up settles, one more element at every step, at the sums of all the
\* subsets.
LEMMA SumsExist ==
  ASSUME NEW S, NEW f, Summable(S, f)
  PROVE  \E h : h = Added(h, S, f)
<1> DEFINE H == [SUBSET S -> Elements]
           none == [s \in SUBSET S |-> {}]
           g == [p \in Nat \X H |-> Added(p[2], S, f)]
<1>1. \A h \in H : Added(h, S, f) \in H
  BY PickIn, XorInElements, Zero DEF Added, Summable
<1>2. none \in H
  BY Zero
<1>3. \A n \in Nat, h \in H : g[<<n, h>>] = Added(h, S, f)
  OBVIOUS
<1>4. \A n \in Nat, h \in H : g[<<n, h>>] \in H
  BY <1>1, <1>3
<1> HIDE DEF g, none, H
<1>5. PICK q : Recursion(q, H, none, g)
  BY <1>2, <1>4, NatRecursionExists
<1>6. \A n \in Nat : q[n] \in H /\ q[n + 1] = Added(q[n], S, f)
  BY <1>3, <1>5 DEF Recursion
<1> DEFINE N == {n \in Nat : \A s \in SUBSET S : Cardinality(s) <= n => q[n + 1][s] = q[n][s]}
<1>7. \A s \in SUBSET S : IsFiniteSet(s) /\ Cardinality(s) \in Nat
  BY FS_Subset, FS_CardinalityType DEF Summable
<1>8. 0 \in N
  <2> SUFFICES ASSUME NEW s \in SUBSET S, Cardinality(s) <= 0 PROVE q[0 + 1][s] = q[0][s]
    OBVIOUS
  <2>1. s = {}
    BY <1>7, FS_EmptySet
  <2>2. q[0 + 1] = Added(q[0], S, f) /\ q[0] = none
    BY <1>5, <1>6 DEF Recursion
  <2> QED BY <2>1, <2>2 DEF Added, none
<1>9. ASSUME NEW n \in Nat, n \in N PROVE n + 1 \in N
  <2> SUFFICES ASSUME NEW s \in SUBSET S, Cardinality(s) <= n + 1
               PROVE  q[(n + 1) + 1][s] = q[n + 1][s]
    OBVIOUS
  <2>1. q[(n + 1) + 1] = Added(q[n + 1], S, f) /\ q[n + 1] = Added(q[n], S, f)
    BY <1>6
  <2>2. CASE s = {}
    BY <2>1, <2>2 DEF Added
  <2>3. CASE s # {}
    <3> DEFINE k == Chosen(s)
    <3>1. k \in s
      BY <2>3, PickIn
    <3>2. q[(n + 1) + 1][s] = Xor(f[k], q[n + 1][s \ {k}]) /\ q[n + 1][s] = Xor(f[k], q[n][s \ {k}])
      BY <2>1, <2>3 DEF Added
    <3> HIDE DEF k
    <3>3. Cardinality(s \ {k}) <= n /\ s \ {k} \in SUBSET S
      BY <1>7, <3>1, FS_RemoveElement
    <3>4. q[n + 1][s \ {k}] = q[n][s \ {k}]
      BY <1>9, <3>3
    <3> QED BY <3>2, <3>4
  <2> QED BY <2>2, <2>3
<1>10. Nat \subseteq N
  <2> HIDE DEF N
  <2> QED BY <1>8, <1>9, NatInSet
<1> DEFINE m == Cardinality(S)
<1>11. m \in Nat /\ \A s \in SUBSET S : Cardinality(s) <= m
  BY FS_Subset, FS_CardinalityType DEF Summable
<1> HIDE DEF m
<1>12. \A s \in SUBSET S : q[m + 1][s] = q[m][s]
  BY <1>10, <1>11
<1>13. q[m + 1] = q[m]
  <2>1. q[m + 1] \in H /\ q[m] \in H
    BY <1>6, <1>11
  <2> QED BY <1>12, <2>1 DEF H
<1>14. q[m] = Added(q[m], S, f)
  BY <1>6, <1>11, <1>13
<1> QED BY <1>14

LEMMA TotalIs ==
  ASSUME NEW S, NEW f, Summable(S, f)
  PROVE  \E h : h = Added(h, S, f) /\ Total(S, f) = h[S]
<1> DEFINE c == CHOOSE h : h = Added(h, S, f)
<1>1. Total(S, f) = c[S]
  BY DEF Total, FoldFunctionOnSet, MapThenFoldSet, Added, Chosen
<1>2. c = Added(c, S, f)
  BY SumsExist
<1> QED BY <1>1, <1>2

\* Sums over subsets do not depend on the set they are a subset of.
LEMMA SumsAgree ==
  ASSUME NEW S, NEW T \in SUBSET S, IsFiniteSet(S), NEW f, NEW g, NEW h, NEW i,
         f = Added(f, S, h), g = Added(g, T, i), \A k \in T : h[k] = i[k]
  PROVE  f[T] = g[T]
<1> DEFINE P == {s \in SUBSET T : f[s] = g[s]}
<1>1. {} \in P
  BY DEF Added
<1>2. ASSUME NEW s \in SUBSET T, s # {}, s \ {Chosen(s)} \in P PROVE s \in P
  <2>1. Chosen(s) \in s
    BY <1>2, PickIn
  <2>2. f[s] = Xor(h[Chosen(s)], f[s \ {Chosen(s)}]) /\ g[s] = Xor(i[Chosen(s)], g[s \ {Chosen(s)}])
    BY <1>2 DEF Added
  <2> QED BY <1>2, <2>1, <2>2
<1>3. IsFiniteSet(T)
  BY FS_Subset
<1>4. SUBSET T \subseteq P
  <2> HIDE DEF P
  <2> QED BY <1>1, <1>2, <1>3, PickInduction
<1> QED BY <1>4

LEMMA TotalEmpty ==
  ASSUME NEW f
  PROVE  Total({}, f) = {}
<1>1. Summable({}, f)
  BY FS_EmptySet DEF Summable
<1>2. PICK h : h = Added(h, {}, f) /\ Total({}, f) = h[{}]
  BY <1>1, TotalIs
<1> QED BY <1>2 DEF Added

LEMMA TotalStep ==
  ASSUME NEW S, NEW f, Summable(S, f), S # {}
  PROVE  /\ Chosen(S) \in S
         /\ Summable(S \ {Chosen(S)}, f)
         /\ Total(S, f) = Xor(f[Chosen(S)], Total(S \ {Chosen(S)}, f))
<1> DEFINE T == S \ {Chosen(S)}
<1>1. Chosen(S) \in S /\ T \in SUBSET S /\ IsFiniteSet(S)
  BY PickIn DEF Summable
<1>2. Summable(T, f)
  BY <1>1, FS_Subset DEF Summable
<1>3. PICK h : h = Added(h, S, f) /\ Total(S, f) = h[S]
  BY TotalIs
<1>4. PICK g : g = Added(g, T, f) /\ Total(T, f) = g[T]
  BY <1>2, TotalIs
<1>5. h[S] = Xor(f[Chosen(S)], h[T])
  BY <1>3 DEF Added
<1> HIDE DEF T
<1>6. h[T] = g[T]
  BY <1>1, <1>3, <1>4, SumsAgree
<1> QED BY <1>1, <1>2, <1>3, <1>4, <1>5, <1>6 DEF T

\* The sum of a combination is the combination of the sums.
LEMMA TotalCombines ==
  ASSUME NEW S, NEW f, NEW g, NEW h, NEW z \in Elements, Summable(S, f), Summable(S, g),
         \A i \in S : h[i] = Xor(f[i], PolyMul(z, g[i]))
  PROVE  Total(S, h) = Xor(Total(S, f), PolyMul(z, Total(S, g)))
<1>1. Summable(S, h)
  BY PolyMulInElements, XorInElements DEF Summable
<1> DEFINE P == {s \in SUBSET S : Total(s, h) = Xor(Total(s, f), PolyMul(z, Total(s, g)))}
<1>2. {} \in P
  <2>1. PolyMul(z, {}) = {} /\ Xor({}, {}) = {}
    BY PolyMulZero, XorLaws
  <2> QED BY <2>1, TotalEmpty
<1>3. ASSUME NEW s \in SUBSET S, s # {}, s \ {Chosen(s)} \in P PROVE s \in P
  <2> DEFINE k == Chosen(s)
             r == s \ {k}
  <2>1. Summable(s, f) /\ Summable(s, g) /\ Summable(s, h)
    BY <1>1, FS_Subset DEF Summable
  <2>2. /\ k \in s
        /\ Total(s, f) = Xor(f[k], Total(r, f)) /\ Total(s, g) = Xor(g[k], Total(r, g))
        /\ Total(s, h) = Xor(h[k], Total(r, h))
    BY <1>3, <2>1, TotalStep
  <2>3. Total(r, h) = Xor(Total(r, f), PolyMul(z, Total(r, g)))
    BY <1>3
  <2> HIDE DEF k, r
  <2>4. h[k] = Xor(f[k], PolyMul(z, g[k]))
    BY <2>2
  <2>5. PolyMul(z, Total(s, g)) = Xor(PolyMul(z, g[k]), PolyMul(z, Total(r, g)))
    BY <2>2, PolyMulRight
  <2> DEFINE zk == PolyMul(z, g[k])
             zr == PolyMul(z, Total(r, g))
  <2>6. Xor(Xor(f[k], zk), Xor(Total(r, f), zr)) = Xor(Xor(f[k], Total(r, f)), Xor(zk, zr))
    BY XorPairs
  <2> HIDE DEF zk, zr
  <2>7. h[k] = Xor(f[k], zk) /\ Total(r, h) = Xor(Total(r, f), zr)
        /\ PolyMul(z, Total(s, g)) = Xor(zk, zr)
    BY <2>3, <2>4, <2>5 DEF zk, zr
  <2>8. Total(s, h) = Xor(Total(s, f), PolyMul(z, Total(s, g)))
    BY <2>2, <2>6, <2>7
  <2> QED BY <2>8
<1>4. IsFiniteSet(S)
  BY DEF Summable
<1>5. SUBSET S \subseteq P
  <2> HIDE DEF P
  <2> QED BY <1>2, <1>3, <1>4, PickInduction
<1> QED BY <1>5

\* Equal summands have equal sums, and summands of 0 the sum 0.
LEMMA TotalEqual ==
  ASSUME NEW S, NEW f, NEW g, Summable(S, f), \A i \in S : f[i] = g[i]
  PROVE  Total(S, f) = Total(S, g)
<1>1. Summable(S, g)
  BY DEF Summable
<1>2. PICK p : p = Added(p, S, f) /\ Total(S, f) = p[S]
  BY TotalIs
<1>3. PICK q : q = Added(q, S, g) /\ Total(S, g) = q[S]
  BY <1>1, TotalIs
<1>4. S \in SUBSET S /\ IsFiniteSet(S)
  BY DEF Summable
<1>5. p[S] = q[S]
  BY <1>2, <1>3, <1>4, SumsAgree
<1> QED BY <1>2, <1>3, <1>5

LEMMA TotalOfZeros ==
  ASSUME NEW S, NEW f, IsFiniteSet(S), \A i \in S : f[i] = {}
  PROVE  Total(S, f) = {}
<1>1. Summable(S, f)
  BY Zero DEF Summable
<1> DEFINE P == {s \in SUBSET S : Total(s, f) = {}}
<1>2. {} \in P
  BY TotalEmpty
<1>3. ASSUME NEW s \in SUBSET S, s # {}, s \ {Chosen(s)} \in P PROVE s \in P
  <2>1. Summable(s, f)
    BY <1>1, FS_Subset DEF Summable
  <2>2. Chosen(s) \in s /\ Total(s, f) = Xor(f[Chosen(s)], Total(s \ {Chosen(s)}, f))
    BY <1>3, <2>1, TotalStep
  <2>3. f[Chosen(s)] = {} /\ Total(s \ {Chosen(s)}, f) = {}
    BY <1>3, <2>2
  <2> QED BY <2>2, <2>3, XorLaws
<1>4. SUBSET S \subseteq P
  <2> HIDE DEF P
  <2> QED BY <1>2, <1>3, PickInduction
<1> QED BY <1>4

-----------------------------------------------------------------------------
(* Volumes repair any loss                                                 *)

\* An element times a power of 2 is 0 only if it is 0.
LEMMA NoZeroDivisors ==
  ASSUME NEW x \in Elements, NEW y \in Elements, PolyMul(x, y) = {}
  PROVE  x = {} \/ y = {}
<1> SUFFICES ASSUME x # {}, y # {} PROVE FALSE
  OBVIOUS
<1>1. PICK m \in 0 .. FIELD_LIMIT - 1 : Walk[m] = x
  BY WalkOnto
<1>2. PICK n \in 0 .. FIELD_LIMIT - 1 : Walk[n] = y
  BY WalkOnto
<1>3. m \in Nat /\ n \in Nat /\ m + n \in Nat
  BY Order
<1> QED BY <1>1, <1>2, <1>3, WalkAdds, WalkNotZero

\* The row m of the powers of Walk[p], scaled by the difference of Walk[p] and
\* Walk[q], is the row above it less Walk[q] times the row itself.
LEMMA RowsCombine ==
  ASSUME NEW m \in Nat, NEW p \in Nat, NEW q \in Nat, NEW x \in Elements
  PROVE  PolyMul(Walk[m], PolyMul(Xor(Walk[p], Walk[q]), x))
           = Xor(PolyMul(Walk[m + p], x), PolyMul(Walk[q], PolyMul(Walk[m], x)))
<1>1. Walk[m] \in Elements /\ Walk[p] \in Elements /\ Walk[q] \in Elements
      /\ Walk[m + p] \in Elements
  BY WalkLaws
<1>2. CASE x = {}
  <2>1. Xor(Walk[p], Walk[q]) \in Elements
    BY <1>1, XorInElements
  <2>2. PolyMul(Xor(Walk[p], Walk[q]), {}) = {} /\ PolyMul(Walk[m], {}) = {}
        /\ PolyMul(Walk[q], {}) = {} /\ PolyMul(Walk[m + p], {}) = {} /\ Xor({}, {}) = {}
    BY <1>1, <2>1, PolyMulZero, XorLaws
  <2> QED BY <1>2, <2>2
<1>3. CASE x # {}
  <2>1. PICK r \in 0 .. FIELD_LIMIT - 1 : Walk[r] = x
    BY <1>3, WalkOnto
  <2>2. r \in Nat
    BY Order
  <2>3. PolyMul(Walk[p], Walk[r]) = Walk[p + r] /\ PolyMul(Walk[q], Walk[r]) = Walk[q + r]
        /\ PolyMul(Walk[m], Walk[r]) = Walk[m + r]
    BY <2>2, WalkAdds
  <2>4. PolyMul(Xor(Walk[p], Walk[q]), Walk[r])
          = Xor(PolyMul(Walk[p], Walk[r]), PolyMul(Walk[q], Walk[r]))
    BY <1>1, PolyMulLeft
  <2>5. PolyMul(Walk[m], Xor(Walk[p + r], Walk[q + r]))
          = Xor(PolyMul(Walk[m], Walk[p + r]), PolyMul(Walk[m], Walk[q + r]))
    BY <1>1, PolyMulRight
  <2>6. p + r \in Nat /\ q + r \in Nat /\ m + r \in Nat /\ m + p \in Nat
        /\ (m + p) + r = m + (p + r) /\ q + (m + r) = m + (q + r)
    BY <2>2
  <2>7. PolyMul(Walk[m], Walk[p + r]) = Walk[m + (p + r)]
    BY <2>6, WalkAdds
  <2>8. PolyMul(Walk[m], Walk[q + r]) = Walk[m + (q + r)]
    BY <2>6, WalkAdds
  <2>9. PolyMul(Walk[m + p], Walk[r]) = Walk[(m + p) + r]
    BY <2>2, <2>6, WalkAdds
  <2>10. PolyMul(Walk[q], Walk[m + r]) = Walk[q + (m + r)]
    BY <2>6, WalkAdds
  <2> QED BY <2>1, <2>3, <2>4, <2>5, <2>6, <2>7, <2>8, <2>9, <2>10
<1> QED BY <1>2, <1>3

\* The summands of the row that raises the bases Walk[a[i]] to the exponent e.
Summands(S, a, e, d) == [i \in S |-> PolyMul(Walk[a[i] * e], d[i])]

\* Bases whose logarithms are a, of which no two are equal.
Bases(S, a) ==
  /\ IsFiniteSet(S)
  /\ \A i \in S : a[i] \in Nat
  /\ \A i, j \in S : Walk[a[i]] = Walk[a[j]] => i = j

LEMMA SummandsInElements ==
  ASSUME NEW S, NEW a, Bases(S, a), NEW e \in Nat, NEW d, \A i \in S : d[i] \in Elements
  PROVE  /\ Summable(S, Summands(S, a, e, d))
         /\ \A i \in S : a[i] * e \in Nat /\ Walk[a[i] * e] \in Elements
<1>1. \A i \in S : a[i] * e \in Nat
  BY DEF Bases
<1>2. \A i \in S : Walk[a[i] * e] \in Elements
  BY <1>1, WalkLaws
<1>3. \A i \in S : Summands(S, a, e, d)[i] = PolyMul(Walk[a[i] * e], d[i])
  BY DEF Summands
<1>4. \A i \in S : PolyMul(Walk[a[i] * e], d[i]) \in Elements
  BY <1>2, PolyMulInElements
<1> QED BY <1>1, <1>2, <1>3, <1>4 DEF Summable, Bases

\* The rows e to e + n - 1 of the n slices s, on which d adds up to 0.
Vanishing(s, a, e, d) ==
  \A j \in 0 .. Cardinality(s) - 1 : Total(s, Summands(s, a, e + j, d)) = {}

\* One slice eliminated: d scaled by the differences to the base of k.
Scaled(s, a, k, d) == [i \in s |-> PolyMul(Xor(Walk[a[i]], Walk[a[k]]), d[i])]

\* Where n consecutive rows vanish, n - 1 of them vanish without the slice k.
LEMMA Eliminate ==
  ASSUME NEW s, NEW a, Bases(s, a), s # {}, NEW e \in Nat, NEW d \in [s -> Elements],
         Vanishing(s, a, e, d)
  PROVE  Vanishing(s \ {Chosen(s)}, a, e, Scaled(s, a, Chosen(s), d))
<1> DEFINE k == Chosen(s)
           r == s \ {k}
           c == Scaled(s, a, k, d)
<1>1. k \in s /\ IsFiniteSet(s)
  BY PickIn DEF Bases
<1> HIDE DEF k
<1>2. \A i \in s : a[i] \in Nat /\ Walk[a[i]] \in Elements
  BY WalkLaws DEF Bases
<1>3. \A i \in s : c[i] = PolyMul(Xor(Walk[a[i]], Walk[a[k]]), d[i]) /\ c[i] \in Elements
  BY <1>1, <1>2, XorInElements, PolyMulInElements DEF Scaled
<1>4. c[k] = {}
  <2>1. Xor(Walk[a[k]], Walk[a[k]]) = {} /\ d[k] \in Elements
    BY <1>1, XorLaws
  <2> QED BY <1>1, <1>3, <2>1, PolyMulZero
<1>5. Cardinality(s) \in Nat /\ Cardinality(r) = Cardinality(s) - 1
  BY <1>1, FS_CardinalityType, FS_RemoveElement
<1> HIDE DEF c
<1>6. ASSUME NEW j \in 0 .. Cardinality(r) - 1
      PROVE  Total(r, Summands(r, a, e + j, c)) = {}
  <2>1. j \in 0 .. Cardinality(s) - 1 /\ j + 1 \in 0 .. Cardinality(s) - 1 /\ e + j \in Nat
        /\ e + (j + 1) \in Nat /\ e + (j + 1) = (e + j) + 1
    BY <1>5
  <2> DEFINE m == e + j
             f == Summands(s, a, m + 1, d)
             g == Summands(s, a, m, d)
             h == Summands(s, a, m, c)
  <2>2. Total(s, f) = {} /\ Total(s, g) = {}
    <3>1. Total(s, Summands(s, a, e + (j + 1), d)) = {} /\ Total(s, Summands(s, a, e + j, d)) = {}
      BY <2>1 DEF Vanishing
    <3> QED BY <2>1, <3>1
  <2>0. m \in Nat
    BY <2>1
  <2> HIDE DEF m
  <2>3. Summable(s, f) /\ Summable(s, g) /\ Summable(s, h)
    BY <1>3, <2>0, SummandsInElements
  <2>4. \A i \in s : h[i] = Xor(f[i], PolyMul(Walk[a[k]], g[i]))
    <3> SUFFICES ASSUME NEW i \in s PROVE h[i] = Xor(f[i], PolyMul(Walk[a[k]], g[i]))
      OBVIOUS
    <3> DEFINE p == a[i]
               w == p * m
    <3>1. p \in Nat /\ a[k] \in Nat /\ w \in Nat /\ d[i] \in Elements
      BY <1>1, <1>2, <2>0
    <3>2. p * (m + 1) = w + p
      BY <2>0, <3>1
    <3>3. h[i] = PolyMul(Walk[w], c[i]) /\ g[i] = PolyMul(Walk[w], d[i])
          /\ f[i] = PolyMul(Walk[w + p], d[i])
      BY <3>2 DEF Summands
    <3>4. c[i] = PolyMul(Xor(Walk[p], Walk[a[k]]), d[i])
      BY <1>3
    <3> HIDE DEF p, w
    <3>5. PolyMul(Walk[w], PolyMul(Xor(Walk[p], Walk[a[k]]), d[i]))
            = Xor(PolyMul(Walk[w + p], d[i]), PolyMul(Walk[a[k]], PolyMul(Walk[w], d[i])))
      BY <3>1, RowsCombine
    <3> QED BY <3>3, <3>4, <3>5
  <2>5. Walk[a[k]] \in Elements
    BY <1>1, <1>2
  <2> HIDE DEF f, g, h
  <2>6. Total(s, h) = Xor(Total(s, f), PolyMul(Walk[a[k]], Total(s, g)))
    BY <2>3, <2>4, <2>5, TotalCombines
  <2>7. Total(s, h) = {}
    BY <2>2, <2>5, <2>6, PolyMulZero, XorLaws
  <2>8. Total(s, h) = Xor(h[k], Total(r, h)) /\ Summable(r, h)
    BY <2>3, TotalStep DEF k
  <2>9. h[k] = {}
    <3>1. h[k] = PolyMul(Walk[a[k] * m], c[k])
      BY <1>1 DEF Summands, h
    <3>2. a[k] * m \in Nat
      BY <1>1, <1>2, <2>0
    <3>3. Walk[a[k] * m] \in Elements
      BY <3>2, WalkLaws
    <3> QED BY <1>4, <3>1, <3>3, PolyMulZero
  <2>10. Total(r, h) = {}
    BY <2>7, <2>8, <2>9, XorLaws
  <2>11. \A i \in r : h[i] = Summands(r, a, m, c)[i]
    BY DEF Summands, h
  <2>12. Total(r, h) = Total(r, Summands(r, a, m, c))
    BY <2>8, <2>11, TotalEqual
  <2> QED BY <2>10, <2>12 DEF m
<1> QED BY <1>6 DEF Vanishing, k, c

\* Rows that vanish leave nothing but slices of 0.
LEMMA VandermondeRegular ==
  ASSUME NEW S, NEW a, Bases(S, a), NEW e \in Nat, NEW d \in [S -> Elements],
         Vanishing(S, a, e, d)
  PROVE  \A i \in S : d[i] = {}
<1> DEFINE P == {s \in SUBSET S : \A c \in [s -> Elements] :
                   Vanishing(s, a, e, c) => \A i \in s : c[i] = {}}
<1>1. {} \in P
  OBVIOUS
<1>2. ASSUME NEW s \in SUBSET S, s # {}, s \ {Chosen(s)} \in P PROVE s \in P
  <2> SUFFICES ASSUME NEW c \in [s -> Elements], Vanishing(s, a, e, c)
               PROVE  \A i \in s : c[i] = {}
    OBVIOUS
  <2> DEFINE k == Chosen(s)
             r == s \ {k}
             g == Scaled(s, a, k, c)
             f == [i \in r |-> g[i]]
  <2>1. Bases(s, a)
    BY FS_Subset DEF Bases
  <2>2. Vanishing(r, a, e, g)
    BY <1>2, <2>1, Eliminate
  <2>3. k \in s
    BY <1>2, PickIn
  <2>4. r \in P
    BY <1>2
  <2> HIDE DEF k
  <2>5. \A i \in s : Walk[a[i]] \in Elements /\ Xor(Walk[a[i]], Walk[a[k]]) \in Elements
    BY <2>1, <2>3, WalkLaws, XorInElements DEF Bases
  <2>6. \A i \in r : g[i] = PolyMul(Xor(Walk[a[i]], Walk[a[k]]), c[i]) /\ f[i] = g[i]
    BY DEF Scaled
  <2>7. f \in [r -> Elements]
    BY <2>5, <2>6, PolyMulInElements
  <2>8. Vanishing(r, a, e, f)
    <3> SUFFICES ASSUME NEW j \in 0 .. Cardinality(r) - 1
                 PROVE  Total(r, Summands(r, a, e + j, f)) = {}
      BY DEF Vanishing
    <3>1. Summands(r, a, e + j, f) = Summands(r, a, e + j, g)
      BY <2>6 DEF Summands
    <3>2. Total(r, Summands(r, a, e + j, g)) = {}
      BY <2>2 DEF Vanishing
    <3> QED BY <3>1, <3>2
  <2>9. \A i \in r : f[i] = {}
    BY <2>4, <2>7, <2>8
  <2>10. ASSUME NEW i \in r PROVE c[i] = {}
    <3>1. PolyMul(Xor(Walk[a[i]], Walk[a[k]]), c[i]) = {} /\ c[i] \in Elements
      BY <2>6, <2>9
    <3>2. Xor(Walk[a[i]], Walk[a[k]]) # {}
      <4>1. Walk[a[i]] # Walk[a[k]]
        BY <2>1, <2>3 DEF Bases
      <4> QED BY <4>1 DEF Xor
    <3> QED BY <2>5, <3>1, <3>2, NoZeroDivisors
  <2>11. c[k] = {}
    <3> DEFINE t == Summands(s, a, e, c)
    <3>1. Summable(s, t) /\ \A i \in s : Walk[a[i] * e] \in Elements
      BY <2>1, SummandsInElements
    <3>2. Total(s, t) = {}
      <4>1. 0 \in 0 .. Cardinality(s) - 1
        <5>1. IsFiniteSet(s) /\ Cardinality(s) \in Nat
          BY <2>1, FS_CardinalityType DEF Bases
        <5>2. Cardinality(s) # 0
          BY <1>2, <5>1, FS_EmptySet
        <5> QED BY <5>1, <5>2
      <4>2. Total(s, Summands(s, a, e + 0, c)) = {}
        BY <4>1 DEF Vanishing
      <4>3. e + 0 = e
        OBVIOUS
      <4> QED BY <4>2, <4>3
    <3>3. \A i \in s : t[i] = PolyMul(Walk[a[i] * e], c[i])
      BY DEF Summands
    <3> HIDE DEF t
    <3>4. Total(s, t) = Xor(t[k], Total(r, t)) /\ Summable(r, t)
      BY <1>2, <3>1, TotalStep DEF k
    <3>5. \A i \in r : t[i] = {}
      BY <2>10, <3>1, <3>3, PolyMulZero
    <3>6. Total(r, t) = {}
      BY <3>4, <3>5, TotalOfZeros DEF Summable
    <3>7. PolyMul(Walk[a[k] * e], c[k]) = {}
      BY <2>3, <3>2, <3>3, <3>4, <3>6, XorLaws
    <3>8. a[k] * e \in Nat
      BY <2>1, <2>3 DEF Bases
    <3>9. Walk[a[k] * e] # {} /\ c[k] \in Elements
      BY <2>3, <3>8, WalkNotZero
    <3> QED BY <2>3, <3>1, <3>7, <3>9, NoZeroDivisors
  <2> QED BY <2>10, <2>11
<1>3. IsFiniteSet(S)
  BY DEF Bases
<1>4. SUBSET S \subseteq P
  <2> HIDE DEF P
  <2> QED BY <1>1, <1>2, <1>3, PickInduction
<1> QED BY <1>4

\* A coefficient is the row's power of the slice's base.
LEMMA CoefficientIs ==
  ASSUME Tabulated, BasesInv, pc = "ready", NEW a \in Coprimes(FIELD_LIMIT),
         NEW i \in 1 .. input_count, input_bases[i] = Walk[a], NEW r \in 1 .. recovery_count
  PROVE  coefficient(r, i) = Walk[a * (first_exponent + r - 1)]
<1>1. recovery_exponents[r] = first_exponent + r - 1 /\ first_exponent + r - 1 \in Nat
  BY DEF BasesInv
<1>2. a \in 0 .. FIELD_LIMIT - 1
  BY DEF Coprimes
<1> QED BY <1>1, <1>2, PowIsWalk DEF coefficient

\* Whatever slices are lost and whichever recovery blocks in a row are used, as
\* many of them as slices: the blocks determine the slices.
THEOREM AnyLossIsRepaired == CoeffSpec => []VolumeRepairs
<1>1. TablesInv /\ BasesInv => VolumeRepairs
  <2> SUFFICES ASSUME TablesInv, BasesInv, pc = "ready",
                      NEW lost \in SUBSET (1 .. input_count),
                      NEW r \in 1 .. recovery_count - Cardinality(lost) + 1,
                      NEW data \in [lost -> Elements],
                      \A j \in 0 .. Cardinality(lost) - 1 : Accumulated(r + j, data) = {}
               PROVE  \A i \in lost : data[i] = {}
    BY DEF VolumeRepairs
  <2>1. Tabulated
    BY TablesComplete DEF BasesInv
  <2>2. /\ input_count \in Nat /\ first_exponent \in Nat /\ recovery_count \in Nat
        /\ Len(input_bases) = input_count /\ BasesBelow(input_bases, logbase)
        /\ logbase \in 0 .. FIELD_LIMIT
    BY DEF BasesInv
  <2>3. IsFiniteSet(lost) /\ Cardinality(lost) \in Nat
    <3>1. IsFiniteSet(1 .. input_count)
      BY <2>2, FS_Interval
    <3>2. IsFiniteSet(lost)
      BY <3>1, FS_Subset
    <3> QED BY <3>2, FS_CardinalityType
  <2> DEFINE Base(i, k) == k \in Coprimes(FIELD_LIMIT) /\ input_bases[i] = Walk[k]
             a == [i \in lost |-> CHOOSE k : Base(i, k)]
             e == first_exponent + r - 1
  <2>4. \A i \in lost : Base(i, a[i])
    <3>1. \A i \in lost : \E k \in Coprimes(logbase) : input_bases[i] = Walk[k]
      BY <2>2 DEF BasesBelow
    <3>2. \A k : k \in Coprimes(logbase) => k \in Coprimes(FIELD_LIMIT)
      BY <2>2, Order DEF Coprimes
    <3>3. \A i \in lost : \E k : Base(i, k)
      BY <3>1, <3>2
    <3> HIDE DEF Base
    <3> QED BY <3>3
  <2> HIDE DEF a
  <2>5. \A i \in lost : a[i] \in Nat /\ a[i] \in Coprimes(FIELD_LIMIT) /\ input_bases[i] = Walk[a[i]]
    <3>1. \A k \in Coprimes(FIELD_LIMIT) : k \in Nat
      BY Order DEF Coprimes
    <3> QED BY <2>4, <3>1
  <2>6. Bases(lost, a)
    <3>1. \A i, j \in 1 .. input_count : input_bases[i] = input_bases[j] => i = j
      BY <2>2 DEF BasesBelow
    <3>2. ASSUME NEW i \in lost, NEW j \in lost, Walk[a[i]] = Walk[a[j]] PROVE i = j
      <4>1. input_bases[i] = input_bases[j] /\ i \in 1 .. input_count /\ j \in 1 .. input_count
        BY <2>5, <3>2
      <4> QED BY <3>1, <4>1
    <3>3. \A i \in lost : a[i] \in Nat
      BY <2>5
    <3> QED BY <2>3, <3>2, <3>3 DEF Bases
  <2>7. e \in Nat
    BY <2>2, <2>3
  <2>8. ASSUME NEW j \in 0 .. Cardinality(lost) - 1
        PROVE  Total(lost, Summands(lost, a, e + j, data)) = {}
    <3> DEFINE f == [i \in lost |-> gf_mul(coefficient(r + j, i), data[i])]
               g == Summands(lost, a, e + j, data)
    <3>1. r + j \in 1 .. recovery_count /\ first_exponent + (r + j) - 1 = e + j /\ e + j \in Nat
      BY <2>2, <2>3
    <3>2. Summable(lost, g) /\ \A i \in lost : Walk[a[i] * (e + j)] \in Elements
      BY <2>6, <3>1, SummandsInElements
    <3>3. ASSUME NEW i \in lost PROVE g[i] = f[i]
      <4>1. coefficient(r + j, i) = Walk[a[i] * (e + j)]
        <5> DEFINE c == a[i]
        <5>1. c \in Coprimes(FIELD_LIMIT) /\ input_bases[i] = Walk[c] /\ i \in 1 .. input_count
          BY <2>5
        <5> HIDE DEF c
        <5>2. coefficient(r + j, i) = Walk[c * (first_exponent + (r + j) - 1)]
          BY <2>1, <3>1, <5>1, CoefficientIs
        <5> QED BY <3>1, <5>2 DEF c
      <4>2. gf_mul(coefficient(r + j, i), data[i]) = PolyMul(Walk[a[i] * (e + j)], data[i])
        BY <2>1, <3>2, <4>1, MulIsExact
      <4> QED BY <4>2 DEF Summands
    <3>4. Total(lost, g) = Total(lost, f)
      <4> HIDE DEF f, g
      <4> QED BY <3>2, <3>3, TotalEqual
    <3>5. Accumulated(r + j, data) = Total(lost, f)
      <4>1. DOMAIN data = lost /\ DOMAIN f = lost
        OBVIOUS
      <4> QED BY <4>1 DEF Accumulated, FoldFunction, Total
    <3> QED BY <3>4, <3>5
  <2>9. Vanishing(lost, a, e, data)
    BY <2>8 DEF Vanishing
  <2> HIDE DEF e
  <2> QED BY <2>6, <2>7, <2>9, VandermondeRegular
<1> QED BY <1>1, EncoderInvariant, PTL

-----------------------------------------------------------------------------
(* Halves of words                                                         *)

LEMMA Sizes ==
  /\ NIBBLE \in Nat \ {0} /\ BYTE \in Nat \ {0}
  /\ BYTE = 2 * NIBBLE /\ FIELD_BITS = 2 * BYTE
BY Polynomial, CoeffAssumption DEF BYTE, NIBBLE

LEMMA UpInIntegers ==
  ASSUME NEW x \in SUBSET Int, NEW n \in Int
  PROVE  Up(x, n) \in SUBSET Int
BY DEF Up

LEMMA UpByZero ==
  ASSUME NEW x \in SUBSET Int
  PROVE  Up(x, 0) = x
<1>1. Up(x, 0) \in SUBSET Int
  BY UpInIntegers
<1>2. \A i \in Int : i \in Up(x, 0) <=> i \in x
  BY PlaceUp
<1> QED BY <1>1, <1>2

\* A place of a half is that place of the word.
LEMMA HalfPlaces ==
  ASSUME NEW x \in Elements, NEW i \in Int
  PROVE  /\ i \in LowByte(x) <=> i \in 0 .. BYTE - 1 /\ i \in x
         /\ i \in HighByte(x) <=> i \in 0 .. BYTE - 1 /\ BYTE + i \in x
<1>1. i \in LowByte(x) <=> i \in 0 .. BYTE - 1 /\ i \in x
  BY DEF LowByte
<1>2. x \subseteq 0 .. FIELD_BITS - 1
  BY DEF Elements
<1>3. ASSUME i \in HighByte(x) PROVE i \in 0 .. BYTE - 1 /\ BYTE + i \in x
  <2>1. PICK k \in x \ (0 .. BYTE - 1) : i = k - BYTE
    BY <1>3 DEF HighByte
  <2>2. k \in Int /\ BYTE <= k /\ k < 2 * BYTE
    BY <1>2, <2>1, Sizes
  <2>3. BYTE + i = k
    BY <2>1, <2>2, Sizes
  <2> QED BY <2>1, <2>2, <2>3, Sizes
<1>4. ASSUME i \in 0 .. BYTE - 1, BYTE + i \in x PROVE i \in HighByte(x)
  <2>1. BYTE + i \notin 0 .. BYTE - 1 /\ i = (BYTE + i) - BYTE
    BY <1>4, Sizes
  <2> QED BY <1>4, <2>1 DEF HighByte
<1> QED BY <1>1, <1>3, <1>4

LEMMA HalvesAreBytes ==
  ASSUME NEW x \in Elements
  PROVE  LowByte(x) \in Byte /\ HighByte(x) \in Byte
<1>1. LowByte(x) \in SUBSET Int /\ HighByte(x) \in SUBSET Int
  BY Sizes, Polynomial DEF LowByte, HighByte, Elements
<1> QED BY <1>1, HalfPlaces DEF Byte

LEMMA ByteInElements ==
  ASSUME NEW x \in Byte
  PROVE  x \in Elements /\ Up(x, BYTE) \in Elements /\ x \in SUBSET Int
<1>1. x \subseteq 0 .. BYTE - 1
  BY DEF Byte
<1>2. x \in SUBSET Int /\ x \in Elements
  BY <1>1, Sizes DEF Elements
<1>3. \A i \in Up(x, BYTE) : i \in 0 .. FIELD_BITS - 1
  BY <1>1, Sizes DEF Up
<1> QED BY <1>2, <1>3 DEF Elements

\* A word is its low byte with the high one above it.
LEMMA WordOfBytes ==
  ASSUME NEW x \in Elements, NEW lo \in Byte, NEW hi \in Byte,
         \A i \in 0 .. BYTE - 1 : (i \in lo <=> i \in x) /\ (i \in hi <=> BYTE + i \in x)
  PROVE  x = lo \cup Up(hi, BYTE) /\ x = Xor(lo, Up(hi, BYTE))
<1>1. x \subseteq 0 .. FIELD_BITS - 1 /\ lo \subseteq 0 .. BYTE - 1 /\ hi \subseteq 0 .. BYTE - 1
  BY DEF Elements, Byte
<1>2. Up(hi, BYTE) \in SUBSET Int /\ hi \in SUBSET Int
  BY <1>1, Sizes, ByteInElements DEF Elements
<1>3. \A i \in Int : i \in Up(hi, BYTE) <=> i - BYTE \in hi
  BY <1>2, PlaceUp, Sizes
<1>4. ASSUME NEW i \in Int
      PROVE  (i \in x <=> i \in lo \/ i \in Up(hi, BYTE)) /\ ~(i \in lo /\ i \in Up(hi, BYTE))
  <2>1. CASE i \in 0 .. BYTE - 1
    <3>1. i - BYTE \notin 0 .. BYTE - 1
      BY <2>1, Sizes
    <3> QED BY <1>1, <1>3, <2>1, <3>1
  <2>2. CASE i \in BYTE .. FIELD_BITS - 1
    <3>1. i - BYTE \in 0 .. BYTE - 1 /\ BYTE + (i - BYTE) = i /\ i \notin 0 .. BYTE - 1
      BY <2>2, Sizes
    <3> QED BY <1>1, <1>3, <3>1
  <2>3. CASE i \notin 0 .. FIELD_BITS - 1
    <3>1. i - BYTE \notin 0 .. BYTE - 1 /\ i \notin 0 .. BYTE - 1
      BY <2>3, Sizes
    <3> QED BY <1>1, <1>3, <2>3, <3>1
  <2> QED BY <2>1, <2>2, <2>3, Sizes
<1>5. x \in SUBSET Int /\ lo \in SUBSET Int
  BY <1>1, Sizes
<1>6. lo \cup Up(hi, BYTE) = Xor(lo, Up(hi, BYTE))
  BY <1>2, <1>4, <1>5 DEF Xor
<1>7. x = lo \cup Up(hi, BYTE)
  BY <1>2, <1>4, <1>5
<1> QED BY <1>6, <1>7

LEMMA Halves ==
  ASSUME NEW x \in Elements
  PROVE  /\ x = LowByte(x) \cup Up(HighByte(x), BYTE)
         /\ x = Xor(LowByte(x), Up(HighByte(x), BYTE))
<1>1. \A i \in 0 .. BYTE - 1 :
        (i \in LowByte(x) <=> i \in x) /\ (i \in HighByte(x) <=> BYTE + i \in x)
  BY HalfPlaces
<1>2. LowByte(x) \in Byte /\ HighByte(x) \in Byte
  BY HalvesAreBytes
<1> QED BY <1>1, <1>2, WordOfBytes

\* The halves of a sum are the sums of the halves.
LEMMA HalvesXor ==
  ASSUME NEW x \in Elements, NEW y \in Elements
  PROVE  /\ LowByte(Xor(x, y)) = Xor(LowByte(x), LowByte(y))
         /\ HighByte(Xor(x, y)) = Xor(HighByte(x), HighByte(y))
<1> DEFINE z == Xor(x, y)
<1>1. z \in Elements /\ \A i : i \in z <=> ~(i \in x <=> i \in y)
  BY XorInElements DEF Xor
<1> HIDE DEF z
<1>2. /\ LowByte(x) \in SUBSET Int /\ LowByte(y) \in SUBSET Int /\ LowByte(z) \in SUBSET Int
      /\ HighByte(x) \in SUBSET Int /\ HighByte(y) \in SUBSET Int /\ HighByte(z) \in SUBSET Int
  BY <1>1, HalvesAreBytes, ByteInElements
<1>3. ASSUME NEW i \in Int
      PROVE  /\ i \in LowByte(z) <=> ~(i \in LowByte(x) <=> i \in LowByte(y))
             /\ i \in HighByte(z) <=> ~(i \in HighByte(x) <=> i \in HighByte(y))
  BY <1>1, HalfPlaces
<1>4. LowByte(z) = Xor(LowByte(x), LowByte(y))
  BY <1>2, <1>3 DEF Xor
<1>5. HighByte(z) = Xor(HighByte(x), HighByte(y))
  BY <1>2, <1>3 DEF Xor
<1> QED BY <1>4, <1>5 DEF z

\* Whatever the byte above it is, the nibbles of a byte are its own.
LEMMA Nibbles ==
  ASSUME NEW x \in Byte, NEW next \in Byte
  PROVE  /\ LowNibble(x) \in Nibble /\ HighNibble(x, next) \in Nibble
         /\ x = Xor(LowNibble(x), Up(HighNibble(x, next), NIBBLE))
<1> DEFINE lo == LowNibble(x)
           hi == HighNibble(x, next)
           above == x \cup Up(next, BYTE)
<1>1. x \subseteq 0 .. BYTE - 1 /\ next \subseteq 0 .. BYTE - 1
  BY DEF Byte
<1>2. above \in SUBSET Int /\ Up(above, -NIBBLE) \in SUBSET Int
  <2>1. x \in SUBSET Int /\ next \in SUBSET Int
    BY <1>1
  <2>2. Up(next, BYTE) \in SUBSET Int
    BY <2>1, Sizes, UpInIntegers
  <2>3. above \in SUBSET Int
    BY <2>1, <2>2
  <2>4. -NIBBLE \in Int
    BY Sizes
  <2> HIDE DEF above
  <2> QED BY <2>3, <2>4, UpInIntegers
<1>3. ASSUME NEW i \in Int
      PROVE  i \in hi <=> i \in 0 .. NIBBLE - 1 /\ i + NIBBLE \in x
  <2>1. i \in hi <=> i \in 0 .. NIBBLE - 1 /\ i \in Up(above, -NIBBLE)
    BY DEF HighNibble, LowNibble
  <2>2. i \in Up(above, -NIBBLE) <=> i + NIBBLE \in above
    <3>1. -NIBBLE \in Int /\ i - (-NIBBLE) = i + NIBBLE
      BY Sizes
    <3> HIDE DEF above
    <3> QED BY <1>2, <3>1, PlaceUp
  <2>3. ASSUME i \in 0 .. NIBBLE - 1, i + NIBBLE \in Up(next, BYTE) PROVE FALSE
    <3>1. PICK k \in next : i + NIBBLE = k + BYTE
      BY <2>3 DEF Up
    <3> QED BY <1>1, <2>3, <3>1, Sizes
  <2> QED BY <2>1, <2>2, <2>3
<1>4. \A i \in Int : i \in lo <=> i \in 0 .. NIBBLE - 1 /\ i \in x
  BY DEF LowNibble
<1>5. lo \in SUBSET (0 .. NIBBLE - 1) /\ hi \in SUBSET (0 .. NIBBLE - 1)
  BY DEF LowNibble, HighNibble
<1> HIDE DEF lo, hi, above
<1> DEFINE up == Up(hi, NIBBLE)
<1>6. up \in SUBSET Int /\ hi \in SUBSET Int /\ lo \in SUBSET Int /\ x \in SUBSET Int
  BY <1>1, <1>5, Sizes DEF Up
<1>7. \A i \in Int : i \in up <=> i - NIBBLE \in hi
  BY <1>6, PlaceUp, Sizes
<1> HIDE DEF up
<1>8. ASSUME NEW i \in Int
      PROVE  i \in x <=> ~(i \in lo <=> i \in up)
  <2>1. i \in up <=> i - NIBBLE \in 0 .. NIBBLE - 1 /\ (i - NIBBLE) + NIBBLE \in x
    BY <1>3, <1>7, Sizes
  <2>2. (i - NIBBLE) + NIBBLE = i
    BY Sizes
  <2>3. i \in x => i \in 0 .. BYTE - 1
    BY <1>1
  <2>4. i \in 0 .. BYTE - 1 => ~(i \in 0 .. NIBBLE - 1 <=> i - NIBBLE \in 0 .. NIBBLE - 1)
    BY Sizes
  <2>5. i - NIBBLE \in 0 .. NIBBLE - 1 => ~(i \in 0 .. NIBBLE - 1)
    BY Sizes
  <2> QED BY <1>4, <2>1, <2>2, <2>3, <2>4, <2>5
<1>9. x = Xor(lo, up)
  BY <1>6, <1>8 DEF Xor
<1> QED BY <1>5, <1>9 DEF Nibble, lo, hi, up

LEMMA NibbleInByte ==
  ASSUME NEW n \in Nibble
  PROVE  n \in Byte /\ Up(n, NIBBLE) \in Byte
<1>1. n \subseteq 0 .. NIBBLE - 1
  BY DEF Nibble
<1>2. n \in Byte
  BY <1>1, Sizes DEF Byte
<1>3. \A i \in Up(n, NIBBLE) : i \in 0 .. BYTE - 1
  BY <1>1, Sizes DEF Up
<1> QED BY <1>2, <1>3 DEF Byte

-----------------------------------------------------------------------------
(* The paths                                                               *)

LEMMA BytesAgree ==
  ASSUME Tabulated, NEW c \in Elements, NEW s \in Elements
  PROVE  ByteProduct(ByteTables(c), s) = PolyMul(c, s)
<1> DEFINE lo == LowByte(s)
           hi == HighByte(s)
<1>1. lo \in Byte /\ hi \in Byte /\ lo \in Elements /\ Up(hi, BYTE) \in Elements
  BY HalvesAreBytes, ByteInElements
<1>2. s = Xor(lo, Up(hi, BYTE))
  BY Halves
<1>3. ByteProduct(ByteTables(c), s) = Xor(ByteTables(c).lo[lo], ByteTables(c).hi[hi])
  BY DEF ByteProduct
<1> HIDE DEF lo, hi
<1>4. ByteTables(c).lo[lo] = gf_mul(c, lo) /\ ByteTables(c).hi[hi] = gf_mul(c, Up(hi, BYTE))
  BY <1>1 DEF ByteTables
<1>5. gf_mul(c, lo) = PolyMul(c, lo) /\ gf_mul(c, Up(hi, BYTE)) = PolyMul(c, Up(hi, BYTE))
  BY <1>1, MulIsExact
<1>6. PolyMul(c, Xor(lo, Up(hi, BYTE))) = Xor(PolyMul(c, lo), PolyMul(c, Up(hi, BYTE)))
  BY PolyMulRight
<1> QED BY <1>2, <1>3, <1>4, <1>5, <1>6

\* What the nibble tables hold.
LEMMA NibbleEntries ==
  ASSUME Tabulated, NEW c \in Elements, NEW n \in Nibble
  PROVE  LET t == NibbleTables(ByteTables(c))
             p == PolyMul(c, n)
             q == PolyMul(c, Up(n, NIBBLE))
             u == PolyMul(c, Up(n, BYTE))
             v == PolyMul(c, Up(Up(n, NIBBLE), BYTE))
         IN  /\ t.lo_lo[n] = LowByte(p) /\ t.lo_hi[n] = HighByte(p)
             /\ t.lo_lo_n16[n] = LowByte(q) /\ t.lo_hi_n16[n] = HighByte(q)
             /\ t.hi_lo[n] = LowByte(u) /\ t.hi_hi[n] = HighByte(u)
             /\ t.hi_lo_n16[n] = LowByte(v) /\ t.hi_hi_n16[n] = HighByte(v)
<1> DEFINE m == Up(n, NIBBLE)
           byte == ByteTables(c)
<1>1. n \in Byte /\ m \in Byte
  BY NibbleInByte
<1> HIDE DEF m
<1>2. /\ byte.lo[n] = gf_mul(c, n) /\ byte.lo[m] = gf_mul(c, m)
      /\ byte.hi[n] = gf_mul(c, Up(n, BYTE)) /\ byte.hi[m] = gf_mul(c, Up(m, BYTE))
  BY <1>1 DEF ByteTables
<1>3. n \in Elements /\ m \in Elements /\ Up(n, BYTE) \in Elements /\ Up(m, BYTE) \in Elements
  BY <1>1, ByteInElements
<1>4. /\ gf_mul(c, n) = PolyMul(c, n) /\ gf_mul(c, m) = PolyMul(c, m)
      /\ gf_mul(c, Up(n, BYTE)) = PolyMul(c, Up(n, BYTE))
      /\ gf_mul(c, Up(m, BYTE)) = PolyMul(c, Up(m, BYTE))
  BY <1>3, MulIsExact
<1> HIDE DEF byte
<1> DEFINE t == NibbleTables(byte)
<1>5. /\ t.lo_lo[n] = LowByte(byte.lo[n]) /\ t.lo_hi[n] = HighByte(byte.lo[n])
      /\ t.lo_lo_n16[n] = LowByte(byte.lo[m]) /\ t.lo_hi_n16[n] = HighByte(byte.lo[m])
      /\ t.hi_lo[n] = LowByte(byte.hi[n]) /\ t.hi_hi[n] = HighByte(byte.hi[n])
      /\ t.hi_lo_n16[n] = LowByte(byte.hi[m]) /\ t.hi_hi_n16[n] = HighByte(byte.hi[m])
  BY DEF NibbleTables, m
<1> HIDE DEF t
<1> QED BY <1>2, <1>4, <1>5 DEF m, byte, t

\* The sum of four words, half by half.
LEMMA FourHalves ==
  ASSUME NEW p \in Elements, NEW q \in Elements, NEW u \in Elements, NEW v \in Elements
  PROVE  LET z == Xor(Xor(p, q), Xor(u, v))
             lo == Xor(Xor(LowByte(p), LowByte(q)), Xor(LowByte(u), LowByte(v)))
             hi == Xor(Xor(HighByte(p), HighByte(q)), Xor(HighByte(u), HighByte(v)))
         IN  z = lo \cup Up(hi, BYTE)
<1> DEFINE x == Xor(p, q)
           y == Xor(u, v)
           z == Xor(x, y)
<1>1. x \in Elements /\ y \in Elements /\ z \in Elements
  BY XorInElements
<1>2. LowByte(x) = Xor(LowByte(p), LowByte(q)) /\ HighByte(x) = Xor(HighByte(p), HighByte(q))
  BY HalvesXor
<1>3. LowByte(y) = Xor(LowByte(u), LowByte(v)) /\ HighByte(y) = Xor(HighByte(u), HighByte(v))
  BY HalvesXor
<1> HIDE DEF x, y
<1>4. LowByte(z) = Xor(LowByte(x), LowByte(y)) /\ HighByte(z) = Xor(HighByte(x), HighByte(y))
  BY <1>1, HalvesXor
<1>5. z = LowByte(z) \cup Up(HighByte(z), BYTE)
  <2> HIDE DEF z
  <2> QED BY <1>1, Halves
<1>6. z = Xor(Xor(LowByte(p), LowByte(q)), Xor(LowByte(u), LowByte(v)))
          \cup Up(Xor(Xor(HighByte(p), HighByte(q)), Xor(HighByte(u), HighByte(v))), BYTE)
  <2> HIDE DEF z
  <2> QED BY <1>2, <1>3, <1>4, <1>5
<1> QED BY <1>6 DEF x, y

LEMMA NibblesAgree ==
  ASSUME Tabulated, NEW c \in Elements, NEW s \in Elements, NEW next \in Byte
  PROVE  NibbleProduct(NibbleTables(ByteTables(c)), s, next) = PolyMul(c, s)
<1> DEFINE lo == LowByte(s)
           hi == HighByte(s)
           a == LowNibble(lo)
           b2 == HighNibble(lo, next)
           d == LowNibble(hi)
           e == HighNibble(hi, next)
           t == NibbleTables(ByteTables(c))
           low == Xor(Xor(t.lo_lo[a], t.lo_lo_n16[b2]), Xor(t.hi_lo[d], t.hi_lo_n16[e]))
           high == Xor(Xor(t.lo_hi[a], t.lo_hi_n16[b2]), Xor(t.hi_hi[d], t.hi_hi_n16[e]))
           p == PolyMul(c, a)
           q == PolyMul(c, Up(b2, NIBBLE))
           u == PolyMul(c, Up(d, BYTE))
           v == PolyMul(c, Up(Up(e, NIBBLE), BYTE))
<1>1. NibbleProduct(t, s, next) = low \cup Up(high, BYTE)
  BY DEF NibbleProduct
<1>2. lo \in Byte /\ hi \in Byte
  BY HalvesAreBytes
<1>3. s = Xor(lo, Up(hi, BYTE))
  BY Halves
<1> HIDE DEF lo, hi
<1>4. a \in Nibble /\ b2 \in Nibble /\ lo = Xor(a, Up(b2, NIBBLE))
  BY <1>2, Nibbles
<1>5. d \in Nibble /\ e \in Nibble /\ hi = Xor(d, Up(e, NIBBLE))
  BY <1>2, Nibbles
<1> HIDE DEF a, b2, d, e
<1>6. t.lo_lo[a] = LowByte(p) /\ t.lo_hi[a] = HighByte(p)
  BY <1>4, NibbleEntries
<1>7. t.lo_lo_n16[b2] = LowByte(q) /\ t.lo_hi_n16[b2] = HighByte(q)
  BY <1>4, NibbleEntries
<1>8. t.hi_lo[d] = LowByte(u) /\ t.hi_hi[d] = HighByte(u)
  BY <1>5, NibbleEntries
<1>9. t.hi_lo_n16[e] = LowByte(v) /\ t.hi_hi_n16[e] = HighByte(v)
  BY <1>5, NibbleEntries
<1>10. PolyMul(c, lo) = Xor(p, q)
  BY <1>4, PolyMulRight
<1>11. PolyMul(c, Up(hi, BYTE)) = Xor(u, v)
  <2>1. d \in SUBSET Int /\ Up(e, NIBBLE) \in SUBSET Int
    BY <1>5, NibbleInByte, ByteInElements
  <2>2. Up(hi, BYTE) = Xor(Up(d, BYTE), Up(Up(e, NIBBLE), BYTE))
    BY <1>5, <2>1, UpXor, Sizes
  <2> QED BY <2>2, PolyMulRight
<1>12. PolyMul(c, s) = Xor(Xor(p, q), Xor(u, v))
  BY <1>3, <1>10, <1>11, PolyMulRight
<1>13. p \in Elements /\ q \in Elements /\ u \in Elements /\ v \in Elements
  BY PolyMulInElements
<1> HIDE DEF t, p, q, u, v
<1>14. Xor(Xor(p, q), Xor(u, v)) =
         Xor(Xor(LowByte(p), LowByte(q)), Xor(LowByte(u), LowByte(v)))
         \cup Up(Xor(Xor(HighByte(p), HighByte(q)), Xor(HighByte(u), HighByte(v))), BYTE)
  BY <1>13, FourHalves
<1> QED BY <1>1, <1>6, <1>7, <1>8, <1>9, <1>12, <1>14 DEF t

-----------------------------------------------------------------------------
(* The affine path                                                         *)

\* The columns of a matrix, among those of x, that have a 1 in row o.
Ones(c, x, base, o) == {k \in x : o \in PolyMul(c, {base + k})}

\* A bit of the product is the parity of the columns it takes a 1 from.
LEMMA BitIsParity ==
  ASSUME NEW c \in Elements, NEW x \in Byte, NEW base \in {0, BYTE}, NEW o
  PROVE  o \in PolyMul(c, Up(x, base)) <=> Cardinality(Ones(c, x, base, o)) % 2 = 1
<1> DEFINE For(y) == /\ IsFiniteSet(Ones(c, y, base, o)) /\ Cardinality(Ones(c, y, base, o)) \in Nat
                     /\ o \in PolyMul(c, Up(y, base)) <=> Cardinality(Ones(c, y, base, o)) % 2 = 1
           S == {n \in Nat : \A y \in SUBSET (0 .. n - 1) : For(y)}
<1>0. base \in Nat
  BY Sizes
<1>1. 0 \in S
  <2>1. For({})
    <3>1. Up({}, base) = {} /\ Ones(c, {}, base, o) = {}
      BY DEF Up, Ones
    <3>2. PolyMul(c, {}) = {}
      BY PolyMulZero
    <3>3. IsFiniteSet({}) /\ Cardinality({}) = 0
      BY FS_EmptySet
    <3> QED BY <3>1, <3>2, <3>3
  <2>2. SUBSET (0 .. 0 - 1) = {{}}
    OBVIOUS
  <2> HIDE DEF For
  <2> QED BY <2>1, <2>2
<1>2. ASSUME NEW n \in Nat, n \in S PROVE n + 1 \in S
  <2> SUFFICES ASSUME NEW y \in SUBSET (0 .. (n + 1) - 1) PROVE For(y)
    OBVIOUS
  <2> DEFINE z == y \ {n}
  <2>1. z \in SUBSET (0 .. n - 1) /\ z \in SUBSET Int /\ y \in SUBSET Int
    OBVIOUS
  <2>2. For(z)
    <3> HIDE DEF For, z
    <3> QED BY <1>2, <2>1
  <2>3. CASE n \notin y
    <3>1. z = y
      BY <2>3
    <3> HIDE DEF For, z
    <3> QED BY <2>2, <3>1
  <2>4. CASE n \in y
    <3>1. y = Xor(z, {n})
      BY <2>4 DEF Xor
    <3>2. Up({n}, base) = {base + n}
      <4>1. n + base = base + n
        BY <1>0
      <4> QED BY <4>1 DEF Up
    <3>3. Up(y, base) = Xor(Up(z, base), {base + n})
      <4>1. {n} \in SUBSET Int /\ base \in Int
        BY <1>0
      <4> DEFINE w == {n}
      <4> HIDE DEF z, w
      <4>2. Up(Xor(z, w), base) = Xor(Up(z, base), Up(w, base))
        BY <2>1, <4>1, UpXor DEF w
      <4> QED BY <3>1, <3>2, <4>2 DEF w
    <3>4. PolyMul(c, Up(y, base)) = Xor(PolyMul(c, Up(z, base)), PolyMul(c, {base + n}))
      BY <3>3, PolyMulRight
    <3>5. CASE o \in PolyMul(c, {base + n})
      <4>1. Ones(c, y, base, o) = Ones(c, z, base, o) \cup {n} /\ n \notin Ones(c, z, base, o)
        BY <2>4, <3>5 DEF Ones
      <4> DEFINE ones == Ones(c, z, base, o)
                 card == Cardinality(ones)
      <4>2. IsFiniteSet(ones) /\ card \in Nat /\ (o \in PolyMul(c, Up(z, base)) <=> card % 2 = 1)
        BY <2>2
      <4> HIDE DEF ones
      <4>3. IsFiniteSet(ones \cup {n}) /\ Cardinality(ones \cup {n}) = card + 1
        BY <4>1, <4>2, FS_AddElement DEF ones
      <4> HIDE DEF card
      <4>4. o \in PolyMul(c, Up(y, base)) <=> ~(o \in PolyMul(c, Up(z, base)))
        BY <3>4, <3>5 DEF Xor
      <4>5. (card + 1) % 2 = 1 <=> ~(card % 2 = 1)
        BY <4>2
      <4>6. card + 1 \in Nat
        BY <4>2
      <4> QED BY <4>1, <4>2, <4>3, <4>4, <4>5, <4>6 DEF ones
    <3>6. CASE o \notin PolyMul(c, {base + n})
      <4>1. Ones(c, y, base, o) = Ones(c, z, base, o)
        BY <3>6 DEF Ones
      <4>2. o \in PolyMul(c, Up(y, base)) <=> o \in PolyMul(c, Up(z, base))
        BY <3>4, <3>6 DEF Xor
      <4> QED BY <2>2, <4>1, <4>2
    <3> QED BY <3>5, <3>6
  <2> QED BY <2>3, <2>4
<1>3. For(x)
  <2>1. BYTE \in S
    <3> HIDE DEF S
    <3> QED BY <1>1, <1>2, NatInSet, Sizes
  <2> HIDE DEF For
  <2> QED BY <2>1 DEF Byte
<1> QED BY <1>3

\* A place in the packed matrix is of one row and one column only.
LEMMA OnePlace ==
  ASSUME NEW i \in 0 .. BYTE - 1, NEW k \in 0 .. BYTE - 1,
         NEW j \in 0 .. BYTE - 1, NEW m \in 0 .. BYTE - 1,
         (BYTE - 1 - i) * BYTE + k = m + (BYTE - 1 - j) * BYTE
  PROVE  i = j /\ k = m
<1> DEFINE u == BYTE - 1 - i
           v == BYTE - 1 - j
           n == BYTE * u + k
<1>1. u \in Nat /\ v \in Nat /\ BYTE * u \in Nat /\ BYTE * v \in Nat
  BY Sizes
<1>2. n = BYTE * v + m
  <2>1. u * BYTE + k = m + v * BYTE
    OBVIOUS
  <2> HIDE DEF u, v
  <2>2. u * BYTE = BYTE * u /\ v * BYTE = BYTE * v
    BY <1>1, Sizes
  <2> QED BY <1>1, <2>1, <2>2, Sizes
<1>3. /\ n \in Nat /\ BYTE * u <= n /\ n < BYTE * u + BYTE
      /\ BYTE * v <= n /\ n < BYTE * v + BYTE
  <2> HIDE DEF u, v
  <2>1. n \in Nat /\ BYTE * u <= n /\ n < BYTE * u + BYTE
    BY <1>1, Sizes
  <2>2. BYTE * v <= n /\ n < BYTE * v + BYTE
    BY <1>1, <1>2, Sizes
  <2> QED BY <2>1, <2>2
<1> HIDE DEF n
<1>4. n \div BYTE = u /\ n \div BYTE = v
  <2> HIDE DEF u, v
  <2> QED BY <1>1, <1>3, QuotientIs, Sizes
<1>5. i = j
  BY <1>4, Sizes
<1>6. k = m
  <2> HIDE DEF u, v
  <2> QED BY <1>1, <1>2, <1>4, Sizes DEF n
<1> QED BY <1>5, <1>6

\* A packed matrix, applied to a byte, is its part of the product.
LEMMA AffineIs ==
  ASSUME Tabulated, NEW c \in Elements, NEW x \in Byte,
         NEW ob \in {0, BYTE}, NEW base \in {0, BYTE}
  PROVE  AffineApply(PackBlock(c, ob, base), x) =
           {i \in 0 .. BYTE - 1 : ob + i \in PolyMul(c, Up(x, base))}
<1> DEFINE mat == PackBlock(c, ob, base)
           row(i) == {k \in 0 .. BYTE - 1 : ob + i \in gf_mul(c, {base + k})}
           back(i) == {k \in 0 .. BYTE - 1 : (BYTE - 1 - i) * BYTE + k \in mat}
<1>1. mat = UNION {Up(row(i), (BYTE - 1 - i) * BYTE) : i \in 0 .. BYTE - 1}
  BY DEF PackBlock
<1>2. AffineApply(mat, x) =
        {i \in 0 .. BYTE - 1 : Cardinality(back(i) \cap x) % 2 = 1}
  BY DEF AffineApply
<1> HIDE DEF mat
<1>3. ASSUME NEW i \in 0 .. BYTE - 1, NEW k \in 0 .. BYTE - 1
      PROVE  k \in back(i) <=> k \in row(i)
  <2>1. k \in row(i) => k \in back(i)
    <3> SUFFICES ASSUME k \in row(i) PROVE (BYTE - 1 - i) * BYTE + k \in mat
      OBVIOUS
    <3> HIDE DEF row
    <3>1. (BYTE - 1 - i) * BYTE \in Int
      BY Sizes
    <3>2. k + (BYTE - 1 - i) * BYTE \in Up(row(i), (BYTE - 1 - i) * BYTE)
      BY DEF Up
    <3>3. k + (BYTE - 1 - i) * BYTE = (BYTE - 1 - i) * BYTE + k
      BY <3>1
    <3> QED BY <1>1, <3>2, <3>3
  <2>2. ASSUME k \in back(i) PROVE k \in row(i)
    <3>1. (BYTE - 1 - i) * BYTE + k \in mat
      BY <2>2
    <3>2. PICK j \in 0 .. BYTE - 1 :
             (BYTE - 1 - i) * BYTE + k \in Up(row(j), (BYTE - 1 - j) * BYTE)
      <4> HIDE DEF row
      <4> QED BY <1>1, <3>1
    <3>3. PICK m \in row(j) : (BYTE - 1 - i) * BYTE + k = m + (BYTE - 1 - j) * BYTE
      <4> HIDE DEF row
      <4> QED BY <3>2 DEF Up
    <3>4. m \in 0 .. BYTE - 1
      BY <3>3
    <3>5. i = j /\ k = m
      BY <3>3, <3>4, OnePlace
    <3> QED BY <3>3, <3>5
  <2> QED BY <2>1, <2>2
<1>4. ASSUME NEW i \in 0 .. BYTE - 1
      PROVE  back(i) \cap x = Ones(c, x, base, ob + i)
  <2>1. x \subseteq 0 .. BYTE - 1
    BY DEF Byte
  <2>2. back(i) = row(i)
    BY <1>3
  <2>3. ASSUME NEW k \in 0 .. BYTE - 1 PROVE gf_mul(c, {base + k}) = PolyMul(c, {base + k})
    <3>1. {base + k} \in Elements
      BY Sizes DEF Elements
    <3> QED BY <3>1, MulIsExact
  <2>4. row(i) \cap x = Ones(c, x, base, ob + i)
    BY <2>1, <2>3 DEF Ones
  <2> HIDE DEF row, back
  <2> QED BY <2>2, <2>4
<1>5. ASSUME NEW i \in 0 .. BYTE - 1
      PROVE  Cardinality(back(i) \cap x) % 2 = 1 <=> ob + i \in PolyMul(c, Up(x, base))
  <2> HIDE DEF back
  <2>1. back(i) \cap x = Ones(c, x, base, ob + i)
    BY <1>4
  <2> DEFINE o == ob + i
  <2>2. o \in PolyMul(c, Up(x, base)) <=> Cardinality(Ones(c, x, base, o)) % 2 = 1
    <3> HIDE DEF o
    <3> QED BY BitIsParity
  <2> QED BY <2>1, <2>2
<1> HIDE DEF back
<1> QED BY <1>2, <1>5 DEF mat

LEMMA AffineAgrees ==
  ASSUME Tabulated, NEW c \in Elements, NEW s \in Elements
  PROVE  AffineProduct(GfniTables(c), s) = PolyMul(c, s)
<1> DEFINE lo == LowByte(s)
           hi == HighByte(s)
           t == GfniTables(c)
           p == PolyMul(c, lo)
           q == PolyMul(c, Up(hi, BYTE))
           low == Xor(AffineApply(t.mat_ll, lo), AffineApply(t.mat_lh, hi))
           high == Xor(AffineApply(t.mat_hl, lo), AffineApply(t.mat_hh, hi))
<1>1. AffineProduct(t, s) = low \cup Up(high, BYTE)
  BY DEF AffineProduct
<1>2. lo \in Byte /\ hi \in Byte
  BY HalvesAreBytes
<1>3. s = Xor(lo, Up(hi, BYTE))
  BY Halves
<1> HIDE DEF lo, hi
<1>4. PolyMul(c, s) = Xor(p, q)
  BY <1>3, PolyMulRight
<1>5. Up(lo, 0) = lo
  BY <1>2, ByteInElements, UpByZero
<1>6. /\ t.mat_ll = PackBlock(c, 0, 0) /\ t.mat_lh = PackBlock(c, 0, BYTE)
      /\ t.mat_hl = PackBlock(c, BYTE, 0) /\ t.mat_hh = PackBlock(c, BYTE, BYTE)
  BY DEF GfniTables
<1> HIDE DEF t
<1>7. AffineApply(t.mat_ll, lo) = {i \in 0 .. BYTE - 1 : 0 + i \in p}
  BY <1>2, <1>5, <1>6, AffineIs
<1>8. AffineApply(t.mat_lh, hi) = {i \in 0 .. BYTE - 1 : 0 + i \in q}
  BY <1>2, <1>6, AffineIs
<1>9. AffineApply(t.mat_hl, lo) = {i \in 0 .. BYTE - 1 : BYTE + i \in p}
  BY <1>2, <1>5, <1>6, AffineIs
<1>10. AffineApply(t.mat_hh, hi) = {i \in 0 .. BYTE - 1 : BYTE + i \in q}
  BY <1>2, <1>6, AffineIs
<1> HIDE DEF p, q
<1>11. \A i \in 0 .. BYTE - 1 : 0 + i = i
  BY Sizes
<1>12. low \in Byte /\ high \in Byte
  BY <1>7, <1>8, <1>9, <1>10 DEF Xor, Byte
<1>13. ASSUME NEW i \in 0 .. BYTE - 1
       PROVE  (i \in low <=> i \in Xor(p, q)) /\ (i \in high <=> BYTE + i \in Xor(p, q))
  BY <1>7, <1>8, <1>9, <1>10, <1>11 DEF Xor
<1>14. Xor(p, q) \in Elements
  BY PolyMulInElements, XorInElements DEF p, q
<1> HIDE DEF low, high
<1>15. Xor(p, q) = low \cup Up(high, BYTE)
  BY <1>12, <1>13, <1>14, WordOfBytes
<1> QED BY <1>1, <1>4, <1>15 DEF t

-----------------------------------------------------------------------------
\* The tables of a coefficient stand for it from when they are built.
CoeffInv ==
  /\ simd # NoTables => pc = "multiply"
  /\ PathsAgree

LEMMA CoefficientInElements ==
  ASSUME TablesInv, BasesInv, pc = "ready", NEW c \in Wanted
  PROVE  c \in Elements
<1>1. CASE c = {}
  BY <1>1, Zero
<1>2. ASSUME NEW r \in 1 .. recovery_count, NEW i \in 1 .. input_count, c = coefficient(r, i)
      PROVE  c \in Elements
  <2>1. Tabulated
    BY TablesComplete DEF BasesInv
  <2>2. i \in 1 .. Len(input_bases) /\ BasesBelow(input_bases, logbase)
    BY DEF BasesInv
  <2>3. PICK a \in Coprimes(logbase) : input_bases[i] = Walk[a]
    BY <2>2 DEF BasesBelow
  <2>4. a \in 0 .. FIELD_LIMIT - 1
    BY <2>3, Order DEF BasesInv, Coprimes
  <2>5. recovery_exponents[r] = first_exponent + r - 1 /\ first_exponent + r - 1 \in Nat
    BY DEF BasesInv
  <2> DEFINE e == recovery_exponents[r]
  <2>6. c = gf_pow(Walk[a], e) /\ e \in Nat
    BY <1>2, <2>3, <2>5 DEF coefficient
  <2> HIDE DEF e
  <2>7. a * e \in Nat /\ gf_pow(Walk[a], e) = Walk[a * e]
    BY <2>1, <2>4, <2>6, PowIsWalk
  <2> QED BY <2>6, <2>7, WalkLaws
<1> QED BY <1>1, <1>2 DEF Wanted

LEMMA NewAgrees ==
  ASSUME TablesInv, BasesInv, NEW path \in Paths, New(path)
  PROVE  PathsAgree'
<1>1. PICK c : c = coeff'
  OBVIOUS
<1>2. c \in Elements /\ Tabulated
  BY <1>1, CoefficientInElements, TablesComplete DEF New, BasesInv
<1>3. simd' = TablesFor(path, c) /\ log' = log /\ antilog' = antilog
  BY <1>1 DEF New, tables
<1> SUFFICES ASSUME NEW s \in Elements, NEW next \in {{}, 0 .. BYTE - 1}
             PROVE  Apply(s, next)' = PolyMul(c, s)
  BY <1>1 DEF PathsAgree
<1>4. next \in Byte
  BY DEF Byte
<1>5. gf_mul(coeff, s)' = gf_mul(c, s)
  BY <1>1, <1>3 DEF gf_mul
<1>6. Apply(s, next)' = CASE simd'.path = "trivial" -> IF c = {} THEN {} ELSE s
                          [] simd'.path = "scalar"  -> gf_mul(c, s)
                          [] simd'.path = "bytes"   -> ByteProduct(simd'.t, s)
                          [] simd'.path = "nibbles" -> NibbleProduct(simd'.t, s, next)
                          [] simd'.path = "affine"  -> AffineProduct(simd'.t, s)
  BY <1>1, <1>5 DEF Apply
<1>7. CASE c \in {{}, {0}}
  <2>1. simd'.path = "trivial"
    BY <1>3, <1>7 DEF TablesFor
  <2>2. PolyMul({}, s) = {} /\ PolyMul({0}, s) = s
    BY Zero, PolyMulZero, PolyMulOne
  <2>3. {0} # {}
    OBVIOUS
  <2> QED BY <1>6, <1>7, <2>1, <2>2, <2>3
<1>8. CASE c \notin {{}, {0}} /\ path = "scalar"
  <2>1. simd'.path = "scalar"
    BY <1>3, <1>8 DEF TablesFor
  <2> QED BY <1>2, <1>6, <2>1, MulIsExact
<1>9. CASE c \notin {{}, {0}} /\ path = "bytes"
  <2>1. simd'.path = "bytes" /\ simd'.t = ByteTables(c)
    BY <1>3, <1>9 DEF TablesFor
  <2> QED BY <1>2, <1>6, <2>1, BytesAgree
<1>10. CASE c \notin {{}, {0}} /\ path = "nibbles"
  <2>1. simd'.path = "nibbles" /\ simd'.t = NibbleTables(ByteTables(c))
    BY <1>3, <1>10 DEF TablesFor
  <2> QED BY <1>2, <1>4, <1>6, <2>1, NibblesAgree
<1>11. CASE c \notin {{}, {0}} /\ path = "affine"
  <2>1. simd'.path = "affine" /\ simd'.t = GfniTables(c)
    BY <1>3, <1>11 DEF TablesFor
  <2> QED BY <1>2, <1>6, <2>1, AffineAgrees
<1> QED BY <1>7, <1>8, <1>9, <1>10, <1>11 DEF Paths

\* For every field whose words are two bytes of two nibbles: whichever path
\* builds the tables of a coefficient, they multiply every symbol by it.
THEOREM PathsAreTheField == CoeffSpec => []PathsAgree
<1>1. CoeffInit => CoeffInv
  BY DEF CoeffInit, CoeffInv, PathsAgree
<1>2. TablesInv /\ BasesInv /\ CoeffInv /\ [CoeffNext]_coeffVars => CoeffInv'
  <2> SUFFICES ASSUME TablesInv, BasesInv, CoeffInv, [CoeffNext]_coeffVars
               PROVE  CoeffInv'
    OBVIOUS
  <2>1. CASE BuildEncoder
    <3>1. pc # "multiply" /\ UNCHANGED simd
      BY <2>1 DEF BuildEncoder, RsNext, Tables, NewEncoder, TakeBase, SkipBase, Exhausted, Exponents
    <3>2. simd' = NoTables
      BY <3>1 DEF CoeffInv
    <3> QED BY <3>2 DEF CoeffInv, PathsAgree, NoTables
  <2>2. ASSUME NEW path \in Paths, New(path) PROVE CoeffInv'
    <3>1. pc' = "multiply"
      BY <2>2 DEF New
    <3> QED BY <2>2, <3>1, NewAgrees DEF CoeffInv
  <2>3. CASE UNCHANGED coeffVars
    <3>1. UNCHANGED <<log, antilog, pc, coeff, simd>>
      BY <2>3 DEF coeffVars, rsVars, tables
    <3> QED BY <3>1 DEF CoeffInv, PathsAgree, Apply, gf_mul, NoTables
  <2> QED BY <2>1, <2>2, <2>3 DEF CoeffNext
<1>3. CoeffInv => PathsAgree
  BY DEF CoeffInv
<1> QED BY <1>1, <1>2, <1>3, EncoderInvariant, PTL DEF CoeffSpec

-----------------------------------------------------------------------------
(* The shuffles                                                            *)

\* The index vectors of the kernels, as functions of the place.
LEMMA Indices ==
  /\ \A x \in 0 .. 7 :
       /\ LoIdx[x + 1] = 2 * x /\ HiIdx[x + 1] = 2 * x + 1
       /\ DeintIdx[x + 1] = 2 * x /\ DeintIdx[x + 9] = 2 * x + 1
       /\ InterIdx[2 * x + 1] = x /\ InterIdx[2 * x + 2] = 8 + x
       /\ PermLo[x + 1] = 2 * x /\ PermHi[x + 1] = 2 * x + 1
  /\ \A y \in 0 .. 3 :
       /\ PermInter0[2 * y + 1] = y /\ PermInter0[2 * y + 2] = 8 + y
       /\ PermInter1[2 * y + 1] = 4 + y /\ PermInter1[2 * y + 2] = 12 + y
<1>1. ASSUME NEW x \in 0 .. 7
      PROVE  /\ LoIdx[x + 1] = 2 * x /\ HiIdx[x + 1] = 2 * x + 1
             /\ DeintIdx[x + 1] = 2 * x /\ DeintIdx[x + 9] = 2 * x + 1
             /\ InterIdx[2 * x + 1] = x /\ InterIdx[2 * x + 2] = 8 + x
             /\ PermLo[x + 1] = 2 * x /\ PermHi[x + 1] = 2 * x + 1
  <2>1. x = 0 \/ x = 1 \/ x = 2 \/ x = 3 \/ x = 4 \/ x = 5 \/ x = 6 \/ x = 7
    OBVIOUS
  <2> QED BY <2>1 DEF LoIdx, HiIdx, DeintIdx, InterIdx, PermLo, PermHi
<1>2. ASSUME NEW y \in 0 .. 3
      PROVE  /\ PermInter0[2 * y + 1] = y /\ PermInter0[2 * y + 2] = 8 + y
             /\ PermInter1[2 * y + 1] = 4 + y /\ PermInter1[2 * y + 2] = 12 + y
  <2>1. y = 0 \/ y = 1 \/ y = 2 \/ y = 3
    OBVIOUS
  <2> QED BY <2>1 DEF PermInter0, PermInter1
<1> QED BY <1>1, <1>2

\* Where the byte at place m of lane a of a shuffled register is from.
ShuffledFrom(v, idx, a, m, j) == ShuffleEpi8(v, idx)[16 * a + m] = v[16 * a + j]

\* A byte shuffle stays within its lane.
LEMMA ShuffleAt ==
  ASSUME NEW n \in Nat, NEW v, DOMAIN v = 0 .. n - 1, NEW idx,
         NEW a \in Nat, NEW m \in 0 .. 15, 16 * a + m < n, NEW j \in Nat, idx[m + 1] = j
  PROVE  ShuffledFrom(v, idx, a, m, j)
<1> DEFINE i == 16 * a + m
<1>1. i \in 0 .. n - 1 /\ i % 16 = m /\ i - m = 16 * a
  OBVIOUS
<1> HIDE DEF i
<1>3. ShuffleEpi8(v, idx)[i] = IF j < 0 THEN ZERO ELSE v[i - m + j]
  BY <1>1 DEF ShuffleEpi8, LANE
<1>4. ShuffleEpi8(v, idx)[i] = v[16 * a + j]
  BY <1>1, <1>3
<1> QED BY <1>4 DEF i, ShuffledFrom

\* Where the byte at place m of group g of a permuted register is from.
PermutedFrom(v, idx, u, g, m, q) ==
  Permutex2varEpi64(v, idx, u)[8 * g + m] =
    IF q < 8 THEN v[8 * q + m] ELSE u[8 * (q - 8) + m]

\* A shuffle of groups of 8 bytes crosses the lanes of both registers.
LEMMA PermuteAt ==
  ASSUME NEW v, DOMAIN v = 0 .. 63, NEW u, NEW idx,
         NEW g \in 0 .. 7, NEW m \in 0 .. 7, NEW q \in Nat, idx[g + 1] = q
  PROVE  PermutedFrom(v, idx, u, g, m, q)
<1> DEFINE i == 8 * g + m
<1>1. i \in 0 .. 63 /\ i % 8 = m /\ i \div 8 = g
  OBVIOUS
<1> HIDE DEF i
<1> QED BY <1>1 DEF Permutex2varEpi64, i, PermutedFrom

\* What byte j of the output has to receive.
Term(j) == IF j % 2 = 0 THEN <<"lo", j, j + 1>> ELSE <<"hi", j - 1, j>>

\* A block of w bytes gives each byte of the output its own term.
InPlace(block, o, w) ==
  /\ DOMAIN block = 0 .. w - 1
  /\ \A i \in 0 .. w - 1 : block[i] = Term(o + i)

\* The halves of a symbol at an even place.
LEMMA TermOf ==
  ASSUME NEW o \in Nat, o % 2 = 0, NEW h \in Nat
  PROVE  /\ Term(o + 2 * h) = <<"lo", o + 2 * h, o + 2 * h + 1>>
         /\ Term(o + 2 * h + 1) = <<"hi", o + 2 * h, o + 2 * h + 1>>
<1>1. (o + 2 * h) % 2 = 0 /\ (o + 2 * h + 1) % 2 = 1 /\ (o + 2 * h + 1) - 1 = o + 2 * h
  OBVIOUS
<1> QED BY <1>1 DEF Term

\* vld2q_u8 and vst2q_u8 take the symbols apart and together.
LEMMA NeonInPlace ==
  ASSUME NEW o \in Nat, o % 2 = 0
  PROVE  InPlace(NeonBlock(o), o, 32)
<1> DEFINE low  == [i \in 0 .. 15 |-> o + 2 * i]
           high == [i \in 0 .. 15 |-> o + 2 * i + 1]
<1>1. NeonBlock(o) =
        [i \in 0 .. 31 |-> Product(IF i % 2 = 0 THEN "lo" ELSE "hi", low, high)[i \div 2]]
  BY DEF NeonBlock
<1>2. \A half : \A h \in 0 .. 15 : Product(half, low, high)[h] = <<half, o + 2 * h, o + 2 * h + 1>>
  BY DEF Product
<1> HIDE DEF low, high
<1>3. ASSUME NEW i \in 0 .. 31 PROVE NeonBlock(o)[i] = Term(o + i)
  <2> DEFINE h == i \div 2
  <2>1. h \in 0 .. 15 /\ h \in Nat /\ (i = 2 * h \/ i = 2 * h + 1)
    OBVIOUS
  <2>2. NeonBlock(o)[i] = <<IF i % 2 = 0 THEN "lo" ELSE "hi", o + 2 * h, o + 2 * h + 1>>
    BY <1>1, <1>2, <2>1
  <2> HIDE DEF h
  <2>3. CASE i = 2 * h
    <3>1. i % 2 = 0 /\ o + i = o + 2 * h
      BY <2>1, <2>3
    <3> QED BY <2>1, <2>2, <3>1, TermOf
  <2>4. CASE i = 2 * h + 1
    <3>1. ~(i % 2 = 0) /\ o + i = o + 2 * h + 1
      BY <2>1, <2>4
    <3>2. NeonBlock(o)[i] = <<"hi", o + 2 * h, o + 2 * h + 1>>
      BY <2>2, <3>1
    <3>3. Term(o + 2 * h + 1) = <<"hi", o + 2 * h, o + 2 * h + 1>>
      BY <2>1, TermOf
    <3> QED BY <3>1, <3>2, <3>3
  <2> QED BY <2>1, <2>3, <2>4
<1> QED BY <1>1, <1>3 DEF InPlace

\* Where the bytes of lane a of two unpacked registers are from.
UnpackedFrom(u, v, a, h) ==
  /\ UnpackLoEpi64(u, v)[16 * a + h] = u[16 * a + h]
  /\ UnpackLoEpi64(u, v)[16 * a + 8 + h] = v[16 * a + h]
  /\ UnpackLoEpi8(u, v)[16 * a + 2 * h] = u[16 * a + h]
  /\ UnpackLoEpi8(u, v)[16 * a + 2 * h + 1] = v[16 * a + h]
  /\ UnpackHiEpi8(u, v)[16 * a + 2 * h] = u[16 * a + 8 + h]
  /\ UnpackHiEpi8(u, v)[16 * a + 2 * h + 1] = v[16 * a + 8 + h]

\* The unpacking instructions, lane by lane.
LEMMA UnpackAt ==
  ASSUME NEW n \in Nat, NEW u, NEW v, DOMAIN u = 0 .. n - 1, DOMAIN v = 0 .. n - 1,
         NEW a \in Nat, 16 * a + 16 <= n, NEW h \in 0 .. 7
  PROVE  UnpackedFrom(u, v, a, h)
<1>1. PICK c \in Nat : c = 16 * a
  OBVIOUS
<1>2. /\ c + h \in DOMAIN u /\ (c + h) % 16 = h /\ h < 8
      /\ c + 8 + h \in DOMAIN u /\ (c + 8 + h) % 16 = 8 + h /\ ~(8 + h < 8)
      /\ (c + 8 + h) - 8 = c + h
  BY <1>1
<1>3. /\ UnpackLoEpi64(u, v)[c + h] = u[c + h]
      /\ UnpackLoEpi64(u, v)[c + 8 + h] = v[c + h]
  BY <1>2 DEF UnpackLoEpi64, LANE
<1>4. PICK i, k \in Nat : i = c + 2 * h /\ k = c + 2 * h + 1
  BY <1>1
<1>5. /\ i \in DOMAIN u /\ i % 2 = 0 /\ i - (i % 16) + (i % 16) \div 2 = c + h
      /\ i - (i % 16) + 8 + (i % 16) \div 2 = c + 8 + h
      /\ k \in DOMAIN u /\ ~(k % 2 = 0) /\ k - (k % 16) + (k % 16) \div 2 = c + h
      /\ k - (k % 16) + 8 + (k % 16) \div 2 = c + 8 + h
  BY <1>1, <1>4
<1>6. /\ UnpackLoEpi8(u, v)[i] = u[c + h] /\ UnpackLoEpi8(u, v)[k] = v[c + h]
      /\ UnpackHiEpi8(u, v)[i] = u[c + 8 + h] /\ UnpackHiEpi8(u, v)[k] = v[c + 8 + h]
  BY <1>5 DEF UnpackLoEpi8, UnpackHiEpi8, LANE
<1> QED BY <1>1, <1>3, <1>4, <1>6 DEF UnpackedFrom

\* The kernels that deinterleave with pshufb and weave the products back with
\* punpck: what they leave in each place is the product of the symbol there.
LEMMA ShuffledInPlace ==
  ASSUME NEW o \in Nat, o % 2 = 0, NEW w \in {16, 32}
  PROVE  InPlace(ShuffledBlock(o, w), o, 2 * w)
<1> DEFINE v0   == Load(o, w)
           v1   == Load(o + w, w)
           e0   == ShuffleEpi8(v0, LoIdx)
           e1   == ShuffleEpi8(v1, LoIdx)
           o0   == ShuffleEpi8(v0, HiIdx)
           o1   == ShuffleEpi8(v1, HiIdx)
           low  == UnpackLoEpi64(e0, e1)
           high == UnpackLoEpi64(o0, o1)
           lo   == Product("lo", low, high)
           hi   == Product("hi", low, high)
           r0   == UnpackLoEpi8(lo, hi)
           r1   == UnpackHiEpi8(lo, hi)
<1>1. ShuffledBlock(o, w) = Concat(r0, r1, w)
  BY DEF ShuffledBlock
<1>2. /\ DOMAIN v0 = 0 .. w - 1 /\ \A i \in 0 .. w - 1 : v0[i] = o + i
      /\ DOMAIN v1 = 0 .. w - 1 /\ \A i \in 0 .. w - 1 : v1[i] = o + w + i
  BY DEF Load
<1> HIDE DEF v0, v1
<1>3. DOMAIN e0 = 0 .. w - 1 /\ DOMAIN e1 = 0 .. w - 1 /\ DOMAIN o0 = 0 .. w - 1 /\ DOMAIN o1 = 0 .. w - 1
  BY <1>2 DEF ShuffleEpi8
<1>4. ASSUME NEW a \in Nat, 16 * a + 16 <= w, NEW h \in 0 .. 7
      PROVE  /\ e0[16 * a + h] = o + 16 * a + 2 * h /\ o0[16 * a + h] = o + 16 * a + 2 * h + 1
             /\ e1[16 * a + h] = o + w + 16 * a + 2 * h /\ o1[16 * a + h] = o + w + 16 * a + 2 * h + 1
  <2>1. /\ h \in 0 .. 15 /\ 16 * a + h < w /\ w \in Nat
        /\ LoIdx[h + 1] = 2 * h /\ 2 * h \in Nat
        /\ HiIdx[h + 1] = 2 * h + 1 /\ 2 * h + 1 \in Nat
        /\ 16 * a + 2 * h \in 0 .. w - 1 /\ 16 * a + (2 * h + 1) \in 0 .. w - 1
    BY <1>4, Indices
  <2>2. ASSUME NEW v, DOMAIN v = 0 .. w - 1
        PROVE  ShuffledFrom(v, LoIdx, a, h, 2 * h) /\ ShuffledFrom(v, HiIdx, a, h, 2 * h + 1)
    BY <2>1, <2>2, ShuffleAt
  <2>3. /\ e0[16 * a + h] = v0[16 * a + 2 * h] /\ e1[16 * a + h] = v1[16 * a + 2 * h]
        /\ o0[16 * a + h] = v0[16 * a + (2 * h + 1)] /\ o1[16 * a + h] = v1[16 * a + (2 * h + 1)]
    BY <2>2, <1>2 DEF ShuffledFrom
  <2> HIDE DEF e0, e1, o0, o1
  <2> QED BY <2>1, <2>3, <1>2
<1> HIDE DEF e0, e1, o0, o1
<1>5. DOMAIN low = 0 .. w - 1 /\ DOMAIN high = 0 .. w - 1
  BY <1>3 DEF UnpackLoEpi64
<1>6. ASSUME NEW a \in Nat, 16 * a + 16 <= w, NEW h \in 0 .. 7
      PROVE  /\ low[16 * a + h] = o + 16 * a + 2 * h /\ high[16 * a + h] = o + 16 * a + 2 * h + 1
             /\ low[16 * a + 8 + h] = o + w + 16 * a + 2 * h
             /\ high[16 * a + 8 + h] = o + w + 16 * a + 2 * h + 1
  <2>1. w \in Nat
    OBVIOUS
  <2>a. ASSUME NEW u, NEW v, DOMAIN u = 0 .. w - 1, DOMAIN v = 0 .. w - 1
        PROVE  UnpackedFrom(u, v, a, h)
    BY <2>1, <2>a, <1>6, UnpackAt
  <2>2. /\ low[16 * a + h] = e0[16 * a + h] /\ low[16 * a + 8 + h] = e1[16 * a + h]
        /\ high[16 * a + h] = o0[16 * a + h] /\ high[16 * a + 8 + h] = o1[16 * a + h]
    BY <2>a, <1>3 DEF UnpackedFrom
  <2> HIDE DEF low, high
  <2> QED BY <2>2, <1>4, <1>6
<1> HIDE DEF low, high
<1>7. /\ DOMAIN lo = 0 .. w - 1 /\ DOMAIN hi = 0 .. w - 1
      /\ \A i \in 0 .. w - 1 : lo[i] = <<"lo", low[i], high[i]>> /\ hi[i] = <<"hi", low[i], high[i]>>
  BY <1>5 DEF Product
<1> HIDE DEF lo, hi
<1>8. DOMAIN r0 = 0 .. w - 1 /\ DOMAIN r1 = 0 .. w - 1
  BY <1>7 DEF UnpackLoEpi8, UnpackHiEpi8
<1>9. ASSUME NEW a \in Nat, 16 * a + 16 <= w, NEW h \in 0 .. 7
      PROVE  /\ r0[16 * a + 2 * h] = Term(o + 16 * a + 2 * h)
             /\ r0[16 * a + 2 * h + 1] = Term(o + 16 * a + 2 * h + 1)
             /\ r1[16 * a + 2 * h] = Term(o + w + 16 * a + 2 * h)
             /\ r1[16 * a + 2 * h + 1] = Term(o + w + 16 * a + 2 * h + 1)
  <2>1. w \in Nat /\ 16 * a + h \in 0 .. w - 1 /\ 16 * a + 8 + h \in 0 .. w - 1
    BY <1>9
  <2>a. ASSUME NEW u, NEW v, DOMAIN u = 0 .. w - 1, DOMAIN v = 0 .. w - 1
        PROVE  UnpackedFrom(u, v, a, h)
    BY <2>1, <2>a, <1>9, UnpackAt
  <2>2. /\ r0[16 * a + 2 * h] = lo[16 * a + h] /\ r0[16 * a + 2 * h + 1] = hi[16 * a + h]
        /\ r1[16 * a + 2 * h] = lo[16 * a + 8 + h] /\ r1[16 * a + 2 * h + 1] = hi[16 * a + 8 + h]
    BY <2>a, <1>7 DEF UnpackedFrom
  <2> HIDE DEF r0, r1
  <2>3. PICK p \in Nat : p = o + 16 * a /\ p % 2 = 0
    OBVIOUS
  <2>4. PICK q \in Nat : q = o + w + 16 * a /\ q % 2 = 0
    OBVIOUS
  <2>5. /\ Term(p + 2 * h) = <<"lo", p + 2 * h, p + 2 * h + 1>>
        /\ Term(p + 2 * h + 1) = <<"hi", p + 2 * h, p + 2 * h + 1>>
        /\ Term(q + 2 * h) = <<"lo", q + 2 * h, q + 2 * h + 1>>
        /\ Term(q + 2 * h + 1) = <<"hi", q + 2 * h, q + 2 * h + 1>>
    <3>1. h \in Nat
      OBVIOUS
    <3>2. /\ Term(p + 2 * h) = <<"lo", p + 2 * h, p + 2 * h + 1>>
          /\ Term(p + 2 * h + 1) = <<"hi", p + 2 * h, p + 2 * h + 1>>
      BY <2>3, <3>1, TermOf
    <3>3. /\ Term(q + 2 * h) = <<"lo", q + 2 * h, q + 2 * h + 1>>
          /\ Term(q + 2 * h + 1) = <<"hi", q + 2 * h, q + 2 * h + 1>>
      BY <2>4, <3>1, TermOf
    <3> QED BY <3>2, <3>3
  <2>6. /\ low[16 * a + h] = p + 2 * h /\ high[16 * a + h] = p + 2 * h + 1
        /\ low[16 * a + 8 + h] = q + 2 * h /\ high[16 * a + 8 + h] = q + 2 * h + 1
    BY <1>6, <1>9, <2>3, <2>4
  <2>7. /\ r0[16 * a + 2 * h] = Term(p + 2 * h) /\ r0[16 * a + 2 * h + 1] = Term(p + 2 * h + 1)
        /\ r1[16 * a + 2 * h] = Term(q + 2 * h) /\ r1[16 * a + 2 * h + 1] = Term(q + 2 * h + 1)
    BY <2>1, <2>2, <2>5, <2>6, <1>7
  <2> QED BY <2>3, <2>4, <2>7
<1> HIDE DEF r0, r1
<1>10. ASSUME NEW i \in 0 .. w - 1
       PROVE  r0[i] = Term(o + i) /\ r1[i] = Term(o + w + i)
  <2> DEFINE a == i \div 16
             h == (i % 16) \div 2
  <2>1. a \in Nat /\ 16 * a + 16 <= w /\ h \in 0 .. 7 /\ (i = 16 * a + 2 * h \/ i = 16 * a + 2 * h + 1)
    OBVIOUS
  <2> HIDE DEF a, h
  <2>2. CASE i = 16 * a + 2 * h
    <3>1. o + i = o + 16 * a + 2 * h /\ o + w + i = o + w + 16 * a + 2 * h
      BY <2>1, <2>2
    <3> QED BY <3>1, <2>1, <2>2, <1>9
  <2>3. CASE i = 16 * a + 2 * h + 1
    <3>1. o + i = o + 16 * a + 2 * h + 1 /\ o + w + i = o + w + 16 * a + 2 * h + 1
      BY <2>1, <2>3
    <3> QED BY <3>1, <2>1, <2>3, <1>9
  <2> QED BY <2>1, <2>2, <2>3
<1>11. ASSUME NEW i \in 0 .. 2 * w - 1 PROVE Concat(r0, r1, w)[i] = Term(o + i)
  <2>1. Concat(r0, r1, w)[i] = IF i < w THEN r0[i] ELSE r1[i - w]
    BY DEF Concat
  <2>2. CASE i < w
    <3>1. i \in 0 .. w - 1
      BY <2>2
    <3> QED BY <2>1, <2>2, <3>1, <1>10
  <2>3. CASE ~(i < w)
    <3>1. PICK k \in 0 .. w - 1 : k = i - w /\ o + w + k = o + i
      BY <2>3
    <3> QED BY <2>1, <2>3, <3>1, <1>10
  <2> QED BY <2>2, <2>3
<1>12. DOMAIN Concat(r0, r1, w) = 0 .. 2 * w - 1
  BY DEF Concat
<1> QED BY <1>1, <1>11, <1>12 DEF InPlace

\* The 512-bit kernel, which crosses lanes: after both shuffles the low bytes of
\* all symbols are in one register, and the products find their way back.
LEMMA Avx512InPlace ==
  ASSUME NEW o \in Nat, o % 2 = 0
  PROVE  InPlace(GfniAvx512Block(o), o, 128)
<1> DEFINE v0   == Load(o, 64)
           v1   == Load(o + 64, 64)
           d0   == ShuffleEpi8(v0, DeintIdx)
           d1   == ShuffleEpi8(v1, DeintIdx)
           low  == Permutex2varEpi64(d0, PermLo, d1)
           high == Permutex2varEpi64(d0, PermHi, d1)
           lo   == Product("lo", low, high)
           hi   == Product("hi", low, high)
           p0   == Permutex2varEpi64(lo, PermInter0, hi)
           p1   == Permutex2varEpi64(lo, PermInter1, hi)
           r0   == ShuffleEpi8(p0, InterIdx)
           r1   == ShuffleEpi8(p1, InterIdx)
<1>1. GfniAvx512Block(o) = Concat(r0, r1, 64)
  BY DEF GfniAvx512Block
<1>2. /\ DOMAIN v0 = 0 .. 63 /\ \A i \in 0 .. 63 : v0[i] = o + i
      /\ DOMAIN v1 = 0 .. 63 /\ \A i \in 0 .. 63 : v1[i] = o + 64 + i
  BY DEF Load
<1> HIDE DEF v0, v1
<1>3. DOMAIN d0 = 0 .. 63 /\ DOMAIN d1 = 0 .. 63
  BY <1>2 DEF ShuffleEpi8
\* In each lane the even bytes, then the odd ones.
<1>4. ASSUME NEW a \in 0 .. 3, NEW m \in 0 .. 7
      PROVE  /\ d0[8 * (2 * a) + m] = o + 16 * a + 2 * m
             /\ d0[8 * (2 * a + 1) + m] = o + 16 * a + 2 * m + 1
             /\ d1[8 * (2 * a) + m] = o + 64 + 16 * a + 2 * m
             /\ d1[8 * (2 * a + 1) + m] = o + 64 + 16 * a + 2 * m + 1
  <2>1. /\ a \in Nat /\ m \in 0 .. 15 /\ m + 8 \in 0 .. 15
        /\ 16 * a + m < 64 /\ 16 * a + (m + 8) < 64
        /\ 2 * m \in Nat /\ 2 * m + 1 \in Nat
        /\ DeintIdx[m + 1] = 2 * m /\ DeintIdx[(m + 8) + 1] = 2 * m + 1
    <3>1. DeintIdx[m + 1] = 2 * m /\ DeintIdx[m + 9] = 2 * m + 1 /\ (m + 8) + 1 = m + 9
      BY Indices
    <3> QED BY <3>1
  <2>2. ASSUME NEW v, DOMAIN v = 0 .. 63
        PROVE  ShuffledFrom(v, DeintIdx, a, m, 2 * m) /\ ShuffledFrom(v, DeintIdx, a, m + 8, 2 * m + 1)
    <3>1. PICK n \in Nat : n = 64 /\ DOMAIN v = 0 .. n - 1
      BY <2>2
    <3> QED BY <2>1, <3>1, ShuffleAt
  <2>3. /\ d0[16 * a + m] = v0[16 * a + 2 * m] /\ d0[16 * a + (m + 8)] = v0[16 * a + (2 * m + 1)]
        /\ d1[16 * a + m] = v1[16 * a + 2 * m] /\ d1[16 * a + (m + 8)] = v1[16 * a + (2 * m + 1)]
    BY <2>2, <1>2 DEF ShuffledFrom
  <2> HIDE DEF d0, d1
  <2>4. /\ 8 * (2 * a) + m = 16 * a + m /\ 8 * (2 * a + 1) + m = 16 * a + (m + 8)
        /\ 16 * a + 2 * m \in 0 .. 63 /\ 16 * a + (2 * m + 1) \in 0 .. 63
    OBVIOUS
  <2> QED BY <2>3, <2>4, <1>2
<1> HIDE DEF d0, d1
<1>5. DOMAIN low = 0 .. 63 /\ DOMAIN high = 0 .. 63
  BY <1>3 DEF Permutex2varEpi64
<1>6. ASSUME NEW g \in 0 .. 7, NEW m \in 0 .. 7
      PROVE  low[8 * g + m] = o + 2 * (8 * g + m) /\ high[8 * g + m] = o + 2 * (8 * g + m) + 1
  <2>1. PermLo[g + 1] = 2 * g /\ PermHi[g + 1] = 2 * g + 1 /\ 2 * g \in Nat /\ 2 * g + 1 \in Nat
    BY Indices
  <2>2. PermutedFrom(d0, PermLo, d1, g, m, 2 * g) /\ PermutedFrom(d0, PermHi, d1, g, m, 2 * g + 1)
    BY <2>1, <1>3, PermuteAt
  <2>3. CASE g < 4
    <3>1. /\ low[8 * g + m] = d0[8 * (2 * g) + m] /\ high[8 * g + m] = d0[8 * (2 * g + 1) + m]
      BY <2>2, <2>3 DEF PermutedFrom
    <3> HIDE DEF low, high
    <3>2. g \in 0 .. 3
      BY <2>3
    <3> QED BY <3>1, <3>2, <1>4
  <2>4. CASE ~(g < 4)
    <3>1. PICK a \in 0 .. 3 : a = g - 4 /\ 2 * g - 8 = 2 * a /\ 2 * g + 1 - 8 = 2 * a + 1
                              /\ ~(2 * g < 8) /\ ~(2 * g + 1 < 8)
      BY <2>4
    <3>2. /\ low[8 * g + m] = d1[8 * (2 * a) + m] /\ high[8 * g + m] = d1[8 * (2 * a + 1) + m]
      BY <2>2, <3>1 DEF PermutedFrom
    <3> HIDE DEF low, high
    <3> QED BY <3>1, <3>2, <1>4
  <2> QED BY <2>3, <2>4
<1> HIDE DEF low, high
<1>7. /\ DOMAIN lo = 0 .. 63 /\ DOMAIN hi = 0 .. 63
      /\ \A i \in 0 .. 63 : lo[i] = <<"lo", low[i], high[i]>> /\ hi[i] = <<"hi", low[i], high[i]>>
  BY <1>5 DEF Product
<1> HIDE DEF lo, hi
\* So place i of lo and hi has the product of symbol i of the block.
<1>8. ASSUME NEW i \in 0 .. 63
      PROVE  lo[i] = Term(o + 2 * i) /\ hi[i] = Term(o + 2 * i + 1)
  <2>1. PICK g \in 0 .. 7, m \in 0 .. 7 : i = 8 * g + m
    <3> DEFINE g == i \div 8
               m == i - 8 * g
    <3>1. g \in 0 .. 7 /\ m \in 0 .. 7
      OBVIOUS
    <3>2. i = 8 * g + m
      OBVIOUS
    <3> HIDE DEF g, m
    <3> QED BY <3>1, <3>2
  <2>2. low[i] = o + 2 * i /\ high[i] = o + 2 * i + 1
    BY <2>1, <1>6
  <2>3. lo[i] = <<"lo", o + 2 * i, o + 2 * i + 1>> /\ hi[i] = <<"hi", o + 2 * i, o + 2 * i + 1>>
    BY <2>2, <1>7
  <2>4. i \in Nat
    OBVIOUS
  <2> QED BY <2>3, <2>4, TermOf
<1>9. DOMAIN p0 = 0 .. 63 /\ DOMAIN p1 = 0 .. 63
  BY <1>7 DEF Permutex2varEpi64
\* Groups of low and high halves take turns.
<1>10. ASSUME NEW y \in 0 .. 3, NEW m \in 0 .. 7
       PROVE  /\ p0[16 * y + m] = Term(o + 2 * (8 * y + m))
              /\ p0[16 * y + (8 + m)] = Term(o + 2 * (8 * y + m) + 1)
              /\ p1[16 * y + m] = Term(o + 2 * (32 + 8 * y + m))
              /\ p1[16 * y + (8 + m)] = Term(o + 2 * (32 + 8 * y + m) + 1)
  <2>1. PICK g, h \in 0 .. 7 : g = 2 * y /\ h = 2 * y + 1
    OBVIOUS
  <2>2. /\ PermInter0[g + 1] = y /\ PermInter0[h + 1] = 8 + y
        /\ PermInter1[g + 1] = 4 + y /\ PermInter1[h + 1] = 12 + y
        /\ y \in Nat /\ 8 + y \in Nat /\ 4 + y \in Nat /\ 12 + y \in Nat
    <3>1. g + 1 = 2 * y + 1 /\ h + 1 = 2 * y + 2
      BY <2>1
    <3> QED BY <3>1, Indices
  <2>3. /\ PermutedFrom(lo, PermInter0, hi, g, m, y) /\ PermutedFrom(lo, PermInter0, hi, h, m, 8 + y)
        /\ PermutedFrom(lo, PermInter1, hi, g, m, 4 + y) /\ PermutedFrom(lo, PermInter1, hi, h, m, 12 + y)
    BY <2>1, <2>2, <1>7, PermuteAt
  <2>4. /\ y < 8 /\ ~(8 + y < 8) /\ 4 + y < 8 /\ ~(12 + y < 8)
        /\ (8 + y) - 8 = y /\ (12 + y) - 8 = 4 + y
    OBVIOUS
  <2>5. /\ p0[8 * g + m] = lo[8 * y + m] /\ p0[8 * h + m] = hi[8 * y + m]
        /\ p1[8 * g + m] = lo[8 * (4 + y) + m] /\ p1[8 * h + m] = hi[8 * (4 + y) + m]
    BY <2>3, <2>4 DEF PermutedFrom
  <2> HIDE DEF p0, p1
  <2>6. /\ 8 * g + m = 16 * y + m /\ 8 * h + m = 16 * y + (8 + m)
        /\ 8 * (4 + y) + m = 32 + 8 * y + m
        /\ 8 * y + m \in 0 .. 63 /\ 32 + 8 * y + m \in 0 .. 63
    BY <2>1
  <2> QED BY <2>5, <2>6, <1>8
<1> HIDE DEF p0, p1
<1>11. DOMAIN r0 = 0 .. 63 /\ DOMAIN r1 = 0 .. 63
  BY <1>9 DEF ShuffleEpi8
\* And the last shuffle weaves them.
<1>12. ASSUME NEW y \in 0 .. 3, NEW m \in 0 .. 7
       PROVE  /\ r0[16 * y + 2 * m] = Term(o + 2 * (8 * y + m))
              /\ r0[16 * y + (2 * m + 1)] = Term(o + 2 * (8 * y + m) + 1)
              /\ r1[16 * y + 2 * m] = Term(o + 2 * (32 + 8 * y + m))
              /\ r1[16 * y + (2 * m + 1)] = Term(o + 2 * (32 + 8 * y + m) + 1)
  <2>1. /\ y \in Nat /\ 2 * m \in 0 .. 15 /\ 2 * m + 1 \in 0 .. 15
        /\ 16 * y + 2 * m < 64 /\ 16 * y + (2 * m + 1) < 64
        /\ m \in Nat /\ 8 + m \in Nat
        /\ InterIdx[2 * m + 1] = m /\ InterIdx[(2 * m + 1) + 1] = 8 + m
    <3>1. InterIdx[2 * m + 1] = m /\ InterIdx[2 * m + 2] = 8 + m /\ (2 * m + 1) + 1 = 2 * m + 2
      BY Indices
    <3> QED BY <3>1
  <2>2. ASSUME NEW v, DOMAIN v = 0 .. 63
        PROVE  ShuffledFrom(v, InterIdx, y, 2 * m, m) /\ ShuffledFrom(v, InterIdx, y, 2 * m + 1, 8 + m)
    <3>1. PICK n \in Nat : n = 64 /\ DOMAIN v = 0 .. n - 1
      BY <2>2
    <3> QED BY <2>1, <3>1, ShuffleAt
  <2>3. /\ r0[16 * y + 2 * m] = p0[16 * y + m] /\ r0[16 * y + (2 * m + 1)] = p0[16 * y + (8 + m)]
        /\ r1[16 * y + 2 * m] = p1[16 * y + m] /\ r1[16 * y + (2 * m + 1)] = p1[16 * y + (8 + m)]
    BY <2>2, <1>9 DEF ShuffledFrom
  <2> HIDE DEF r0, r1
  <2> QED BY <2>3, <1>10
<1> HIDE DEF r0, r1
<1>13. ASSUME NEW i \in 0 .. 63
       PROVE  r0[i] = Term(o + i) /\ r1[i] = Term(o + 64 + i)
  <2> DEFINE y == i \div 16
             m == (i % 16) \div 2
  <2>1. y \in 0 .. 3 /\ m \in 0 .. 7 /\ (i = 16 * y + 2 * m \/ i = 16 * y + (2 * m + 1))
    OBVIOUS
  <2> HIDE DEF y, m
  <2>2. CASE i = 16 * y + 2 * m
    <3>1. o + i = o + 2 * (8 * y + m) /\ o + 64 + i = o + 2 * (32 + 8 * y + m)
      BY <2>1, <2>2
    <3> QED BY <3>1, <2>1, <2>2, <1>12
  <2>3. CASE i = 16 * y + (2 * m + 1)
    <3>1. o + i = o + 2 * (8 * y + m) + 1 /\ o + 64 + i = o + 2 * (32 + 8 * y + m) + 1
      BY <2>1, <2>3
    <3> QED BY <3>1, <2>1, <2>3, <1>12
  <2> QED BY <2>1, <2>2, <2>3
<1>14. ASSUME NEW i \in 0 .. 127 PROVE Concat(r0, r1, 64)[i] = Term(o + i)
  <2>1. Concat(r0, r1, 64)[i] = IF i < 64 THEN r0[i] ELSE r1[i - 64]
    BY DEF Concat
  <2>2. CASE i < 64
    <3>1. i \in 0 .. 63
      BY <2>2
    <3> QED BY <2>1, <2>2, <3>1, <1>13
  <2>3. CASE ~(i < 64)
    <3>1. PICK k \in 0 .. 63 : k = i - 64 /\ o + 64 + k = o + i
      BY <2>3
    <3> QED BY <2>1, <2>3, <3>1, <1>13
  <2> QED BY <2>2, <2>3
<1>15. DOMAIN Concat(r0, r1, 64) = 0 .. 127
  BY DEF Concat
<1> QED BY <1>1, <1>14, <1>15 DEF InPlace

\* So does every kernel.
LEMMA BlockInPlace ==
  ASSUME NEW k \in Vector, NEW o \in Nat, o % 2 = 0
  PROVE  InPlace(BlockOf(k, o), o, Width[k])
<1>1. InPlace(ShuffledBlock(o, 16), o, 32)
  <2>1. PICK w \in {16, 32} : w = 16 /\ 2 * w = 32
    OBVIOUS
  <2> QED BY <2>1, ShuffledInPlace
<1>2. InPlace(ShuffledBlock(o, 32), o, 64)
  <2>1. PICK w \in {16, 32} : w = 32 /\ 2 * w = 64
    OBVIOUS
  <2> QED BY <2>1, ShuffledInPlace
<1>3. CASE k = "Neon"
  <2>1. BlockOf(k, o) = NeonBlock(o) /\ Width[k] = 32
    BY <1>3 DEF BlockOf, Width, Vector
  <2> QED BY <2>1, NeonInPlace
<1>4. CASE k = "Ssse3" \/ k = "Gfni"
  <2>1. BlockOf(k, o) = ShuffledBlock(o, 16) /\ Width[k] = 32
    BY <1>4 DEF BlockOf, Width, Vector, Ssse3Block, GfniBlock
  <2> QED BY <2>1, <1>1
<1>5. CASE k = "Avx2"
  <2>1. BlockOf(k, o) = ShuffledBlock(o, 32) /\ Width[k] = 64
    BY <1>5 DEF BlockOf, Width, Vector, Avx2Block
  <2> QED BY <2>1, <1>2
<1>6. CASE k = "GfniAvx512"
  <2>1. BlockOf(k, o) = GfniAvx512Block(o) /\ Width[k] = 128
    BY <1>6 DEF BlockOf, Width, Vector
  <2> QED BY <2>1, Avx512InPlace
<1> QED BY <1>3, <1>4, <1>5, <1>6 DEF Vector

-----------------------------------------------------------------------------
(* The loops                                                               *)

\* What the loops keep: how far they are, and that what they have passed has
\* its products and what is left has nothing.
PassInv ==
  /\ length \in Nat /\ length % 2 = 0
  /\ off \in Nat /\ off <= length /\ off % 2 = 0
  /\ out = [j \in 0 .. length - 1 |-> IF j >= off THEN <<>> ELSE <<Term(j)>>]
  /\ kernel = "returned" => off = length

\* The processor has what the running kernel needs, and the AVX2 and GFNI
\* kernels can leave their tails to those that need SSSE3.
FeatureInv ==
  /\ cpu \in CPUs
  /\ kernel \in Kernels \cup {"none", "returned"}
  /\ kernel \in Kernels => Requires[kernel] \subseteq cpu

KernelInv == PassInv /\ FeatureInv

\* The widths are even.
LEMMA WidthIs == \A k \in Vector : Width[k] \in Nat /\ Width[k] >= 32 /\ Width[k] % 2 = 0
<1> SUFFICES ASSUME NEW k \in Vector PROVE Width[k] \in Nat /\ Width[k] >= 32 /\ Width[k] % 2 = 0
  OBVIOUS
<1>1. Width[k] = 32 \/ Width[k] = 64 \/ Width[k] = 128
  BY DEF Vector, Width
<1> QED BY <1>1

\* A block adds its terms to bytes that had none, and to no other.
LEMMA BlockPasses ==
  ASSUME PassInv, Block
  PROVE  PassInv'
<1>1. PICK k, o, w : k = kernel /\ o = off /\ w = Width[kernel]
  OBVIOUS
<1>2. /\ k \in Vector /\ o \in Nat /\ o % 2 = 0 /\ o + w <= length
      /\ length' = length /\ kernel' = k /\ off' = o + w /\ length \in Nat
  BY <1>1 DEF Block, PassInv
<1>3. w \in Nat /\ w % 2 = 0 /\ w >= 32
  BY <1>1, <1>2, WidthIs
<1>4. PICK v : v = BlockOf(k, o)
  OBVIOUS
<1>5. DOMAIN v = 0 .. w - 1 /\ \A i \in 0 .. w - 1 : v[i] = Term(o + i)
  BY <1>1, <1>2, <1>4, BlockInPlace DEF InPlace
<1>6. out = [j \in 0 .. length - 1 |-> IF j >= o THEN <<>> ELSE <<Term(j)>>]
  BY <1>1 DEF PassInv
<1>7. out' = [j \in DOMAIN out \cup {o + i : i \in DOMAIN v} |->
                IF j - o \in DOMAIN v THEN Append(out[j], v[j - o]) ELSE out[j]]
  BY <1>1, <1>4 DEF Block, XorAt
<1>8. DOMAIN out \cup {o + i : i \in DOMAIN v} = 0 .. length - 1
  <2>1. DOMAIN out = 0 .. length - 1 /\ DOMAIN v = 0 .. w - 1
    BY <1>5, <1>6
  <2>2. \A i \in 0 .. w - 1 : o + i \in 0 .. length - 1
    BY <1>2, <1>3
  <2> QED BY <2>1, <2>2
<1>9. ASSUME NEW j \in 0 .. length - 1
      PROVE  out'[j] = IF j >= o + w THEN <<>> ELSE <<Term(j)>>
  <2>1. out'[j] = IF j - o \in DOMAIN v THEN Append(out[j], v[j - o]) ELSE out[j]
    BY <1>7, <1>8
  <2>2. CASE j - o \in 0 .. w - 1
    <3>1. j >= o /\ ~(j >= o + w) /\ o + (j - o) = j
      BY <2>2, <1>2, <1>3
    <3>2. out[j] = <<>> /\ v[j - o] = Term(j)
      <4>1. PICK i \in 0 .. w - 1 : i = j - o /\ o + i = j
        BY <2>2, <3>1
      <4> QED BY <4>1, <3>1, <1>5, <1>6
    <3>3. Append(<<>>, Term(j)) = <<Term(j)>>
      OBVIOUS
    <3> QED BY <2>1, <2>2, <3>1, <3>2, <3>3, <1>5
  <2>3. CASE j - o \notin 0 .. w - 1
    <3>1. (j >= o <=> j >= o + w)
      BY <2>3, <1>2, <1>3
    <3> QED BY <2>1, <2>3, <3>1, <1>5, <1>6
  <2> QED BY <2>2, <2>3
<1>10. out' = [j \in 0 .. length - 1 |-> IF j >= o + w THEN <<>> ELSE <<Term(j)>>]
  <2>1. out' = [j \in 0 .. length - 1 |-> out'[j]]
    BY <1>7, <1>8
  <2> QED BY <2>1, <1>9
<1>11. o + w \in Nat /\ (o + w) % 2 = 0
  BY <1>2, <1>3
<1>12. k # "returned"
  BY <1>2 DEF Vector
<1> QED BY <1>2, <1>10, <1>11, <1>12 DEF PassInv

\* A symbol of the scalar tail does the same for its two bytes.
LEMMA SymbolPasses ==
  ASSUME PassInv, ScalarSymbol
  PROVE  PassInv'
<1>1. PICK o : o = off
  OBVIOUS
<1>2. /\ o \in Nat /\ o % 2 = 0 /\ o + 2 <= length /\ length \in Nat
      /\ length' = length /\ kernel' = kernel /\ kernel = "TableScalar" /\ off' = o + 2
  BY <1>1 DEF ScalarSymbol, PassInv
<1>3. out = [j \in 0 .. length - 1 |-> IF j >= o THEN <<>> ELSE <<Term(j)>>]
  BY <1>1 DEF PassInv
<1>4. /\ Term(o) = <<"lo", o, o + 1>> /\ Term(o + 1) = <<"hi", o, o + 1>>
  BY <1>2, TermOf DEF Term
<1>5. out' = [out EXCEPT ![o] = Append(@, Term(o)), ![o + 1] = Append(@, Term(o + 1))]
  BY <1>1, <1>4 DEF ScalarSymbol
<1>6. o \in 0 .. length - 1 /\ o + 1 \in 0 .. length - 1 /\ o # o + 1
  BY <1>2
<1>7. out[o] = <<>> /\ out[o + 1] = <<>>
  BY <1>2, <1>3, <1>6
<1>8. \A x : Append(<<>>, x) = <<x>>
  OBVIOUS
<1>9. /\ DOMAIN out' = 0 .. length - 1
      /\ out'[o] = <<Term(o)>> /\ out'[o + 1] = <<Term(o + 1)>>
      /\ \A j \in 0 .. length - 1 : j # o /\ j # o + 1 => out'[j] = out[j]
      /\ out' = [j \in 0 .. length - 1 |-> out'[j]]
  BY <1>3, <1>5, <1>6, <1>7, <1>8
<1>10. ASSUME NEW j \in 0 .. length - 1
       PROVE  out'[j] = IF j >= o + 2 THEN <<>> ELSE <<Term(j)>>
  <2>1. CASE j = o \/ j = o + 1
    BY <2>1, <1>2, <1>9
  <2>2. CASE ~(j = o \/ j = o + 1)
    <3>1. j >= o <=> j >= o + 2
      BY <2>2, <1>2
    <3> QED BY <2>2, <3>1, <1>3, <1>9
  <2> QED BY <2>1, <2>2
<1>11. out' = [j \in 0 .. length - 1 |-> IF j >= o + 2 THEN <<>> ELSE <<Term(j)>>]
  BY <1>9, <1>10
<1>12. o + 2 \in Nat /\ (o + 2) % 2 = 0 /\ kernel' # "returned"
  BY <1>2
<1> QED BY <1>2, <1>11, <1>12 DEF PassInv

\* Every step keeps how far the loops are.
LEMMA PassStep ==
  ASSUME PassInv, [Next]_vars
  PROVE  PassInv'
<1>1. CASE DetectDispatch
  <2>1. Pick # "returned"
    BY DEF Pick
  <2> QED BY <1>1, <2>1 DEF DetectDispatch, PassInv
<1>2. CASE Block
  BY <1>2, BlockPasses
<1>3. CASE LeaveTail
  <2>1. /\ UNCHANGED <<length, off, out>>
        /\ kernel' = "returned" => off' = length'
    <3>1. ~(off < length) => off = length
      BY DEF PassInv
    <3>2. off < length => kernel' # "returned"
      BY <1>3 DEF LeaveTail, Narrower, Vector
    <3> QED BY <1>3, <3>1, <3>2 DEF LeaveTail
  <2> QED BY <2>1 DEF PassInv
<1>4. CASE ScalarSymbol
  BY <1>4, SymbolPasses
<1>5. CASE ScalarDone
  <2>1. off = length
    BY <1>5 DEF ScalarDone, PassInv
  <2> QED BY <1>5, <2>1 DEF ScalarDone, PassInv
<1>6. CASE UNCHANGED vars
  BY <1>6 DEF vars, PassInv
<1> QED BY <1>1, <1>2, <1>3, <1>4, <1>5, <1>6 DEF Next

\* What detect_dispatch picks, the processor has.
LEMMA PickIsThere == Pick \in Kernels /\ Requires[Pick] \subseteq cpu
<1> DEFINE gates == /\ Requires["Neon"] = {"neon"} /\ Requires["Ssse3"] = {"ssse3"}
                    /\ Requires["Avx2"] = {"avx2"} /\ Requires["Gfni"] = {"gfni", "ssse3"}
                    /\ Requires["GfniAvx512"] = {"gfni", "avx512f", "avx512bw"}
                    /\ Requires["TableScalar"] = {}
<1>1. gates
  BY DEF Requires, Kernels, Vector
<1>2. Pick \in Kernels
  BY DEF Pick, Kernels, Vector
<1>3. Requires[Pick] \subseteq cpu
  BY <1>1 DEF Pick
<1> QED BY <1>2, <1>3

\* And what a kernel leaves its tail to.
LEMMA NarrowerIsThere ==
  ASSUME cpu \in CPUs, NEW k \in Vector, Requires[k] \subseteq cpu
  PROVE  Narrower[k] \in Kernels /\ Requires[Narrower[k]] \subseteq cpu
<1>1. /\ Requires["Ssse3"] = {"ssse3"} /\ Requires["Avx2"] = {"avx2"}
      /\ Requires["Gfni"] = {"gfni", "ssse3"} /\ Requires["TableScalar"] = {}
      /\ Requires["GfniAvx512"] = {"gfni", "avx512f", "avx512bw"}
  BY DEF Requires, Kernels, Vector
<1>2. "avx2" \in cpu \/ "gfni" \in cpu => "ssse3" \in cpu
  BY KernelAssumption
<1>3. CASE k = "Avx2"
  <2>1. Narrower[k] = "Ssse3"
    BY <1>3 DEF Narrower
  <2> QED BY <1>1, <1>2, <1>3, <2>1 DEF Kernels, Vector
<1>4. CASE k = "GfniAvx512"
  <2>1. Narrower[k] = "Gfni"
    BY <1>4 DEF Narrower
  <2> QED BY <1>1, <1>2, <1>4, <2>1 DEF Kernels, Vector
<1>5. CASE k # "Avx2" /\ k # "GfniAvx512"
  <2>1. Narrower[k] = "TableScalar"
    BY <1>5 DEF Narrower
  <2> QED BY <1>1, <2>1 DEF Kernels
<1> QED BY <1>3, <1>4, <1>5

\* Every step keeps to what the processor has.
LEMMA FeatureStep ==
  ASSUME FeatureInv, [Next]_vars
  PROVE  FeatureInv'
<1>1. CASE DetectDispatch
  <2>1. cpu' = cpu /\ kernel' = Pick
    BY <1>1 DEF DetectDispatch
  <2> QED BY <2>1, PickIsThere DEF FeatureInv
<1>2. CASE Block \/ ScalarSymbol \/ UNCHANGED vars
  BY <1>2 DEF Block, ScalarSymbol, vars, FeatureInv
<1>3. CASE LeaveTail
  <2>1. /\ cpu' = cpu /\ kernel \in Vector
        /\ kernel' = IF off < length THEN Narrower[kernel] ELSE "returned"
    BY <1>3 DEF LeaveTail
  <2>2. Narrower[kernel] \in Kernels /\ Requires[Narrower[kernel]] \subseteq cpu
    BY <2>1, NarrowerIsThere DEF FeatureInv, Kernels
  <2>3. "returned" \notin Kernels
    BY DEF Kernels, Vector
  <2> QED BY <2>1, <2>2, <2>3 DEF FeatureInv
<1>4. CASE ScalarDone
  <2>1. "returned" \notin Kernels
    BY DEF Kernels, Vector
  <2> QED BY <1>4, <2>1 DEF ScalarDone, FeatureInv
<1> QED BY <1>1, <1>2, <1>3, <1>4 DEF Next

\* The invariant of the kernels.
LEMMA KernelInvariant == Spec => []KernelInv
<1>1. Init => KernelInv
  <2> SUFFICES ASSUME Init PROVE PassInv /\ FeatureInv
    BY DEF KernelInv
  <2>1. length \in Nat /\ length % 2 = 0 /\ cpu \in CPUs
    BY KernelAssumption DEF Init
  <2>2. out = [j \in 0 .. length - 1 |-> IF j >= 0 THEN <<>> ELSE <<Term(j)>>]
    BY <2>1 DEF Init
  <2>3. "none" \notin Kernels
    BY DEF Kernels, Vector
  <2> QED BY <2>1, <2>2, <2>3 DEF Init, PassInv, FeatureInv
<1>2. KernelInv /\ [Next]_vars => KernelInv'
  BY PassStep, FeatureStep DEF KernelInv
<1> QED BY <1>1, <1>2, PTL DEF Spec

\* For buffers of any length and any processor: no load or store is past the
\* end, and no kernel runs, first or as a tail, that the processor lacks the
\* instructions of.
THEOREM KernelsAreDefined == Spec => []Defined
<1>1. KernelInv => Defined
  BY DEF KernelInv, PassInv, FeatureInv, Defined
<1> QED BY <1>1, KernelInvariant, PTL

\* And, whatever kernel and tails it takes, every byte has its own half of the
\* product of its own symbol added to it, exactly once.
THEOREM KernelsAreScalar == Spec => []SameAsScalar
<1>1. KernelInv => SameAsScalar
  <2> SUFFICES ASSUME PassInv PROVE SameAsScalar
    BY DEF KernelInv
  <2> QED BY DEF PassInv, SameAsScalar, Term
<1> QED BY <1>1, KernelInvariant, PTL

=============================================================================
