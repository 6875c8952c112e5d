----------------------------- MODULE GaloisField -----------------------------
(***************************************************************************)
(* The log and antilog tables of galois.rs and the arithmetic on them.     *)
(* The code has FIELD_BITS = 16 and FIELD_GENERATOR = 0x1100B; nothing in  *)
(* it depends on that but the width of the table entries.                  *)
(*                                                                         *)
(* A field element, like any other word of bits, is the set of the places  *)
(* of its 1 bits: {} is 0, {0} is 1, {1} is 2.  Logarithms and exponents   *)
(* are numbers.                                                            *)
(***************************************************************************)
EXTENDS Integers

CONSTANTS
  FIELD_BITS,
  FIELD_GENERATOR \* the polynomial, a word of FIELD_BITS + 1 bits

FIELD_COUNT == 2 ^ FIELD_BITS
FIELD_LIMIT == FIELD_COUNT - 1

Elements == SUBSET (0 .. FIELD_BITS - 1)

Xor(x, y) == (x \ y) \cup (y \ x)

\* x << n
Up(x, n) == {i + n : i \in x}

Double(x) ==
  IF FIELD_BITS \in Up(x, 1) THEN Xor(Up(x, 1), FIELD_GENERATOR) ELSE Up(x, 1)

\* The product of two polynomials modulo FIELD_GENERATOR by Horner's rule, from
\* the highest bit of y down: what the tables are to give.
PolyMul(x, y) ==
  LET sum[n \in 0 .. FIELD_BITS] ==
        IF n = 0 THEN {}
        ELSE IF FIELD_BITS - n \in y THEN Xor(Double(sum[n - 1]), x) ELSE Double(sum[n - 1])
  IN  sum[FIELD_BITS]

\* The powers of 2, by squaring.
Power[n \in Nat] ==
  IF n = 0 THEN {0}
  ELSE LET half   == Power[n \div 2]
           square == PolyMul(half, half)
       IN  IF n % 2 = 0 THEN square ELSE Double(square)

\* "PAR2 uses the primitive polynomial" (galois.rs:3): its degree is FIELD_BITS,
\* and the order of 2, a divisor of the number of elements but 0, is no less.
Primitive ==
  /\ FIELD_GENERATOR \subseteq 0 .. FIELD_BITS /\ FIELD_BITS \in FIELD_GENERATOR
  /\ Power[FIELD_LIMIT] = {0}
  /\ \A n \in 1 .. FIELD_LIMIT - 1 : FIELD_LIMIT % n = 0 => Power[n] # {0}

ASSUME FieldAssumption == FIELD_BITS \in Nat \ {0} /\ Primitive

VARIABLES
  log, antilog,
  l, b \* of the loop: b is the power l of 2, l = FIELD_COUNT once it is over

tables == <<log, antilog, l, b>>

TablesInit ==
  /\ log = [x \in Elements |-> 0] /\ antilog = [n \in 0 .. FIELD_LIMIT |-> {}]
  /\ l = 0 /\ b = {0}

FillEntry ==
  /\ l < FIELD_LIMIT
  /\ log' = [log EXCEPT ![b] = l]
  /\ antilog' = [antilog EXCEPT ![l] = b]
  /\ b' = Double(b)
  /\ l' = l + 1

Sentinels ==
  /\ l = FIELD_LIMIT
  /\ log' = [log EXCEPT ![{}] = FIELD_LIMIT]
  /\ antilog' = [antilog EXCEPT ![FIELD_LIMIT] = {}]
  /\ l' = l + 1
  /\ UNCHANGED b

Built == l = FIELD_COUNT

BuildTables == FillEntry \/ Sentinels

-----------------------------------------------------------------------------
(* gf_mul, gf_pow and gf_inv, for tables that are built.                   *)

\* Mutant: the sum FIELD_LIMIT is not reduced and meets the sentinel.
MutGfMul(x, y) ==
  IF x = {} \/ y = {} THEN {}
  ELSE LET sum == log[x] + log[y]
       IN  antilog[IF sum > FIELD_LIMIT THEN sum - FIELD_LIMIT ELSE sum]

gf_mul(x, y) ==
  IF x = {} \/ y = {} THEN {}
  ELSE LET sum == log[x] + log[y]
       IN  antilog[IF sum >= FIELD_LIMIT THEN sum - FIELD_LIMIT ELSE sum]

gf_pow(base, exp) ==
  IF exp = 0 THEN {0}
  ELSE IF base = {} THEN {}
  ELSE antilog[(log[base] * exp) % FIELD_LIMIT]

gf_inv(x) == antilog[(FIELD_LIMIT - log[x]) % FIELD_LIMIT]

-----------------------------------------------------------------------------
(* Properties                                                              *)

\* The step that completes the tables, which nothing changes afterwards.
Completed == Built' /\ ~Built

\* The product by logarithms is that of the field, the sentinels included,
\* gf_inv is its inverse, and the power is the repeated product, for exponents
\* past the order as well.
ArithmeticIsExact ==
  [][Completed =>
      /\ \A x, y \in Elements : gf_mul(x, y)' = PolyMul(x, y)
      /\ \A x \in Elements \ {{}} : PolyMul(x, gf_inv(x)') = {0}
      /\ \A x \in Elements, e \in 0 .. 2 * FIELD_COUNT :
           /\ gf_pow(x, 0)' = {0}
           /\ gf_pow(x, e + 1)' = PolyMul(x, gf_pow(x, e)')]_tables
=============================================================================
