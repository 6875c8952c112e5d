----------------------------- MODULE CoeffTables -----------------------------
(***************************************************************************)
(* CoeffSimdTables of galois_simd.rs and GfniTables of gfni.rs: what each  *)
(* path builds for a coefficient of RsEncoder, and what it makes of a      *)
(* symbol.  The proportions are those of the code: a symbol is two bytes,  *)
(* a byte two nibbles, an affine matrix a byte of bytes.                   *)
(***************************************************************************)
EXTENDS ReedSolomon

ASSUME CoeffAssumption == FIELD_BITS % 4 = 0

BYTE == FIELD_BITS \div 2
NIBBLE == FIELD_BITS \div 4

Byte == SUBSET (0 .. BYTE - 1)
Nibble == SUBSET (0 .. NIBBLE - 1)

VARIABLES
  coeff,
  simd \* CoeffSimdTables

coeffVars == <<rsVars, coeff, simd>>

\* x as u8, x >> 8
LowByte(x) == x \cap 0 .. BYTE - 1
HighByte(x) == {i - BYTE : i \in x \ (0 .. BYTE - 1)}

-----------------------------------------------------------------------------
(* Building the tables.                                                    *)

ByteTables(c) ==
  [lo |-> [s \in Byte |-> gf_mul(c, s)],
   hi |-> [s \in Byte |-> gf_mul(c, Up(s, BYTE))]]

\* NeonTables and X86Tables, from the byte tables.
NibbleTables(t) ==
  [lo_lo     |-> [n \in Nibble |-> LowByte(t.lo[n])],
   lo_hi     |-> [n \in Nibble |-> HighByte(t.lo[n])],
   lo_lo_n16 |-> [n \in Nibble |-> LowByte(t.lo[Up(n, NIBBLE)])],
   lo_hi_n16 |-> [n \in Nibble |-> HighByte(t.lo[Up(n, NIBBLE)])],
   hi_lo     |-> [n \in Nibble |-> LowByte(t.hi[n])],
   hi_hi     |-> [n \in Nibble |-> HighByte(t.hi[n])],
   hi_lo_n16 |-> [n \in Nibble |-> LowByte(t.hi[Up(n, NIBBLE)])],
   hi_hi_n16 |-> [n \in Nibble |-> HighByte(t.hi[Up(n, NIBBLE)])]]

\* pack_block: row i in byte BYTE - 1 - i, entry k of a row in its bit k.
PackBlock(c, out_bit_base, in_bit_base) ==
  LET row(i) == {k \in 0 .. BYTE - 1 : out_bit_base + i \in gf_mul(c, {in_bit_base + k})}
  IN  UNION {Up(row(i), (BYTE - 1 - i) * BYTE) : i \in 0 .. BYTE - 1}

GfniTables(c) ==
  [mat_ll |-> PackBlock(c, 0, 0),    mat_lh |-> PackBlock(c, 0, BYTE),
   mat_hl |-> PackBlock(c, BYTE, 0), mat_hh |-> PackBlock(c, BYTE, BYTE)]

NoTables == [path |-> "none"]

\* The vector paths are Neon, Ssse3 and Avx2 (nibbles), Gfni and GfniAvx512
\* (affine).
TablesFor(path, c) ==
  IF c \in {{}, {0}} THEN [path |-> "trivial"]
  ELSE CASE path = "scalar" -> [path |-> path]
         [] path = "bytes"  -> [path |-> path, t |-> ByteTables(c)]
         [] path = "nibbles" -> [path |-> path, t |-> NibbleTables(ByteTables(c))]
         [] path = "affine" -> [path |-> path, t |-> GfniTables(c)]

-----------------------------------------------------------------------------
(* Using them.                                                             *)

ByteProduct(t, s) == Xor(t.lo[LowByte(s)], t.hi[HighByte(s)])

LowNibble(x) == x \cap 0 .. NIBBLE - 1

\* _mm_srli_epi16 shifts two bytes as one, so bits of the next byte of the
\* register come in from above; the mask takes them away.
HighNibble(x, next) == LowNibble(Up(x \cup Up(next, BYTE), -NIBBLE))

NibbleProduct(t, s, next) ==
  LET low_lo  == LowNibble(LowByte(s))
      low_hi  == HighNibble(LowByte(s), next)
      high_lo == LowNibble(HighByte(s))
      high_hi == HighNibble(HighByte(s), next)
      lo == Xor(Xor(t.lo_lo[low_lo], t.lo_lo_n16[low_hi]),
                Xor(t.hi_lo[high_lo], t.hi_lo_n16[high_hi]))
      hi == Xor(Xor(t.lo_hi[low_lo], t.lo_hi_n16[low_hi]),
                Xor(t.hi_hi[high_lo], t.hi_hi_n16[high_hi]))
  IN  lo \cup Up(hi, BYTE)

\* Mutant: the rows are read from the other end.
MutAffineApply(mat, x) ==
  LET row(i) == {k \in 0 .. BYTE - 1 : i * BYTE + k \in mat}
  IN  {i \in 0 .. BYTE - 1 : Cardinality(row(i) \cap x) % 2 = 1}

\* GF2P8AFFINEQB, and affine_apply that emulates it.
AffineApply(mat, x) ==
  LET row(i) == {k \in 0 .. BYTE - 1 : (BYTE - 1 - i) * BYTE + k \in mat}
  IN  {i \in 0 .. BYTE - 1 : Cardinality(row(i) \cap x) % 2 = 1}

AffineProduct(t, s) ==
  Xor(AffineApply(t.mat_ll, LowByte(s)), AffineApply(t.mat_lh, HighByte(s)))
  \cup Up(Xor(AffineApply(t.mat_hl, LowByte(s)), AffineApply(t.mat_hh, HighByte(s))), BYTE)

\* gf_mul_xor_with_tables on one symbol, next to a byte that is next.
Apply(s, next) ==
  CASE simd.path = "trivial" -> IF coeff = {} THEN {} ELSE s
    [] simd.path = "scalar"  -> gf_mul(coeff, s)
    [] simd.path = "bytes"   -> ByteProduct(simd.t, s)
    [] simd.path = "nibbles" -> NibbleProduct(simd.t, s, next)
    [] simd.path = "affine"  -> AffineProduct(simd.t, s)

-----------------------------------------------------------------------------
Paths == {"scalar", "bytes", "nibbles", "affine"}

CoeffInit ==
  /\ RsInit
  /\ coeff = {} /\ simd = NoTables

BuildEncoder == RsNext /\ UNCHANGED <<coeff, simd>>

\* An encode loop asks for the coefficients of the recovery blocks and slices;
\* 0, which is none of them, is what a caller of gf_mul_xor_dispatch may have.
Wanted ==
  {{}} \cup {coefficient(r, i) : r \in 1 .. recovery_count, i \in 1 .. input_count}

\* CoeffSimdTables::new
New(path) ==
  /\ pc = "ready"
  /\ pc' = "multiply"
  /\ coeff' \in Wanted
  /\ simd' = TablesFor(path, coeff')
  /\ UNCHANGED <<tables, request, input_bases, logbase, recovery_exponents>>

CoeffNext == BuildEncoder \/ \E path \in Paths : New(path)

CoeffSpec == CoeffInit /\ [][CoeffNext]_coeffVars

-----------------------------------------------------------------------------
(* Properties                                                              *)

\* "All producing bit-identical results" (galois_simd.rs:11): whatever tables
\* stand for the coefficient and whatever stands next to the symbol, the
\* product is that of the field.
PathsAgree ==
  simd # NoTables =>
    \A s \in Elements, next \in {{}, 0 .. BYTE - 1} : Apply(s, next) = PolyMul(coeff, s)

=============================================================================
