----------------------------- MODULE SimdKernels -----------------------------
(***************************************************************************)
(* The vector kernels of output ^= coeff * input (galois_simd.rs and       *)
(* gfni.rs): which one detect_dispatch picks, how each cuts the buffer     *)
(* into blocks and leaves the rest to a narrower kernel, and where its     *)
(* shuffles take every byte.                                               *)
(*                                                                         *)
(* Registers have their real width and the shuffles their real indices.    *)
(* A byte of the input is its position; a product byte is a term           *)
(* <<half, low, high>>, the low or high half of the product of the symbol  *)
(* whose bytes stood at low and high.  What the tables make of a symbol is *)
(* the subject of CoeffTables.                                             *)
(***************************************************************************)
EXTENDS Integers, Sequences

CONSTANTS
  Lengths,  \* of the buffers, in bytes
  CPUs      \* sets of features that a processor has; {"neon"} for aarch64

\* gf_mul_xor_dispatch is called with whole symbols.  "AVX2 implies SSSE3 on
\* every shipping part" (galois_simd.rs:625), and so does GFNI (gfni.rs:396).
ASSUME KernelAssumption ==
  /\ \A n \in Lengths : n \in Nat /\ n % 2 = 0
  /\ \A f \in CPUs : "avx2" \in f \/ "gfni" \in f => "ssse3" \in f

LANE == 16

VARIABLES
  cpu,
  length,
  dispatch,  \* what detect_dispatch has returned, "none" before
  kernel,    \* whose loop is running, "none" before and "returned" after
  off,       \* bytes consumed
  out        \* the terms XORed into each byte of the output

vars == <<cpu, length, dispatch, kernel, off, out>>

-----------------------------------------------------------------------------
(* The intrinsics, on registers indexed from 0.                            *)

ZERO == -1

Load(o, w) == [i \in 0 .. w - 1 |-> o + i]

\* Each works within lanes of 16 bytes.
ShuffleEpi8(v, idx) ==
  [i \in DOMAIN v |->
     LET j == idx[(i % LANE) + 1] IN IF j < 0 THEN ZERO ELSE v[i - (i % LANE) + j]]

UnpackLoEpi64(a, b) ==
  [i \in DOMAIN a |-> IF i % LANE < 8 THEN a[i] ELSE b[i - 8]]

UnpackLoEpi8(a, b) ==
  [i \in DOMAIN a |->
     LET j == i - (i % LANE) + (i % LANE) \div 2 IN IF i % 2 = 0 THEN a[j] ELSE b[j]]

UnpackHiEpi8(a, b) ==
  [i \in DOMAIN a |->
     LET j == i - (i % LANE) + 8 + (i % LANE) \div 2 IN IF i % 2 = 0 THEN a[j] ELSE b[j]]

\* Works across the lanes, on groups of 8 bytes.
Permutex2varEpi64(a, idx, b) ==
  [i \in DOMAIN a |->
     LET q == idx[i \div 8 + 1]
     IN  IF q < 8 THEN a[8 * q + (i % 8)] ELSE b[8 * (q - 8) + (i % 8)]]

\* Table lookups and affine products work byte by byte.
Product(half, low, high) == [i \in DOMAIN low |-> <<half, low[i], high[i]>>]

\* The registers one after the other in memory.
Concat(a, b, w) == [i \in 0 .. 2 * w - 1 |-> IF i < w THEN a[i] ELSE b[i - w]]

-----------------------------------------------------------------------------
(* One block of each kernel, from the bytes at o on.                       *)

NeonBlock(o) ==
  LET low  == [i \in 0 .. 15 |-> o + 2 * i]       \* vld2q_u8
      high == [i \in 0 .. 15 |-> o + 2 * i + 1]
  IN  [i \in 0 .. 31 |->                          \* vst2q_u8
         Product(IF i % 2 = 0 THEN "lo" ELSE "hi", low, high)[i \div 2]]

LoIdx == <<0, 2, 4, 6, 8, 10, 12, 14, -1, -1, -1, -1, -1, -1, -1, -1>>
HiIdx == <<1, 3, 5, 7, 9, 11, 13, 15, -1, -1, -1, -1, -1, -1, -1, -1>>

\* With registers of w bytes: in each lane the even bytes of both registers,
\* then the odd ones; the products are woven back lane by lane.
ShuffledBlock(o, w) ==
  LET v0   == Load(o, w)
      v1   == Load(o + w, w)
      low  == UnpackLoEpi64(ShuffleEpi8(v0, LoIdx), ShuffleEpi8(v1, LoIdx))
      high == UnpackLoEpi64(ShuffleEpi8(v0, HiIdx), ShuffleEpi8(v1, HiIdx))
      lo   == Product("lo", low, high)
      hi   == Product("hi", low, high)
  IN  Concat(UnpackLoEpi8(lo, hi), UnpackHiEpi8(lo, hi), w)

Ssse3Block(o) == ShuffledBlock(o, 16)

\* Mutant: the even bytes of the second register come first.
MutAvx2Block(o) ==
  LET v0   == Load(o, 32)
      v1   == Load(o + 32, 32)
      low  == UnpackLoEpi64(ShuffleEpi8(v1, LoIdx), ShuffleEpi8(v0, LoIdx))
      high == UnpackLoEpi64(ShuffleEpi8(v0, HiIdx), ShuffleEpi8(v1, HiIdx))
      lo   == Product("lo", low, high)
      hi   == Product("hi", low, high)
  IN  Concat(UnpackLoEpi8(lo, hi), UnpackHiEpi8(lo, hi), 32)

Avx2Block(o) == ShuffledBlock(o, 32)

GfniBlock(o) == ShuffledBlock(o, 16)

DeintIdx == <<0, 2, 4, 6, 8, 10, 12, 14, 1, 3, 5, 7, 9, 11, 13, 15>>
InterIdx == <<0, 8, 1, 9, 2, 10, 3, 11, 4, 12, 5, 13, 6, 14, 7, 15>>
PermLo == <<0, 2, 4, 6, 8, 10, 12, 14>>
PermHi == <<1, 3, 5, 7, 9, 11, 13, 15>>
PermInter0 == <<0, 8, 1, 9, 2, 10, 3, 11>>
PermInter1 == <<4, 12, 5, 13, 6, 14, 7, 15>>

GfniAvx512Block(o) ==
  LET d0   == ShuffleEpi8(Load(o, 64), DeintIdx)
      d1   == ShuffleEpi8(Load(o + 64, 64), DeintIdx)
      low  == Permutex2varEpi64(d0, PermLo, d1)
      high == Permutex2varEpi64(d0, PermHi, d1)
      lo   == Product("lo", low, high)
      hi   == Product("hi", low, high)
  IN  Concat(ShuffleEpi8(Permutex2varEpi64(lo, PermInter0, hi), InterIdx),
             ShuffleEpi8(Permutex2varEpi64(lo, PermInter1, hi), InterIdx), 64)

BlockOf(k, o) ==
  CASE k = "Neon"       -> NeonBlock(o)
    [] k = "Ssse3"      -> Ssse3Block(o)
    [] k = "Avx2"       -> Avx2Block(o)
    [] k = "Gfni"       -> GfniBlock(o)
    [] k = "GfniAvx512" -> GfniAvx512Block(o)

-----------------------------------------------------------------------------
(* Dispatch and the loops.                                                 *)

Vector == {"Neon", "Ssse3", "Avx2", "Gfni", "GfniAvx512"}
Kernels == Vector \cup {"TableScalar"}

Width == [k \in Vector |-> CASE k = "Avx2" -> 64 [] k = "GfniAvx512" -> 128 [] OTHER -> 32]

\* #[target_feature(enable = ...)]
Requires ==
  [k \in Kernels |->
     CASE k = "Neon"       -> {"neon"}
       [] k = "Ssse3"      -> {"ssse3"}
       [] k = "Avx2"       -> {"avx2"}
       [] k = "Gfni"       -> {"gfni", "ssse3"}
       [] k = "GfniAvx512" -> {"gfni", "avx512f", "avx512bw"}
       [] OTHER            -> {}]

\* What takes the bytes that do not fill a block.
Narrower ==
  [k \in Vector |->
     CASE k = "Avx2" -> "Ssse3" [] k = "GfniAvx512" -> "Gfni" [] OTHER -> "TableScalar"]

Pick ==
  IF "neon" \in cpu THEN "Neon"
  ELSE IF {"gfni", "avx512f", "avx512bw"} \subseteq cpu THEN "GfniAvx512"
  ELSE IF {"gfni", "ssse3"} \subseteq cpu THEN "Gfni"
  ELSE IF "avx2" \in cpu THEN "Avx2"
  ELSE IF "ssse3" \in cpu THEN "Ssse3"
  ELSE "TableScalar"

Init ==
  /\ cpu \in CPUs /\ length \in Lengths
  /\ dispatch = "none" /\ kernel = "none"
  /\ off = 0
  /\ out = [j \in 0 .. length - 1 |-> <<>>]

DetectDispatch ==
  /\ dispatch = "none"
  /\ dispatch' = Pick
  /\ kernel' = dispatch'
  /\ UNCHANGED <<cpu, length, off, out>>

\* XOR a register into the output at o.
XorAt(o, v) ==
  [j \in DOMAIN out \cup {o + i : i \in DOMAIN v} |->
     IF j - o \in DOMAIN v THEN Append(out[j], v[j - o]) ELSE out[j]]

\* Mutant: the last block need not be whole.
MutBlock ==
  /\ kernel \in Vector /\ off < length
  /\ off' = off + Width[kernel]
  /\ out' = [j \in DOMAIN out \cup off .. off' - 1 |->
               IF j < off THEN out[j]
               ELSE IF j < off' THEN <<BlockOf(kernel, off)[j - off]>> ELSE <<>>]
  /\ UNCHANGED <<cpu, length, dispatch, kernel>>

Block ==
  /\ kernel \in Vector /\ off + Width[kernel] <= length
  /\ out' = XorAt(off, BlockOf(kernel, off))
  /\ off' = off + Width[kernel]
  /\ UNCHANGED <<cpu, length, dispatch, kernel>>

LeaveTail ==
  /\ kernel \in Vector /\ off + Width[kernel] > length
  /\ kernel' = IF off < length THEN Narrower[kernel] ELSE "returned"
  /\ UNCHANGED <<cpu, length, dispatch, off, out>>

\* The byte tables, or the tables of the kernel whose tail this is.
ScalarSymbol ==
  /\ kernel = "TableScalar" /\ off + 2 <= length
  /\ out' = [out EXCEPT ![off] = Append(@, <<"lo", off, off + 1>>),
                        ![off + 1] = Append(@, <<"hi", off, off + 1>>)]
  /\ off' = off + 2
  /\ UNCHANGED <<cpu, length, dispatch, kernel>>

ScalarDone ==
  /\ kernel = "TableScalar" /\ off + 2 > length
  /\ kernel' = "returned"
  /\ UNCHANGED <<cpu, length, dispatch, off, out>>

Next == DetectDispatch \/ Block \/ LeaveTail \/ ScalarSymbol \/ ScalarDone

Spec == Init /\ [][Next]_vars

-----------------------------------------------------------------------------
(* Properties                                                              *)

\* Nothing the kernels do is undefined: no block reaches past the end of the
\* buffers, whose loads and stores are unchecked, and a kernel, called by
\* dispatch or for a tail, only uses instructions that the processor has.
Defined ==
  /\ kernel \in Kernels \cup {"none", "returned"}
  /\ off \in 0 .. length /\ DOMAIN out = 0 .. length - 1
  /\ kernel \in Kernels => Requires[kernel] \subseteq cpu

\* Whatever the kernel, the length and the tails: each byte consumed has had
\* its half of the product of its own symbol XORed in, once, and the others
\* nothing.  "All producing bit-identical results" (galois_simd.rs:11), as
\* far as the shuffles go.
SameAsScalar ==
  /\ \A j \in DOMAIN out :
       out[j] = IF j >= off THEN <<>>
                ELSE << IF j % 2 = 0 THEN <<"lo", j, j + 1>> ELSE <<"hi", j - 1, j>> >>
  /\ kernel = "returned" => off = length

=============================================================================
