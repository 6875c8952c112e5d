--------------------------- MODULE MCGaloisKernels ---------------------------
(* The arithmetic and the vector code: the field, an encoder and the       *)
(* tables of its coefficients, the kernels, and the four-lane MD5.  A      *)
(* behaviour is one call of a kernel, one of digest4, or one encoder from  *)
(* the tables of logarithms to those of a coefficient.  They share no      *)
(* variable, so each may go its way while the others stand at a beginning. *)
(*                                                                         *)
(* The field is GF(2^8), whose order 255 = 3 * 5 * 17 has 128 coprime      *)
(* logarithms; the requests are small sets at both ends of the exponents,  *)
(* as many slices as there are bases with enough rows for every            *)
(* coefficient but 0 to occur, and one slice too many.                     *)
(*                                                                         *)
(* The lengths lie around every multiple of a block that changes the chain *)
(* of kernels; the sets of features have what the sources take to be       *)
(* implied: AVX2, AVX-512F and GFNI come with SSSE3, AVX-512BW with        *)
(* AVX-512F.                                                               *)
EXTENDS CoeffTables, SimdKernels, Md5Neon

Request(i, f, r) == [input_count |-> i, first_exponent |-> f, recovery_count |-> r]

MCRequests ==
  {Request(4, 0, 5), Request(4, 250, 5), Request(128, 0, 18), Request(129, 0, 1)}

MCLosses == {{128}, {2, 3}, {1, 128}}

\* The constants of the code (galois.rs:17-20, creator.rs:106) meet the assumptions too.
Code == INSTANCE GaloisField WITH FIELD_BITS <- 16, FIELD_GENERATOR <- {0, 1, 3, 12, 16}

ASSUME CodeIsPrimitive ==
  /\ Code!Primitive
  /\ Cardinality({n \in 0 .. Code!FIELD_LIMIT - 1 : gcd[<<Code!FIELD_LIMIT, n>>] = 1}) = 32768

MCLengths ==
  {0, 2, 4, 28, 30, 32, 34, 60, 62, 64, 66, 94, 96, 98, 124, 126, 128, 130,
   158, 160, 162, 190, 192, 194, 254, 256, 258, 286, 288, 318}

MCCPUs ==
  {{"neon"}} \cup
  {f \in SUBSET {"ssse3", "avx2", "gfni", "avx512f", "avx512bw"} :
     /\ f \cap {"avx2", "gfni", "avx512f"} # {} => "ssse3" \in f
     /\ "avx512f" \in f => "avx2" \in f
     /\ "avx512bw" \in f => "avx512f" \in f}

\* Both sides of each boundary of the padding, with no full block, with one
\* and with two; every lane has bytes of its own.
MCBatches ==
  {[lane \in 1 .. 4 |-> [i \in 1 .. n |-> (91 * lane + 37 * i + lane * i * i) % 256]] :
     n \in {0, 1, 55, 56, 57, 63, 64, 65, 119, 120, 127, 128, 183, 184, 192}}
  \cup {[lane \in 1 .. 4 |-> <<97, 98, 99>>]}

MCInit == Init /\ Md5Init /\ CoeffInit

\* One initial state of the kernels stands for all in the other two.
AtFirst == cpu = {"neon"} /\ length = 0 /\ dispatch = "none"

MCNext ==
  \/ stage = "idle" /\ l = 0 /\ Next /\ UNCHANGED <<md5vars, coeffVars>>
  \/ AtFirst /\ l = 0 /\ Md5Next /\ UNCHANGED <<vars, coeffVars>>
  \/ AtFirst /\ stage = "idle" /\ CoeffNext /\ UNCHANGED <<vars, md5vars>>

MCSpec == MCInit /\ [][MCNext]_<<vars, md5vars, coeffVars>>
=============================================================================
