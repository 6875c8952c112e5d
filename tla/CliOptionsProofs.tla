-------------------------- MODULE CliOptionsProofs --------------------------
(***************************************************************************)
(* Proofs about CliOptions and InputLimits: what a create makes of its     *)
(* options and of the lengths of its input, for every list of lengths,     *)
(* every width of the integers and every limit that OptionsAssumption      *)
(* allows.                                                                 *)
(***************************************************************************)
EXTENDS CliOptions, NatFacts

(* The inductive invariant.  Beside types it keeps what each step of the   *)
(* command line has established for the later ones: a usable slice size    *)
(* from the scan on, the answer of resolve_redundancy from Count on, and   *)
(* the scheme that build_volume_scheme made of it.                         *)

CliPcs == {"slice_size", "redundancy", "scan", "count", "scheme", "create", "refused"}

Scanned == pc \in {"count", "scheme", "create"}
Counted == pc \in {"scheme", "create"}

LimitsTypes ==
  /\ lengths \in Seq(Nat)
  /\ slice_size \in Nat /\ recovery_count \in Nat /\ suggested \in Nat

\* A refusal for too many blocks was computed from these lengths.
SuggestionInv ==
  verdict = "TooManyInputBlocks" =>
    suggested = Suggested /\ lengths # <<>> /\ ~EmptyFile

OptionsTypes ==
  /\ pc \in CliPcs \cup {"library"}
  /\ pc # "library" =>
       /\ lengths \in CliFileLists
       /\ opt.c \in Nat
       /\ opt.r \in Redundancies \cup {[n |-> None, unit |-> "none"]}

RedundancyTypes ==
  /\ redundancy.kind \in {"none", "Percent", "TargetBytes"}
  /\ redundancy.n \in Nat
  /\ redundancy.kind = "Percent" => redundancy.n \in U32

\* SourceFile::scan_with_progress has accepted the slice size.
ScannedInv == Scanned => slice_size # 0

\* resolve_redundancy has answered, and its answer is not above the limit.
CountedInv ==
  Counted /\ redundancy.kind # "none" =>
    /\ recovery_count = WantedCount
    /\ RedundancyBlocks # 0
    /\ WantedCount <= MAX_RECOVERY_BLOCKS

SchemeInv ==
  pc = "create" =>
    /\ opt.limit_size => scheme.cap = Cap
    /\ scheme.kind = "uniform" /\ opt.n = None => scheme.count = default_uniform_count

CliInv ==
  /\ LimitsTypes /\ SuggestionInv /\ OptionsTypes /\ RedundancyTypes
  /\ ScannedInv /\ CountedInv /\ SchemeInv

-----------------------------------------------------------------------------
(* Sums of sequences.                                                      *)

\* The partial sums that SumOf is defined by exist.
LEMMA PartialSumsExist ==
  ASSUME NEW f, NEW n \in Nat
  PROVE  \E sum : sum = [k \in 0 .. n |-> IF k = 0 THEN 0 ELSE sum[k - 1] + f[k]]
<1>1. PICK h : h = [k \in 1 .. n + 1 |-> IF k = 1 THEN 0 ELSE h[k - 1] + f[k - 1]]
  BY RunningSumsExist
<1> DEFINE sum == [k \in 0 .. n |-> h[k + 1]]
<1>2. \A k \in 0 .. n : sum[k] = IF k = 0 THEN 0 ELSE sum[k - 1] + f[k]
  <2> SUFFICES ASSUME NEW k \in 0 .. n
               PROVE  sum[k] = IF k = 0 THEN 0 ELSE sum[k - 1] + f[k]
    OBVIOUS
  <2>1. k + 1 \in 1 .. n + 1 /\ (k + 1) - 1 = k /\ (k + 1 = 1 <=> k = 0)
    OBVIOUS
  <2>2. h[k + 1] = IF k + 1 = 1 THEN 0 ELSE h[(k + 1) - 1] + f[(k + 1) - 1]
    <3> DEFINE j == k + 1
    <3>1. j \in 1 .. n + 1
      BY <2>1
    <3> HIDE DEF j
    <3>2. h[j] = IF j = 1 THEN 0 ELSE h[j - 1] + f[j - 1]
      BY <1>1, <3>1
    <3> QED BY <3>2 DEF j
  <2>3. k # 0 => sum[k - 1] = h[k]
    OBVIOUS
  <2> QED BY <2>1, <2>2, <2>3
<1>3. sum = [k \in 0 .. n |-> IF k = 0 THEN 0 ELSE sum[k - 1] + f[k]]
  BY <1>2
<1> QED BY <1>3

\* sum holds the partial sums of f.
Adds(sum, f) == sum[0] = 0 /\ \A k \in 1 .. Len(f) : sum[k] = sum[k - 1] + f[k]

\* SumOf adds the elements one by one.
LEMMA SumUnfolds ==
  ASSUME NEW f, Len(f) \in Nat
  PROVE  \E sum : Adds(sum, f) /\ SumOf(f) = sum[Len(f)]
<1> DEFINE sum == CHOOSE s : s = [k \in 0 .. Len(f) |-> IF k = 0 THEN 0 ELSE s[k - 1] + f[k]]
<1>1. sum = [k \in 0 .. Len(f) |-> IF k = 0 THEN 0 ELSE sum[k - 1] + f[k]]
  BY PartialSumsExist
<1>2. SumOf(f) = sum[Len(f)]
  BY DEF SumOf
<1> HIDE DEF sum
<1>3. sum[0] = 0
  BY <1>1
<1>4. \A k \in 1 .. Len(f) : sum[k] = sum[k - 1] + f[k]
  BY <1>1
<1> QED BY <1>2, <1>3, <1>4 DEF Adds

\* A sum of natural numbers is one.
LEMMA SumIsNat ==
  ASSUME NEW f \in Seq(Nat)
  PROVE  SumOf(f) \in Nat
<1>1. PICK sum : Adds(sum, f) /\ SumOf(f) = sum[Len(f)]
  <2>1. Len(f) \in Nat
    OBVIOUS
  <2> QED BY <2>1, SumUnfolds
<1> DEFINE S == {k \in Nat : k <= Len(f) => sum[k] \in Nat}
<1>2. 0 \in S
  BY <1>1 DEF Adds
<1>3. ASSUME NEW k \in Nat, k \in S PROVE k + 1 \in S
  <2>1. CASE k + 1 <= Len(f)
    <3>1. sum[k + 1] = sum[k] + f[k + 1] /\ sum[k] \in Nat /\ f[k + 1] \in Nat
      <4> DEFINE j == k + 1
      <4>1. j \in 1 .. Len(f) /\ j - 1 = k
        BY <2>1
      <4> HIDE DEF j
      <4>2. sum[j] = sum[k] + f[j] /\ f[j] \in Nat
        BY <1>1, <4>1 DEF Adds
      <4> QED BY <4>2, <1>3, <2>1 DEF j
    <3> QED BY <3>1
  <2> QED BY <2>1
<1> HIDE DEF S
<1>4. Nat \subseteq S
  BY <1>2, <1>3, NatInSet
<1> QED BY <1>1, <1>4 DEF S

\* If every element is within s times its counterpart, so is the sum.
LEMMA SumWithin ==
  ASSUME NEW f \in Seq(Nat), NEW g \in Seq(Nat), NEW s \in Nat,
         Len(f) = Len(g),
         \A i \in 1 .. Len(f) : f[i] <= s * g[i]
  PROVE  SumOf(f) <= s * SumOf(g)
<1>1. PICK a : Adds(a, f) /\ SumOf(f) = a[Len(f)]
  <2>1. Len(f) \in Nat
    OBVIOUS
  <2> QED BY <2>1, SumUnfolds
<1>2. PICK b : Adds(b, g) /\ SumOf(g) = b[Len(g)]
  <2>1. Len(g) \in Nat
    OBVIOUS
  <2> QED BY <2>1, SumUnfolds
<1> DEFINE S == {k \in Nat : k <= Len(f) => a[k] \in Nat /\ b[k] \in Nat /\ a[k] <= s * b[k]}
<1>3. 0 \in S
  BY <1>1, <1>2 DEF Adds
<1>4. ASSUME NEW k \in Nat, k \in S PROVE k + 1 \in S
  <2> SUFFICES ASSUME k + 1 <= Len(f)
               PROVE  a[k + 1] \in Nat /\ b[k + 1] \in Nat /\ a[k + 1] <= s * b[k + 1]
    OBVIOUS
  <2> DEFINE j == k + 1
  <2>1. j \in 1 .. Len(f) /\ j - 1 = k
    OBVIOUS
  <2>2. a[k] \in Nat /\ b[k] \in Nat
    BY <1>4
  <2> HIDE DEF j
  <2>3. f[j] \in Nat /\ g[j] \in Nat
    BY <2>1
  <2>4. a[j] = a[k] + f[j] /\ b[j] = b[k] + g[j]
    BY <1>1, <1>2, <2>1 DEF Adds
  <2> DEFINE p == s * b[k]
             q == s * g[j]
             r == s * b[j]
  <2>5. r = p + q /\ p \in Nat /\ q \in Nat
    <3> DEFINE bk == b[k]
               gj == g[j]
    <3>1. bk \in Nat /\ gj \in Nat /\ b[j] = bk + gj
      BY <2>2, <2>3, <2>4
    <3> HIDE DEF bk, gj
    <3>2. s * (bk + gj) = s * bk + s * gj /\ s * bk \in Nat /\ s * gj \in Nat
      BY <3>1
    <3> QED BY <3>1, <3>2 DEF bk, gj
  <2>6. a[k] <= p /\ f[j] <= q
    BY <1>4, <2>1
  <2>7. a[j] \in Nat /\ b[j] \in Nat
    <3>1. \A m, n \in Nat : m + n \in Nat
      OBVIOUS
    <3> QED BY <3>1, <2>2, <2>3, <2>4
  <2> HIDE DEF p, q, r
  <2>8. a[j] <= r
    <3>1. \A m, n, x, y \in Nat : m <= x /\ n <= y => m + n <= x + y
      OBVIOUS
    <3>2. a[k] + f[j] <= p + q
      BY <3>1, <2>2, <2>3, <2>5, <2>6
    <3> QED BY <3>2, <2>4, <2>5
  <2>9. a[j] \in Nat /\ b[j] \in Nat /\ a[j] <= s * b[j]
    BY <2>7, <2>8 DEF r
  <2> QED BY <2>9 DEF j
<1> HIDE DEF S
<1>5. Nat \subseteq S
  BY <1>3, <1>4, NatInSet
<1> QED BY <1>1, <1>2, <1>5 DEF S

\* The sum of one number.
LEMMA SumOfOne ==
  ASSUME NEW f, Len(f) = 1, f[1] \in Int
  PROVE  SumOf(f) = f[1]
<1>1. PICK sum : Adds(sum, f) /\ SumOf(f) = sum[Len(f)]
  <2>1. Len(f) \in Nat
    OBVIOUS
  <2> QED BY <2>1, SumUnfolds
<1> QED BY <1>1 DEF Adds

-----------------------------------------------------------------------------
(* Blocks and slices.                                                      *)

\* The limits are positive, and the integers have the widths of natural numbers.
LEMMA Widths ==
  /\ MAX_FILES \in Nat /\ MAX_INPUT_BLOCKS \in Nat \ {0} /\ MAX_RECOVERY_BLOCKS \in Nat \ {0}
  /\ 2 ^ U64_BITS \in Nat \ {0} /\ 2 ^ U32_BITS \in Nat \ {0, 1}
  /\ U64 \subseteq Nat /\ U32 \subseteq Nat
  /\ MAX_RECOVERY_BLOCKS < 2 ^ U32_BITS - 1
<1>1. MAX_FILES \in Nat /\ MAX_INPUT_BLOCKS \in Nat \ {0} /\ MAX_RECOVERY_BLOCKS \in Nat \ {0}
  BY LimitsAssumption
<1>2. 2 ^ U64_BITS \in Int /\ 2 ^ U32_BITS \in Int
  BY OptionsAssumption
<1>3. MAX_RECOVERY_BLOCKS + 1 \in 0 .. 2 ^ U32_BITS - 1
  BY OptionsAssumption DEF U32
<1>4. \E n \in Int : n \in 0 .. 2 ^ U64_BITS - 1
  <2>1. MAX_INPUT_BLOCKS * (2 ^ U32_BITS - 1) \in 0 .. 2 ^ U64_BITS - 1
    BY OptionsAssumption DEF U64
  <2> QED BY <2>1, <1>2
<1>5. 2 ^ U64_BITS \in Nat \ {0} /\ 2 ^ U32_BITS \in Nat \ {0, 1}
  BY <1>1, <1>2, <1>3, <1>4
<1>6. U64 \subseteq Nat /\ U32 \subseteq Nat
  BY <1>2 DEF U64, U32
<1>7. MAX_RECOVERY_BLOCKS < 2 ^ U32_BITS - 1
  BY <1>1, <1>2, <1>3
<1> QED BY <1>1, <1>5, <1>6, <1>7

\* div_ceil(n, s) is the least k with n <= s * k.
LEMMA DivCeilIsLeast ==
  ASSUME NEW n \in Nat, NEW s \in Nat \ {0}
  PROVE  /\ DivCeil(n, s) \in Nat
         /\ n <= s * DivCeil(n, s)
         /\ \A k \in Nat : n <= s * k <=> DivCeil(n, s) <= k
<1>1. /\ DivCeil(n, s) \in Nat
      /\ \A k \in Nat : n <= s * k <=> DivCeil(n, s) <= k
  BY RoundingUp DEF DivCeil
<1> QED BY <1>1

\* The scan of a file hashes as many slices as its length stands for.
LEMMA SlicesAreBlocks ==
  ASSUME NEW n \in Nat, NEW s \in Nat \ {0}
  PROVE  ScannedSlices(n, s) = DivCeil(n, s)
<1> DEFINE q == n \div s
           p == s * q
<1>1. q \in Nat /\ p \in Nat /\ p <= n /\ n < p + s
  BY Quotient
<1>2. n % s = n - p
  OBVIOUS
<1>3. ScannedSlices(n, s) = q + (IF n = p THEN 0 ELSE 1)
  BY <1>1, <1>2 DEF ScannedSlices
<1>4. s * (q + 1) = p + s
  BY <1>1
<1> HIDE DEF q
<1>5. n + s - 1 \in Nat
  OBVIOUS
<1>6. CASE n = p
  <2>1. s * q <= n + s - 1 /\ n + s - 1 < s * q + s
    BY <1>1, <1>6
  <2>2. (n + s - 1) \div s = q
    BY <1>1, <1>5, <2>1, QuotientIs
  <2> QED BY <1>1, <1>3, <1>6, <2>2 DEF DivCeil
<1>7. CASE n # p
  <2>1. p + s <= n + s - 1 /\ n + s - 1 < p + s + s
    BY <1>1, <1>7
  <2>2. s * (q + 1) <= n + s - 1 /\ n + s - 1 < s * (q + 1) + s
    BY <1>4, <2>1
  <2>3. (n + s - 1) \div s = q + 1
    BY <1>1, <1>5, <2>2, QuotientIs
  <2> QED BY <1>1, <1>3, <1>7, <2>3 DEF DivCeil
<1> QED BY <1>6, <1>7

\* total_input_blocks counts what the scans hash, and enough of it to hold
\* all the input.
LEMMA BlocksHoldInput ==
  ASSUME lengths \in Seq(Nat), NEW s \in Nat \ {0}
  PROVE  /\ StatBlocks(s) \in Nat /\ SumOf(lengths) \in Nat
         /\ ScannedBlocks(s) = StatBlocks(s)
         /\ SumOf(lengths) <= s * StatBlocks(s)
<1> DEFINE blocks == [i \in DOMAIN lengths |-> DivCeil(lengths[i], s)]
           slices == [i \in DOMAIN lengths |-> ScannedSlices(lengths[i], s)]
<1>1. \A i \in DOMAIN lengths : lengths[i] \in Nat
  OBVIOUS
<1>2. blocks = slices
  BY <1>1, SlicesAreBlocks
<1>3. \A i \in DOMAIN lengths : DivCeil(lengths[i], s) \in Nat
  BY <1>1, DivCeilIsLeast
<1>4. blocks \in Seq(Nat) /\ Len(blocks) = Len(lengths)
  <2>1. DOMAIN lengths = 1 .. Len(lengths) /\ Len(lengths) \in Nat
    OBVIOUS
  <2> QED BY <1>3, <2>1
<1>5. \A i \in 1 .. Len(lengths) : lengths[i] <= s * blocks[i]
  <2>1. \A i \in DOMAIN lengths : lengths[i] <= s * DivCeil(lengths[i], s)
    BY <1>1, DivCeilIsLeast
  <2> QED BY <2>1
<1>6. ScannedBlocks(s) = StatBlocks(s) /\ StatBlocks(s) = SumOf(blocks)
  BY <1>2 DEF ScannedBlocks, StatBlocks
<1> HIDE DEF blocks
<1>7. SumOf(blocks) \in Nat /\ SumOf(lengths) \in Nat /\ SumOf(lengths) <= s * SumOf(blocks)
  BY <1>4, <1>5, SumIsNat, SumWithin
<1> QED BY <1>6, <1>7

\* A product grows with a factor.
LEMMA ProductGrows ==
  ASSUME NEW a \in Nat, NEW b \in Nat, NEW c \in Nat, b <= c
  PROVE  a * b <= a * c
<1>1. CASE b < c
  <2>1. a * b + a <= a * c
    BY <1>1, LargerFactor
  <2>2. a * b \in Nat /\ a * c \in Nat
    OBVIOUS
  <2> QED BY <2>1, <2>2
<1>2. CASE b = c
  <2>1. a * b \in Nat
    OBVIOUS
  <2> QED BY <1>2, <2>1
<1> QED BY <1>1, <1>2

\* A rounded up quotient that is not 0 is the fewest that is enough.
LEMMA FewestIsFewest ==
  ASSUME NEW n \in Nat, NEW s \in Nat \ {0}, DivCeil(n, s) # 0
  PROVE  n <= s * DivCeil(n, s) /\ ~(n <= s * (DivCeil(n, s) - 1))
<1> DEFINE q == DivCeil(n, s)
<1>1. q \in Nat /\ n <= s * q /\ \A k \in Nat : n <= s * k <=> q <= k
  BY DivCeilIsLeast
<1> HIDE DEF q
<1>2. q # 0
  BY DEF q
<1>3. q - 1 \in Nat /\ ~(q <= q - 1)
  BY <1>1, <1>2
<1> QED BY <1>1, <1>3 DEF q

\* The larger of a number and 1.
LEMMA LargerOfTwo ==
  ASSUME NEW n \in Nat
  PROVE  Max({n, 1}) = IF n = 0 THEN 1 ELSE n
BY DEF Max

\* A list of files has a largest one.
LEMMA LargestIsNat ==
  ASSUME lengths \in Seq(Nat), lengths # <<>>
  PROVE  Largest \in Nat
<1> DEFINE Holds(k) == \E i \in 1 .. k : \A j \in 1 .. k : lengths[j] <= lengths[i]
           S == {k \in Nat : k + 1 <= Len(lengths) => Holds(k + 1)}
<1>1. \A i \in 1 .. Len(lengths) : lengths[i] \in Nat
  OBVIOUS
<1>2. 0 \in S
  <2>1. 1 <= Len(lengths) => Holds(1)
    BY <1>1
  <2> QED BY <2>1
<1>3. ASSUME NEW k \in Nat, k \in S PROVE k + 1 \in S
  <2> SUFFICES ASSUME k + 2 <= Len(lengths) PROVE Holds(k + 2)
    OBVIOUS
  <2>1. PICK i \in 1 .. k + 1 : \A j \in 1 .. k + 1 : lengths[j] <= lengths[i]
    BY <1>3
  <2>2. CASE lengths[k + 2] <= lengths[i]
    <3>1. \A j \in 1 .. k + 2 : lengths[j] <= lengths[i]
      BY <2>1, <2>2
    <3> QED BY <3>1
  <2>3. CASE ~(lengths[k + 2] <= lengths[i])
    <3>1. lengths[i] \in Nat /\ lengths[k + 2] \in Nat
      BY <1>1
    <3>2. \A j \in 1 .. k + 1 : lengths[j] \in Nat
      BY <1>1
    <3>3. \A j \in 1 .. k + 2 : lengths[j] <= lengths[k + 2]
      BY <2>1, <2>3, <3>1, <3>2
    <3> QED BY <3>3
  <2> QED BY <2>2, <2>3
<1>4. Holds(Len(lengths))
  <2>1. Nat \subseteq S
    <3> HIDE DEF S
    <3> QED BY <1>2, <1>3, NatInSet
  <2>2. Len(lengths) - 1 \in Nat /\ (Len(lengths) - 1) + 1 = Len(lengths)
    OBVIOUS
  <2> DEFINE k == Len(lengths) - 1
  <2>3. k + 1 = Len(lengths) /\ k + 1 <= Len(lengths)
    BY <2>2
  <2> HIDE DEF S, Holds
  <2>4. k \in S
    BY <2>1, <2>2
  <2> HIDE DEF k
  <2>5. Holds(k + 1)
    BY <2>3, <2>4 DEF S
  <2> QED BY <2>3, <2>5
<1>5. \E x \in Range(lengths) : \A y \in Range(lengths) : x >= y
  <2>1. PICK i \in 1 .. Len(lengths) : \A j \in 1 .. Len(lengths) : lengths[j] <= lengths[i]
    BY <1>4
  <2>2. DOMAIN lengths = 1 .. Len(lengths)
    OBVIOUS
  <2>3. \A j \in 1 .. Len(lengths) : lengths[i] >= lengths[j]
    BY <1>1, <2>1
  <2> QED BY <2>2, <2>3 DEF Range
<1>6. Largest \in Range(lengths)
  BY <1>5 DEF Largest, Max
<1> QED BY <1>1, <1>6 DEF Range

-----------------------------------------------------------------------------
(* The invariant holds.                                                    *)

\* The suggested slice size is a number.
LEMMA SuggestedIsNat ==
  ASSUME lengths \in Seq(Nat)
  PROVE  Suggested \in Nat
<1>1. SumOf(lengths) \in Nat /\ MAX_INPUT_BLOCKS \in Nat \ {0}
  BY SumIsNat, Widths
<1>2. DivCeil(SumOf(lengths), MAX_INPUT_BLOCKS) \in Nat
  BY <1>1, DivCeilIsLeast
<1>3. DivCeil(DivCeil(SumOf(lengths), MAX_INPUT_BLOCKS), 4) \in Nat
  BY <1>2, DivCeilIsLeast
<1> QED BY <1>3 DEF Suggested

\* A conversion to u32 gives a number.
LEMMA ToU32IsNat ==
  ASSUME NEW n
  PROVE  ToU32(n) \in Nat
<1>1. n \in U32 => n \in Nat
  BY Widths
<1>2. 2 ^ U32_BITS - 1 \in Nat
  <2> DEFINE w == 2 ^ U32_BITS
  <2>1. w \in Nat \ {0, 1}
    BY Widths
  <2> HIDE DEF w
  <2>2. w - 1 \in Nat
    BY <2>1
  <2> QED BY <2>2 DEF w
<1> QED BY <1>1, <1>2 DEF ToU32

\* Every initial state satisfies the invariant.
LEMMA CliInvInit == Init => CliInv
<1>1. LibraryInit => CliInv
  BY LimitsAssumption DEF LibraryInit, LimitsInit, CliInv, LimitsTypes, SuggestionInv, OptionsTypes,
     RedundancyTypes, ScannedInv, CountedInv, SchemeInv, Scanned, Counted
<1>2. CliInit => CliInv
  <2> SUFFICES ASSUME CliInit PROVE CliInv
    OBVIOUS
  <2>1. lengths \in CliFileLists /\ lengths \in Seq(U64)
    BY OptionsAssumption DEF CliInit
  <2>2. lengths \in Seq(Nat)
    <3>1. U64 \subseteq Nat
      BY Widths
    <3>2. \A i \in 1 .. Len(lengths) : lengths[i] \in U64
      BY <2>1
    <3>3. \A i \in 1 .. Len(lengths) : lengths[i] \in Nat
      BY <3>1, <3>2
    <3> QED BY <2>1, <3>3
  <2>3. opt.c \in Nat /\ opt.r \in Redundancies \cup {[n |-> None, unit |-> "none"]}
    BY LimitsAssumption DEF CliInit
  <2> QED BY <2>1, <2>2, <2>3 DEF CliInit, CliInv, LimitsTypes, SuggestionInv, OptionsTypes, CliPcs,
          RedundancyTypes, ScannedInv, CountedInv, SchemeInv, Scanned, Counted
<1> QED BY <1>1, <1>2 DEF Init

\* A step of the command line leaves the lengths and the options alone.
Quiet == UNCHANGED <<lengths, opt, verdict, suggested>>

\* What holds of the given state holds after such a step.
LEMMA QuietKeeps ==
  ASSUME CliInv, Quiet, slice_size' \in Nat, recovery_count' \in Nat, pc # "library", pc' \in CliPcs
  PROVE  LimitsTypes' /\ SuggestionInv' /\ OptionsTypes'
<1>1. Suggested' = Suggested /\ EmptyFile' = EmptyFile
  BY DEF Quiet, Suggested, EmptyFile
<1> QED BY <1>1 DEF Quiet, CliInv, LimitsTypes, SuggestionInv, OptionsTypes, CliPcs

\* A refusal keeps the invariant: nothing is computed from then on.
LEMMA RefuseKeeps ==
  ASSUME CliInv, Refuse, pc # "library"
  PROVE  CliInv'
<1>1. Quiet /\ slice_size' \in Nat /\ recovery_count' \in Nat /\ pc' \in CliPcs
  BY DEF CliInv, LimitsTypes, Refuse, given, Quiet, CliPcs
<1>2. LimitsTypes' /\ SuggestionInv' /\ OptionsTypes'
  BY <1>1, QuietKeeps
<1>3. RedundancyTypes' /\ ScannedInv' /\ CountedInv' /\ SchemeInv'
  BY DEF CliInv, RedundancyTypes, ScannedInv, CountedInv, SchemeInv, Scanned, Counted, Refuse
<1> QED BY <1>2, <1>3 DEF CliInv

\* parse_slice_size gives a number.
LEMMA ParseSliceSizeKeeps ==
  ASSUME CliInv, ParseSliceSize
  PROVE  CliInv'
<1>1. Quiet /\ recovery_count' \in Nat /\ pc' \in CliPcs /\ pc # "library"
  BY DEF CliInv, LimitsTypes, ParseSliceSize, given, Quiet, CliPcs
<1>2. slice_size' \in Nat
  <2>1. slice_size' \in U64
    BY DEF ParseSliceSize
  <2>2. U64 \subseteq Nat
    BY Widths
  <2> QED BY <2>1, <2>2
<1>3. LimitsTypes' /\ SuggestionInv' /\ OptionsTypes'
  BY <1>1, <1>2, QuietKeeps
<1>4. RedundancyTypes' /\ ScannedInv' /\ CountedInv' /\ SchemeInv'
  BY DEF CliInv, RedundancyTypes, ScannedInv, CountedInv, SchemeInv, Scanned, Counted, ParseSliceSize
<1> QED BY <1>3, <1>4 DEF CliInv

\* Redundancy::from_str gives a u32 percentage or a number of bytes.
LEMMA ParseRedundancyKeeps ==
  ASSUME CliInv, ParseRedundancy
  PROVE  CliInv'
<1>1. Quiet /\ recovery_count' \in Nat /\ slice_size' \in Nat /\ pc' \in CliPcs /\ pc # "library"
  BY DEF CliInv, LimitsTypes, ParseRedundancy, given, Quiet, CliPcs
<1>2. LimitsTypes' /\ SuggestionInv' /\ OptionsTypes'
  BY <1>1, QuietKeeps
<1>3. ScannedInv' /\ CountedInv' /\ SchemeInv'
  BY DEF ScannedInv, CountedInv, SchemeInv, Scanned, Counted, ParseRedundancy
<1>4. RedundancyTypes'
  <2>1. CASE opt.r.unit = "none"
    <3>1. redundancy' = redundancy
      BY <2>1 DEF ParseRedundancy
    <3> QED BY <3>1 DEF CliInv, RedundancyTypes
  <2>2. CASE opt.r.unit = "%"
    <3>1. redundancy' = [kind |-> "Percent", n |-> opt.r.n]
      BY <2>2 DEF ParseRedundancy
    <3>2. opt.r.n \in U32
      BY <2>2 DEF ParseRedundancy, MalformedRedundancy
    <3>3. opt.r.n \in Nat
      BY <3>2, Widths
    <3> QED BY <3>1, <3>2, <3>3 DEF RedundancyTypes
  <2>3. CASE opt.r.unit \notin {"none", "%"}
    <3> DEFINE bytes == (opt.r.n * 2 ^ Shift[opt.r.unit]) % 2 ^ U64_BITS
    <3>1. redundancy' = [kind |-> "TargetBytes", n |-> bytes]
      BY <2>3 DEF ParseRedundancy
    <3>2. opt.r.unit \in DOMAIN Shift
      <4>1. opt.r \in Redundancies \/ opt.r = [n |-> None, unit |-> "none"]
        BY DEF CliInv, OptionsTypes, ParseRedundancy
      <4> QED BY <4>1, <2>3, OptionsAssumption
    <3>3. opt.r.n \in Nat
      <4>1. opt.r.n \in U64
        BY <3>2 DEF ParseRedundancy, MalformedRedundancy
      <4> QED BY <4>1, Widths
    <3>4. bytes \in Nat
      <4>1. Shift[opt.r.unit] \in Nat
        BY <3>2, OptionsAssumption
      <4> DEFINE e == Shift[opt.r.unit]
                 n == opt.r.n
                 w == 2 ^ U64_BITS
                 k == 2 ^ e
      <4>2. e \in Nat /\ n \in Nat
        BY <4>1, <3>3
      <4> HIDE DEF e, n
      <4>3. k \in Int
        BY <4>2
      <4>4. w \in Nat \ {0}
        BY Widths
      <4> HIDE DEF w, k
      <4>5. n * k \in Int
        BY <4>2, <4>3
      <4>6. (n * k) % w \in Nat
        BY <4>4, <4>5
      <4> QED BY <4>6 DEF e, n, k, w
    <3> HIDE DEF bytes
    <3> QED BY <3>1, <3>4 DEF RedundancyTypes
  <2> QED BY <2>1, <2>2, <2>3
<1> QED BY <1>2, <1>3, <1>4 DEF CliInv

\* The scan refuses a slice size of 0.
LEMMA ScanKeeps ==
  ASSUME CliInv, Scan
  PROVE  CliInv'
<1>1. Quiet /\ recovery_count' \in Nat /\ slice_size' \in Nat /\ pc' \in CliPcs /\ pc # "library"
  BY DEF CliInv, LimitsTypes, Scan, given, Quiet, CliPcs
<1>2. LimitsTypes' /\ SuggestionInv' /\ OptionsTypes'
  BY <1>1, QuietKeeps
<1>3. RedundancyTypes' /\ ScannedInv' /\ CountedInv' /\ SchemeInv'
  BY DEF CliInv, RedundancyTypes, ScannedInv, CountedInv, SchemeInv, Scanned, Counted, Scan,
     BadInput, InvalidSliceSize
<1> QED BY <1>2, <1>3 DEF CliInv

\* The number of blocks depends on what Count does not change.
LEMMA WantedIsKept ==
  ASSUME UNCHANGED <<lengths, opt, redundancy, slice_size>>
  PROVE  WantedCount' = WantedCount /\ RedundancyBlocks' = RedundancyBlocks
BY DEF WantedCount, RedundancyBlocks, ScannedBlocks

\* Count takes what resolve_redundancy answers.
LEMMA CountKeeps ==
  ASSUME CliInv, Count
  PROVE  CliInv'
<1>1. recovery_count' \in Nat
  <2>1. WantedCount \in Nat
    BY ToU32IsNat DEF WantedCount, CliInv, OptionsTypes, Count
  <2> QED BY <2>1 DEF Count
<1>2. Quiet /\ slice_size' \in Nat /\ pc' \in CliPcs /\ pc # "library"
  BY DEF CliInv, LimitsTypes, Count, given, Quiet, CliPcs
<1>3. LimitsTypes' /\ SuggestionInv' /\ OptionsTypes'
  BY <1>1, <1>2, QuietKeeps
<1>4. RedundancyTypes' /\ ScannedInv' /\ SchemeInv'
  BY DEF CliInv, RedundancyTypes, ScannedInv, SchemeInv, Scanned, Count
<1>5. CountedInv'
  <2>1. WantedCount' = WantedCount /\ RedundancyBlocks' = RedundancyBlocks
    BY WantedIsKept DEF Count, given
  <2> QED BY <2>1 DEF Count, CountedInv
<1> QED BY <1>3, <1>4, <1>5 DEF CliInv

\* build_volume_scheme fills in the defaults.
LEMMA BuildSchemeKeeps ==
  ASSUME CliInv, build_volume_scheme
  PROVE  CliInv'
<1>1. Quiet /\ recovery_count' \in Nat /\ slice_size' \in Nat /\ pc' \in CliPcs /\ pc # "library"
  BY DEF CliInv, LimitsTypes, build_volume_scheme, given, Quiet, CliPcs
<1>2. LimitsTypes' /\ SuggestionInv' /\ OptionsTypes'
  BY <1>1, QuietKeeps
<1>3. RedundancyTypes' /\ ScannedInv'
  BY DEF CliInv, RedundancyTypes, ScannedInv, Scanned, build_volume_scheme
<1>4. CountedInv'
  <2>1. WantedCount' = WantedCount /\ RedundancyBlocks' = RedundancyBlocks
    BY WantedIsKept DEF build_volume_scheme, given
  <2> QED BY <2>1 DEF CliInv, CountedInv, Counted, build_volume_scheme
<1>5. SchemeInv'
  <2>1. Cap' = Cap /\ default_uniform_count' = default_uniform_count /\ opt' = opt
    BY DEF build_volume_scheme, given, Cap, Largest, default_uniform_count
  <2>2. scheme'.cap = IF opt.limit_size THEN Cap ELSE None
    BY DEF build_volume_scheme
  <2>3. scheme'.kind = "uniform" /\ opt.n = None => scheme'.count = default_uniform_count
    BY DEF build_volume_scheme
  <2> QED BY <2>1, <2>2, <2>3 DEF SchemeInv
<1> QED BY <1>2, <1>3, <1>4, <1>5 DEF CliInv

\* An answer that suggests a slice size does so for input that has blocks.
LEMMA AnswerKeeps ==
  ASSUME CliInv, UNCHANGED cliVars, NEW v, Answer(v),
         v = "TooManyInputBlocks" => lengths # <<>> /\ ~EmptyFile
  PROVE  CliInv'
<1>1. LimitsTypes' /\ SuggestionInv'
  <2>1. Suggested' = Suggested /\ EmptyFile' = EmptyFile
    BY DEF Answer, Suggested, EmptyFile
  <2>2. Suggested \in Nat
    BY SuggestedIsNat DEF CliInv, LimitsTypes
  <2> QED BY <2>1, <2>2 DEF CliInv, Answer, LimitsTypes, SuggestionInv
<1>2. OptionsTypes' /\ RedundancyTypes' /\ ScannedInv'
  BY DEF CliInv, Answer, cliVars, OptionsTypes, RedundancyTypes, ScannedInv, Scanned
<1>3. CountedInv'
  <2>1. WantedCount' = WantedCount /\ RedundancyBlocks' = RedundancyBlocks
    BY WantedIsKept DEF Answer, cliVars
  <2> QED BY <2>1 DEF CliInv, CountedInv, Counted, Answer, cliVars
<1>4. SchemeInv'
  BY DEF CliInv, SchemeInv, Answer, cliVars, Cap, Largest, default_uniform_count
<1> QED BY <1>1, <1>2, <1>3, <1>4 DEF CliInv

\* Both entry points suggest a slice size after the same checks.
LEMMA OnlyBlocksAreTooMany ==
  \A v \in {FusedVerdict, LegacyVerdict} :
    v = "TooManyInputBlocks" => lengths # <<>> /\ ~EmptyFile
BY DEF FusedVerdict, LegacyVerdict

\* A retry takes the suggestion for its slice size.
LEMMA TryAgainKeeps ==
  ASSUME CliInv, TryAgain
  PROVE  CliInv'
<1>1. pc = "library" /\ pc' = "library" /\ verdict' = "none" /\ slice_size' = suggested
  BY DEF TryAgain, Retry, cliVars
<1>2. UNCHANGED <<lengths, recovery_count, suggested, opt, redundancy, scheme>>
  BY DEF TryAgain, Retry, cliVars
<1> QED BY <1>1, <1>2 DEF CliInv, LimitsTypes, SuggestionInv, OptionsTypes, RedundancyTypes,
        ScannedInv, CountedInv, SchemeInv, Scanned, Counted, CliPcs

\* Every step keeps the invariant.
LEMMA CliInvStep == CliInv /\ [Next]_vars => CliInv'
<1> SUFFICES ASSUME CliInv, [Next]_vars PROVE CliInv'
  OBVIOUS
<1>1. CASE ParseSliceSize
  BY <1>1, ParseSliceSizeKeeps
<1>2. CASE BadSliceSize
  BY <1>2, RefuseKeeps DEF BadSliceSize
<1>3. CASE ParseRedundancy
  BY <1>3, ParseRedundancyKeeps
<1>4. CASE BadRedundancy
  BY <1>4, RefuseKeeps DEF BadRedundancy
<1>5. CASE Scan
  BY <1>5, ScanKeeps
<1>6. CASE ScanRefused
  BY <1>6, RefuseKeeps DEF ScanRefused
<1>7. CASE Count
  BY <1>7, CountKeeps
<1>8. CASE CountRefused
  BY <1>8, RefuseKeeps DEF CountRefused
<1>9. CASE build_volume_scheme
  BY <1>9, BuildSchemeKeeps
<1>10. CASE SchemeRefused
  BY <1>10, RefuseKeeps DEF SchemeRefused
<1>11. CASE Create
  BY <1>11, AnswerKeeps, OnlyBlocksAreTooMany DEF Create, AskLegacy
<1>12. CASE CreateFused
  BY <1>12, AnswerKeeps, OnlyBlocksAreTooMany DEF CreateFused, AskFused
<1>13. CASE TryAgain
  BY <1>13, TryAgainKeeps
<1>14. CASE UNCHANGED vars
  BY <1>14 DEF vars, limitVars, cliVars, CliInv, LimitsTypes, SuggestionInv, OptionsTypes,
     RedundancyTypes, ScannedInv, CountedInv, SchemeInv, Scanned, Counted, Suggested, EmptyFile,
     WantedCount, RedundancyBlocks, ScannedBlocks, Cap, Largest, default_uniform_count
<1> QED BY <1>1, <1>2, <1>3, <1>4, <1>5, <1>6, <1>7, <1>8, <1>9, <1>10, <1>11, <1>12, <1>13, <1>14
        DEF Next

\* The types and what the steps before have established, in every state.
THEOREM CliTypeCorrect == Spec => []CliInv
<1>1. Init => CliInv
  BY CliInvInit
<1>2. CliInv /\ [Next]_vars => CliInv'
  BY CliInvStep
<1> QED BY <1>1, <1>2, PTL DEF Spec

-----------------------------------------------------------------------------
(* What the invariant implies.                                             *)

\* The two ways into a create accept the same requests and suggest a slice
\* size for the same ones: run_create_fused counting by length, the other by
\* what it has hashed.
THEOREM EntryPointsAlwaysAgree == Spec => []EntryPointsAgree
<1>1. CliInv => EntryPointsAgree
  <2> SUFFICES ASSUME CliInv PROVE EntryPointsAgree
    OBVIOUS
  <2>1. ~InvalidSliceSize => ScannedBlocks(slice_size) = StatBlocks(slice_size)
    <3>1. ~InvalidSliceSize => slice_size \in Nat \ {0}
      BY DEF CliInv, LimitsTypes, InvalidSliceSize
    <3> QED BY <3>1, BlocksHoldInput DEF CliInv, LimitsTypes
  <2> QED BY <2>1 DEF EntryPointsAgree, FusedVerdict, LegacyVerdict
<1> QED BY <1>1, CliTypeCorrect, PTL

\* No slice size below the suggestion of TooManyInputBlocks would have been
\* accepted, and with a single file the suggestion is.
THEOREM SuggestionIsAlwaysLeast == Spec => []SuggestionIsLeast
<1>1. CliInv => SuggestionIsLeast
  <2> SUFFICES ASSUME CliInv, verdict = "TooManyInputBlocks" PROVE
                 /\ \A s \in 1 .. suggested - 1 : s % 4 = 0 => StatBlocks(s) > MAX_INPUT_BLOCKS
                 /\ Len(lengths) = 1 => StatBlocks(suggested) <= MAX_INPUT_BLOCKS
    BY DEF SuggestionIsLeast
  <2> DEFINE total == SumOf(lengths)
             max   == MAX_INPUT_BLOCKS
             step  == DivCeil(total, max)
             fours == DivCeil(step, 4)
  <2>1. lengths \in Seq(Nat) /\ lengths # <<>> /\ ~EmptyFile /\ suggested = fours * 4
    BY DEF CliInv, LimitsTypes, SuggestionInv, Suggested
  <2>2. max \in Nat \ {0}
    BY Widths
  <2>3. total \in Nat
    BY <2>1, SumIsNat
  <2>4. step \in Nat /\ total <= max * step /\ \A k \in Nat : total <= max * k <=> step <= k
    BY <2>2, <2>3, DivCeilIsLeast
  <2> HIDE DEF step
  <2>5. fours \in Nat /\ step <= 4 * fours /\ \A k \in Nat : step <= 4 * k <=> fours <= k
    BY <2>4, DivCeilIsLeast
  <2> HIDE DEF total, max, fours
  <2>6. ASSUME NEW s \in 1 .. suggested - 1, s % 4 = 0 PROVE StatBlocks(s) > MAX_INPUT_BLOCKS
    <3>1. s \in Nat \ {0} /\ s < 4 * fours
      BY <2>1, <2>5, <2>6
    <3>2. PICK t \in Nat : s = 4 * t
      <4>1. s = 4 * (s \div 4) /\ s \div 4 \in Nat
        BY <2>6, <3>1
      <4> QED BY <4>1
    <3>3. ~(fours <= t)
      BY <2>5, <3>1, <3>2
    <3>4. ~(step <= s)
      BY <2>5, <3>2, <3>3
    <3>5. ~(total <= max * s)
      BY <2>4, <3>1, <3>4
    <3> DEFINE blocks == StatBlocks(s)
    <3>6. blocks \in Nat /\ total <= s * blocks
      BY <2>1, <3>1, BlocksHoldInput DEF total
    <3> HIDE DEF blocks
    <3>7. ~(blocks <= max)
      <4> SUFFICES ASSUME blocks <= max PROVE FALSE
        OBVIOUS
      <4>1. s * blocks <= s * max
        <5>1. CASE blocks < max
          <6>1. s * blocks + s <= s * max
            BY <2>2, <3>1, <3>6, <5>1, LargerFactor
          <6>2. s * blocks \in Nat /\ s * max \in Nat
            BY <2>2, <3>1, <3>6
          <6> QED BY <3>1, <6>1, <6>2
        <5> QED BY <2>2, <3>1, <3>6, <5>1
      <4>2. s * max = max * s /\ max * s \in Nat /\ s * blocks \in Nat
        BY <2>2, <3>1, <3>6
      <4> QED BY <2>3, <3>5, <3>6, <4>1, <4>2
    <3> QED BY <2>2, <3>6, <3>7 DEF blocks, max
  <2>7. ASSUME Len(lengths) = 1 PROVE StatBlocks(suggested) <= MAX_INPUT_BLOCKS
    <3>1. lengths[1] \in Nat \ {0} /\ total = lengths[1]
      <4>1. 1 \in DOMAIN lengths /\ lengths[1] \in Nat
        BY <2>1, <2>7
      <4>2. lengths[1] # 0
        BY <2>1, <4>1 DEF EmptyFile
      <4> QED BY <2>7, <4>1, <4>2, SumOfOne DEF total
    <3>2. total <= max * suggested
      <4>1. suggested \in Nat /\ step <= suggested
        BY <2>1, <2>4, <2>5
      <4> QED BY <2>4, <4>1
    <3>3. suggested \in Nat \ {0}
      <4>1. suggested # 0
        <5> SUFFICES ASSUME suggested = 0 PROVE FALSE
          OBVIOUS
        <5>1. max * suggested = 0
          BY <2>2
        <5> QED BY <3>1, <3>2, <5>1
      <4> QED BY <2>1, <2>5, <4>1
    <3>4. suggested * max = max * suggested
      BY <2>2, <3>3
    <3>5. DivCeil(total, suggested) <= max
      BY <2>2, <2>3, <3>2, <3>3, <3>4, DivCeilIsLeast
    <3>6. StatBlocks(suggested) = DivCeil(total, suggested)
      <4> DEFINE blocks == [i \in DOMAIN lengths |-> DivCeil(lengths[i], suggested)]
      <4>1. DivCeil(total, suggested) \in Nat
        BY <2>3, <3>3, DivCeilIsLeast
      <4>2. Len(blocks) = 1 /\ blocks[1] = DivCeil(total, suggested)
        BY <2>1, <2>7, <3>1
      <4>3. SumOf(blocks) = blocks[1]
        <5> HIDE DEF blocks
        <5> QED BY <4>1, <4>2, SumOfOne
      <4> QED BY <4>2, <4>3 DEF StatBlocks
    <3> QED BY <3>5, <3>6 DEF max
  <2> QED BY <2>6, <2>7
<1> QED BY <1>1, CliTypeCorrect, PTL

\* -r: for every input that run_create_with_progress does not refuse, the fewest
\* blocks that are at least the percentage of the input blocks, or that hold the
\* bytes the target came to, saturation and conversions included.
THEOREM RedundancyIsAlwaysMet == Spec => []RedundancyIsMet
<1>1. CliInv => RedundancyIsMet
  <2> SUFFICES ASSUME CliInv, pc = "create", redundancy.kind # "none",
                      ScannedBlocks(slice_size) <= MAX_INPUT_BLOCKS
               PROVE  LET n == redundancy.n
                          enough(c) == IF redundancy.kind = "Percent" THEN 100 * c >= n * ScannedBlocks(slice_size)
                                       ELSE c * slice_size >= n
                      IN  enough(recovery_count) /\ ~enough(recovery_count - 1)
    BY DEF RedundancyIsMet
  <2> DEFINE blocks == ScannedBlocks(slice_size)
             n      == redundancy.n
             s      == slice_size
             c      == recovery_count
             wanted == RedundancyBlocks
  <2>1. /\ s \in Nat \ {0} /\ n \in Nat /\ c \in Nat
        /\ c = ToU32(wanted) /\ wanted # 0 /\ c <= MAX_RECOVERY_BLOCKS
    BY DEF CliInv, LimitsTypes, RedundancyTypes, ScannedInv, Scanned, CountedInv, Counted, WantedCount
  <2>2. blocks \in Nat
    BY <2>1, BlocksHoldInput DEF CliInv, LimitsTypes
  <2>3. c = wanted
    <3>1. CASE wanted \in U32
      BY <2>1, <3>1 DEF ToU32
    <3>2. CASE wanted \notin U32
      <4>1. c = 2 ^ U32_BITS - 1
        BY <2>1, <3>2 DEF ToU32
      <4> QED BY <2>1, <4>1, Widths
    <3> QED BY <3>1, <3>2
  <2>4. CASE redundancy.kind = "Percent"
    <3> DEFINE product == blocks * n
    <3>1. product \in Nat
      BY <2>1, <2>2
    <3>2. product \in U64
      <4> DEFINE most == 2 ^ U32_BITS - 1
      <4>1. most \in Nat /\ n <= most
        <5>1. n \in 0 .. most
          BY <2>4 DEF CliInv, RedundancyTypes, U32
        <5>2. most \in Int
          BY Widths
        <5> HIDE DEF most, n
        <5> QED BY <5>1, <5>2
      <4>2. blocks <= MAX_INPUT_BLOCKS /\ MAX_INPUT_BLOCKS \in Nat
        BY Widths
      <4> HIDE DEF most, blocks, n
      <4>3. blocks * n <= MAX_INPUT_BLOCKS * most
        <5>1. blocks * n <= blocks * most
          BY <2>1, <2>2, <4>1, ProductGrows
        <5>2. most * blocks <= most * MAX_INPUT_BLOCKS
          BY <2>2, <4>1, <4>2, ProductGrows
        <5>3. /\ most * blocks = blocks * most /\ most * MAX_INPUT_BLOCKS = MAX_INPUT_BLOCKS * most
              /\ blocks * n \in Nat /\ blocks * most \in Nat /\ MAX_INPUT_BLOCKS * most \in Nat
          BY <2>1, <2>2, <4>1, <4>2
        <5> QED BY <5>1, <5>2, <5>3
      <4>4. MAX_INPUT_BLOCKS * most \in 0 .. 2 ^ U64_BITS - 1
        BY OptionsAssumption DEF U64, most
      <4>5. 2 ^ U64_BITS \in Nat
        BY Widths
      <4>6. product \in 0 .. 2 ^ U64_BITS - 1
        BY <3>1, <4>3, <4>4, <4>5
      <4> QED BY <4>6 DEF U64
    <3>3. wanted = DivCeil(product, 100)
      BY <2>4, <3>2 DEF RedundancyBlocks, Saturating
    <3> HIDE DEF product, wanted
    <3>4. product <= 100 * wanted /\ ~(product <= 100 * (wanted - 1))
      BY <3>1, <3>3, <2>1, <2>3, FewestIsFewest
    <3>5. product = n * blocks
      BY <2>1, <2>2 DEF product
    <3> HIDE DEF c, n, blocks
    <3>6. 100 * c >= n * blocks /\ ~(100 * (c - 1) >= n * blocks)
      BY <2>3, <2>1, <3>1, <3>4, <3>5
    <3> QED BY <2>4, <3>6 DEF c, n, blocks
  <2>5. CASE redundancy.kind # "Percent"
    <3>1. wanted = DivCeil(n, s)
      BY <2>5 DEF RedundancyBlocks
    <3> HIDE DEF wanted
    <3>2. n <= s * wanted /\ ~(n <= s * (wanted - 1))
      BY <3>1, <2>1, <2>3, FewestIsFewest
    <3>3. c * s >= n /\ ~((c - 1) * s >= n)
      <4> HIDE DEF c, n, s
      <4>1. s * c = c * s /\ s * (c - 1) = (c - 1) * s
        BY <2>1
      <4>2. s * c \in Int /\ s * (c - 1) \in Int
        BY <2>1
      <4> QED BY <2>1, <2>3, <3>2, <4>1, <4>2
    <3> QED BY <2>5, <3>3
  <2> QED BY <2>4, <2>5
<1> QED BY <1>1, CliTypeCorrect, PTL

\* The volume count that stands for no -n, and the cap of -l, are such as
\* resolve_volume_sizes takes.
THEOREM DefaultsAreAlwaysAccepted == Spec => []DefaultsAreAccepted
<1>1. CliInv => DefaultsAreAccepted
  <2> SUFFICES ASSUME CliInv, pc = "create", recovery_count > 0
               PROVE  /\ opt.n = None /\ scheme.kind = "uniform" => scheme.count \in 1 .. recovery_count
                      /\ opt.limit_size => scheme.cap > 0
    BY DEF DefaultsAreAccepted
  <2>1. ASSUME opt.n = None, scheme.kind = "uniform"
        PROVE  scheme.count \in 1 .. recovery_count
    <3>1. scheme.count = default_uniform_count /\ recovery_count \in Nat
      BY <2>1 DEF CliInv, SchemeInv, LimitsTypes
    <3>2. Max({recovery_count, 1}) = recovery_count
      BY <3>1, LargerOfTwo
    <3>3. default_uniform_count \in 1 .. recovery_count
      BY <3>1, <3>2 DEF default_uniform_count, Least
    <3> QED BY <3>1, <3>3
  <2>2. ASSUME opt.limit_size PROVE scheme.cap > 0
    <3> DEFINE q == Largest \div slice_size
               m == Max({q, 1})
               w == 2 ^ U32_BITS
    <3>1. scheme.cap = ToU32(m) /\ slice_size \in Nat \ {0} /\ Largest \in Nat
      <4>1. lengths \in Seq(Nat) /\ lengths # <<>>
        BY OptionsAssumption DEF CliInv, LimitsTypes, OptionsTypes
      <4> QED BY <2>2, <4>1, LargestIsNat DEF CliInv, LimitsTypes, ScannedInv, Scanned, SchemeInv, Cap
    <3>2. q \in Nat
      BY <3>1, Quotient
    <3> HIDE DEF q
    <3>3. m \in Nat \ {0}
      BY <3>2, LargerOfTwo
    <3>4. w \in Nat \ {0, 1}
      BY Widths
    <3> HIDE DEF m, w
    <3>5. w - 1 > 0
      BY <3>4
    <3> QED BY <3>1, <3>3, <3>5 DEF ToU32, w
  <2> QED BY <2>1, <2>2
<1> QED BY <1>1, CliTypeCorrect, PTL
=============================================================================
