----------------------------- MODULE InputLimits -----------------------------
(***************************************************************************)
(* The limits on the input of a create, and the slice size that            *)
(* TooManyInputBlocks suggests.  The caller goes through                   *)
(* run_create_fused, which checks the lengths that fs::metadata gives, or  *)
(* scans every file first (SourceFile::scan_with_progress) and goes        *)
(* through run_create_with_progress; refused for too many blocks, it tries *)
(* again with the suggested slice size.                                    *)
(***************************************************************************)
EXTENDS Integers, Sequences

CONSTANTS
  MAX_FILES,
  MAX_INPUT_BLOCKS,
  MAX_RECOVERY_BLOCKS,
  FileLists,      \* lists of file lengths
  SliceSizes,     \* slice sizes a caller begins with
  RecoveryCounts

ASSUME LimitsAssumption ==
  /\ {MAX_FILES, MAX_INPUT_BLOCKS, MAX_RECOVERY_BLOCKS} \subseteq Nat \ {0}
  /\ FileLists \subseteq Seq(Nat)
  /\ SliceSizes \subseteq Nat /\ RecoveryCounts \subseteq Nat

DivCeil(a, b) == (a + b - 1) \div b

SumOf(f) ==
  LET sum[n \in 0 .. Len(f)] == IF n = 0 THEN 0 ELSE sum[n - 1] + f[n]
  IN  sum[Len(f)]

VARIABLES
  lengths,   \* of the input files
  slice_size,
  recovery_count, \* recovery_block_count
  verdict,   \* "none" before the answer, "ok", or the name of the error
  suggested  \* of the last TooManyInputBlocks, 0 for none

limitVars == <<lengths, slice_size, recovery_count, verdict, suggested>>

LimitsInit ==
  /\ lengths \in FileLists
  /\ slice_size \in SliceSizes
  /\ recovery_count \in RecoveryCounts
  /\ verdict = "none" /\ suggested = 0

\* Mutant: the tail of a file is not counted.
MutFloorBlocks(s) == SumOf([i \in DOMAIN lengths |-> lengths[i] \div s])

\* total_input_blocks, from the lengths.
StatBlocks(s) == SumOf([i \in DOMAIN lengths |-> DivCeil(lengths[i], s)])

\* The number of slices that a scan of a file of n bytes hashes: par_chunks
\* of the mapping, or the reads up to the first short one.
ScannedSlices(n, s) == n \div s + (IF n % s = 0 THEN 0 ELSE 1)

ScannedBlocks(s) == SumOf([i \in DOMAIN lengths |-> ScannedSlices(lengths[i], s)])

\* Mutant: a step is added to be safe.
MutRoomToSpare == DivCeil(DivCeil(SumOf(lengths), MAX_INPUT_BLOCKS), 4) * 4 + 4

Suggested == DivCeil(DivCeil(SumOf(lengths), MAX_INPUT_BLOCKS), 4) * 4

InvalidSliceSize == slice_size = 0 \/ slice_size % 4 # 0

EmptyFile == \E i \in DOMAIN lengths : lengths[i] = 0

\* run_create_fused, in the order of its checks.
FusedVerdict ==
  IF lengths = <<>> THEN "NoInputFiles"
  ELSE IF Len(lengths) > MAX_FILES THEN "TooManyFiles"
  ELSE IF recovery_count > MAX_RECOVERY_BLOCKS THEN "TooManyRecoveryBlocks"
  ELSE IF InvalidSliceSize THEN "InvalidSliceSize"
  ELSE IF EmptyFile THEN "EmptyFile"
  ELSE IF StatBlocks(slice_size) > MAX_INPUT_BLOCKS THEN "TooManyInputBlocks"
  ELSE "ok"

\* Every file is scanned before run_create_with_progress sees any of them.
LegacyVerdict ==
  IF lengths # <<>> /\ InvalidSliceSize THEN "InvalidSliceSize"
  ELSE IF EmptyFile THEN "EmptyFile"
  ELSE IF lengths = <<>> THEN "NoInputFiles"
  ELSE IF Len(lengths) > MAX_FILES THEN "TooManyFiles"
  ELSE IF recovery_count > MAX_RECOVERY_BLOCKS THEN "TooManyRecoveryBlocks"
  ELSE IF ScannedBlocks(slice_size) > MAX_INPUT_BLOCKS THEN "TooManyInputBlocks"
  ELSE "ok"

Answer(v) ==
  /\ verdict = "none"
  /\ verdict' = v
  /\ suggested' = IF v = "TooManyInputBlocks" THEN Suggested ELSE suggested
  /\ UNCHANGED <<lengths, slice_size, recovery_count>>

AskFused == Answer(FusedVerdict)

AskLegacy == Answer(LegacyVerdict)

\* "retry with slice_size >= {suggested}"
Retry ==
  /\ verdict = "TooManyInputBlocks"
  /\ verdict' = "none"
  /\ slice_size' = suggested
  /\ UNCHANGED <<lengths, recovery_count, suggested>>

-----------------------------------------------------------------------------
(* Properties                                                              *)

\* No slice size below the suggestion would have been accepted: following it
\* never makes slices larger than they have to be.  And with a single file the
\* suggestion is accepted: one retry is enough.
SuggestionIsLeast ==
  verdict = "TooManyInputBlocks" =>
    /\ \A s \in 1 .. suggested - 1 : s % 4 = 0 => StatBlocks(s) > MAX_INPUT_BLOCKS
    /\ Len(lengths) = 1 => StatBlocks(suggested) <= MAX_INPUT_BLOCKS

\* The two ways into a create accept the same requests, though one counts the
\* blocks by length and the other those it has hashed, and they check in
\* different orders; so a set does not depend on the entry point.
EntryPointsAgree ==
  \A v \in {"ok", "TooManyInputBlocks"} : FusedVerdict = v <=> LegacyVerdict = v

\* creator.rs:209: "Smallest multiple-of-4 slice_size keeping total slices <=
\* MAX_INPUT_BLOCKS."
SuggestionFits ==
  verdict = "TooManyInputBlocks" => StatBlocks(suggested) <= MAX_INPUT_BLOCKS
=============================================================================
