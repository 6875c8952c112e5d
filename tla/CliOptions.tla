----------------------------- MODULE CliOptions -----------------------------
(***************************************************************************)
(* What main.rs makes of the options of `create`: parse_slice_size,        *)
(* Redundancy, resolve_redundancy, build_volume_scheme, and run_create_cli *)
(* with run_create_with_progress at its end; beside it the callers of the  *)
(* library, who come to InputLimits without options.                       *)
(*                                                                         *)
(* Integers have their widths, scaled down: U64 and U32 are what a u64 and *)
(* a u32 can hold, and K, M and G shift by Shift instead of 10, 20 and 30. *)
(* An option that is not given is None; a number that does not parse is    *)
(* NotANumber.                                                             *)
(***************************************************************************)
EXTENDS InputLimits, Functions, FiniteSetsExt

CONSTANTS
  U64_BITS, U32_BITS,
  Shift,        \* [{"b", "k", "m", "g"} -> Nat]
  Sizes,        \* [n, unit] given to -s
  Redundancies, \* [n, unit] given to -r; "%" is the unit of a percentage
  VolumeCounts, \* given to -n
  CliFileLists  \* lengths of the input files

U64 == 0 .. 2 ^ U64_BITS - 1
U32 == 0 .. 2 ^ U32_BITS - 1

None == -1
NotANumber == -2

ASSUME OptionsAssumption ==
  /\ U32_BITS \in Nat /\ U64_BITS \in Nat /\ U32_BITS < U64_BITS
  /\ \A u \in DOMAIN Shift : Shift[u] \in 0 .. U64_BITS - 1
  /\ {MAX_RECOVERY_BLOCKS + 1, MAX_INPUT_BLOCKS} \subseteq U32
  /\ MAX_INPUT_BLOCKS * (2 ^ U32_BITS - 1) \in U64
  /\ CliFileLists \subseteq Seq(U64) \ {<<>>}
  /\ DOMAIN Shift \cap {"none", "%"} = {}
  /\ \A r \in Redundancies : r.unit \in DOMAIN Shift \cup {"%"}

VARIABLES
  pc,         \* the next step, "create", "refused" or "library"
  opt,        \* the options as typed
  redundancy, \* args.redundancy: Percent or TargetBytes
  scheme      \* [kind, count, cap], None for what it does not have

cliVars == <<pc, opt, redundancy, scheme>>
vars == <<limitVars, cliVars>>

\* What no step of the command line changes.
given == <<opt, lengths, verdict, suggested>>

NoScheme == [kind |-> "none", count |-> None, cap |-> None]

Largest == Max(Range(lengths))

\* clap: -c and -r exclude each other.
CliInit ==
  /\ opt \in [s : Sizes, r : Redundancies \cup {[n |-> None, unit |-> "none"]},
              c : RecoveryCounts, n : VolumeCounts \cup {None},
              single_volume : BOOLEAN, uniform : BOOLEAN, limit_size : BOOLEAN]
  /\ opt.r.n # None => opt.c = 0
  /\ lengths \in CliFileLists
  /\ pc = "slice_size"
  /\ slice_size = 0 /\ recovery_count = 0
  /\ verdict = "none" /\ suggested = 0
  /\ redundancy = [kind |-> "none", n |-> 0]
  /\ scheme = NoScheme

LibraryInit ==
  /\ LimitsInit
  /\ pc = "library" /\ opt = <<>>
  /\ redundancy = [kind |-> "none", n |-> 0]
  /\ scheme = NoScheme

Init == CliInit \/ LibraryInit

Refuse ==
  /\ pc' = "refused"
  /\ UNCHANGED <<given, slice_size, redundancy, recovery_count, scheme>>

\* parse_slice_size: checked_mul.
ParseSliceSize ==
  LET product == opt.s.n * 2 ^ Shift[opt.s.unit]
  IN  /\ pc = "slice_size" /\ opt.s.n \in U64 /\ product \in U64
      /\ slice_size' = product
      /\ pc' = "redundancy"
      /\ UNCHANGED <<given, redundancy, recovery_count, scheme>>

BadSliceSize ==
  /\ pc = "slice_size"
  /\ opt.s.n \notin U64 \/ opt.s.n * 2 ^ Shift[opt.s.unit] \notin U64
  /\ Refuse

MalformedRedundancy ==
  \/ opt.r.unit = "%" /\ opt.r.n \notin U32
  \/ opt.r.unit \in DOMAIN Shift /\ opt.r.n \notin U64

\* Redundancy::from_str.  checked_shl only fails for a shift of 64 or more;
\* the bits that it shifts out are lost.
ParseRedundancy ==
  /\ pc = "redundancy" /\ ~MalformedRedundancy
  /\ redundancy' =
       CASE opt.r.unit = "none" -> redundancy
         [] opt.r.unit = "%" -> [kind |-> "Percent", n |-> opt.r.n]
         [] OTHER -> [kind |-> "TargetBytes",
                      n |-> (opt.r.n * 2 ^ Shift[opt.r.unit]) % 2 ^ U64_BITS]
  /\ pc' = "scan"
  /\ UNCHANGED <<given, slice_size, recovery_count, scheme>>

BadRedundancy == pc = "redundancy" /\ MalformedRedundancy /\ Refuse

BadInput == InvalidSliceSize \/ EmptyFile

\* SourceFile::scan_with_progress on every input.
ScanRefused == pc = "scan" /\ BadInput /\ Refuse

Scan ==
  /\ pc = "scan" /\ ~BadInput
  /\ pc' = "count"
  /\ UNCHANGED <<given, slice_size, redundancy, recovery_count, scheme>>

\* saturating_mul
Saturating(n) == IF n \in U64 THEN n ELSE 2 ^ U64_BITS - 1

\* try_into().unwrap_or(u32::MAX)
ToU32(n) == IF n \in U32 THEN n ELSE 2 ^ U32_BITS - 1

\* Mutant: a fraction of a block is dropped.
MutRedundancyBlocks ==
  IF redundancy.kind = "Percent" THEN Saturating(ScannedBlocks(slice_size) * redundancy.n) \div 100
  ELSE redundancy.n \div slice_size

RedundancyBlocks ==
  IF redundancy.kind = "Percent" THEN DivCeil(Saturating(ScannedBlocks(slice_size) * redundancy.n), 100)
  ELSE DivCeil(redundancy.n, slice_size)

\* recovery_count, as an option or as resolve_redundancy's answer.
WantedCount == IF redundancy.kind = "none" THEN opt.c ELSE ToU32(RedundancyBlocks)

CountRefused ==
  /\ pc = "count"
  /\ \/ redundancy.kind # "none" /\ RedundancyBlocks = 0
     \/ WantedCount > MAX_RECOVERY_BLOCKS
  /\ Refuse

Count ==
  /\ pc = "count"
  /\ redundancy.kind # "none" => RedundancyBlocks # 0
  /\ WantedCount <= MAX_RECOVERY_BLOCKS
  /\ recovery_count' = WantedCount
  /\ pc' = "scheme"
  /\ UNCHANGED <<given, slice_size, redundancy, scheme>>

BadScheme ==
  \/ opt.single_volume /\ (opt.uniform \/ opt.limit_size \/ opt.n # None)
  \/ ~opt.single_volume /\ opt.n # None /\ ~opt.uniform

SchemeRefused == pc = "scheme" /\ BadScheme /\ Refuse

Least(a, b) == IF a <= b THEN a ELSE b

\* Mutant: no -n means 15 volumes, however few blocks there are.
MutDefaultCount == 15

\* recovery_count.clamp(1, 15)
default_uniform_count == Least(Max({recovery_count, 1}), 15)

Cap == ToU32(Max({Largest \div slice_size, 1}))

build_volume_scheme ==
  /\ pc = "scheme" /\ ~BadScheme
  /\ scheme' =
       [kind  |-> IF opt.single_volume THEN "single"
                  ELSE IF opt.uniform THEN "uniform" ELSE "exponential",
        count |-> IF ~opt.uniform THEN None
                  ELSE IF opt.n # None THEN opt.n ELSE default_uniform_count,
        cap   |-> IF opt.limit_size THEN Cap ELSE None]
  /\ pc' = "create"
  /\ UNCHANGED <<given, slice_size, redundancy, recovery_count>>

\* run_create_with_progress, of the command line or of a library caller.
Create == pc \in {"create", "library"} /\ AskLegacy /\ UNCHANGED cliVars

CreateFused == pc = "library" /\ AskFused /\ UNCHANGED cliVars

TryAgain == pc = "library" /\ Retry /\ UNCHANGED cliVars

Next ==
  \/ ParseSliceSize \/ BadSliceSize
  \/ ParseRedundancy \/ BadRedundancy
  \/ Scan \/ ScanRefused
  \/ Count \/ CountRefused
  \/ build_volume_scheme \/ SchemeRefused
  \/ Create \/ CreateFused \/ TryAgain

Spec == Init /\ [][Next]_vars

-----------------------------------------------------------------------------
(* Properties                                                              *)

\* -r gives the fewest blocks that are at least the percentage of the input
\* blocks, or hold the bytes that redundancy stands for; for every input that
\* run_create_with_progress does not refuse, saturation and casts included.
RedundancyIsMet ==
  pc = "create" /\ redundancy.kind # "none" /\ ScannedBlocks(slice_size) <= MAX_INPUT_BLOCKS =>
    LET n == redundancy.n
        enough(c) == IF redundancy.kind = "Percent" THEN 100 * c >= n * ScannedBlocks(slice_size)
                     ELSE c * slice_size >= n
    IN  enough(recovery_count) /\ ~enough(recovery_count - 1)

\* The volume scheme is never one that resolve_volume_sizes refuses, after the
\* index has been written (creator.rs:325-361, 397), but for a count that was
\* given with -n: the count that stands for no -n is not 0 and not above the
\* number of blocks, and the -l cap of a file below one slice is not 0.
DefaultsAreAccepted ==
  pc = "create" /\ recovery_count > 0 =>
    /\ opt.n = None /\ scheme.kind = "uniform" => scheme.count \in 1 .. recovery_count
    /\ opt.limit_size => scheme.cap > 0

VolumesAreWritten ==
  /\ pc = "create" /\ verdict = "ok" /\ recovery_count > 0
  /\ scheme.kind = "uniform" => scheme.count \in 1 .. recovery_count

\* The blocks of the largest volume under the cap: of a uniform layout the last,
\* which has the remainder, too; of an exponential one at least the first, of
\* one block.
LargestVolume ==
  LET blocks == IF scheme.kind = "uniform"
                THEN recovery_count - (scheme.count - 1) * (recovery_count \div scheme.count)
                ELSE 1
  IN  Least(blocks, scheme.cap)

\* In front of the data of a recovery block: the header and the exponent.
RECOVERY_HEADER == 64 + 4

\* main.rs:75: -l will "cap each volume file's size so it does not exceed the
\* largest source file".
VolumesWithinLargest ==
  VolumesAreWritten /\ opt.limit_size /\ slice_size <= Largest =>
    LargestVolume * (RECOVERY_HEADER + slice_size) <= Largest

\* main.rs:520: a -r size that does not fit "overflows u64" and is refused.
TargetIsExact ==
  pc = "create" /\ redundancy.kind = "TargetBytes" =>
    redundancy.n = opt.r.n * 2 ^ Shift[opt.r.unit]
=============================================================================
