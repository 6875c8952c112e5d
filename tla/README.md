# A TLA+ model of par2rust

par2rust creates PAR2 recovery sets: it hashes the slices of the input files,
computes Reed-Solomon recovery blocks over GF(2^16) and writes an index file and
volume files. This directory holds TLA+ modules that model it, TLC
configurations that check them on small instances, and proofs, checked by
TLAPS, of theorems that hold for every value of the constants. `PROJECT.json`
lists the components, runs, mutants, hazards, findings and theorems, and maps
each definition to the lines of the source it stands for.

## Inventory

| Component | State it keeps | Operations | Hard behaviour | Correct when |
|---|---|---|---|---|
| Create pipeline (`creator.rs`, `run_create_with_progress`) | how far the call is, what is on disk, what was announced | validate, write the index, resolve volume sizes, encode, write volumes on the rayon pool, collect the Results | volumes fail or finish in any order; kill; power failure; another run over the leftovers | Ok means complete; events are true; no torn file; nothing goes on after the return |
| Fused create (`run_create_fused`) | the same, plus the current file and the closures of `rayon::join` | scan beside encode per file, serial volumes, the fallback | the fallback starts over in the middle of a run; the counter shared by the files | the same, plus: nothing is written before all files are through; right column offset per file |
| Volume layout (`resolve_volume_sizes`, splitters, naming) | sizes, running sums | one loop per scheme, nested caps | boundaries: u16 exponents, multiples of a cap, remainders, termination | consecutive ranges that cover all blocks, within every cap, no panic |
| Output writes (`write_atomic`) | tmp file, final file | create, write_all, sync_all, rename | crash or error between any two calls | a final name never holds half a file |
| Encode loops (`encode_all_recovery_blocks`, `encode_file_slices_into_buffers`) | recovery buffers, slice buffer, counters | load and pad a slice, accumulate it chunk by chunk and window by window | pool threads on chunks; reused buffers; windows that do not divide; order of the files | each word added once, with the right column |
| mmap scan (`source.rs`, `scan_via_mmap`) | two relaxed atomics | hash a slice, count it, maybe tell the reporter | racing workers, stale loads, spurious failures | no tick twice, the last one told, monotonic |
| CLI progress bars (`main.rs`, `CliReporter`) | length and position of two bars, base of the cumulative one | on_event | ticks out of order; files scanned by either path | each bar stays within its length, the scan bar above its base, the encode bar ends full |
| CLI options (`main.rs`) | none | parse sizes and redundancy, count the recovery blocks, choose the scheme, `-l` cap | overflow, saturation, casts to u32, zero | a number is exact or refused; `-r` gives enough blocks and no more; defaults are accepted later |
| Input limits (`creator.rs`, `source.rs`) | none | refuse, suggest a slice size | rounding; two entry points that check in different orders | both accept the same requests; the suggestion suffices and is the least |
| BufReader scan (`scan_via_reader`) | slice buffer, reader position, 16 KiB prefix, two digests | read until full, pad, hash, tick | short reads; a file that ends on a slice boundary; the reused buffer | same checksums, hashes and ticks as the mmap scan |
| Galois field (`galois.rs`) | log and antilog tables | build, multiply, power, inverse | the sentinels for 0; sums and exponents at the order of the field | the product of GF(2^n) |
| Reed-Solomon (`reedsolomon.rs`) | bases, exponents | walk the coprime logarithms, coefficient | the last base there is; exponents that wrap | bases of full order; what is lost can be solved for |
| Coefficient tables (`galois_simd.rs`, `gfni.rs`) | byte, nibble and affine tables | build for a coefficient, apply to a symbol | orders of bits and bytes; shifts that cross bytes | every path gives the product of the field |
| SIMD kernels (`galois_simd.rs`, `gfni.rs`) | none | pick a kernel, blocks, tail in a narrower kernel | lengths that are no multiple of a block; shuffles within and across lanes; features of the tail's kernel | every byte once, in its place, within the buffers, with instructions that exist |
| Packets (`format.rs`, `packet/`) | none | frame a body; main, description, checksum, recovery, creator and comment packets; put an index or a volume together | lengths and padding; links by hash; an order of files that is recorded once | a reader with one file can frame it, describe the sources and decode |
| Concurrent and repeated creates (`main.rs`, `source.rs`, `creator.rs`) | the directory: names, inodes, mappings | list the inputs, stat, map, scan, encode, write through a tmp name | the output of one create is the input of another; two creates share tmp names; a source changes between its scan and its encode | what is recorded of a file is one version of it; the last to finish leaves a whole set |
| Multi-buffer MD5 (`md5_mb_neon.rs`) | four registers of four lanes | digest4: full blocks, padding, extraction | two padding blocks from a tail of 56 bytes on; 64 unrolled steps | in each lane the MD5 of its buffer |
| MD5 (`md5_impl.rs`), errors, build script | none that lasts | wrap an external digest; types; compile vendored C when a feature is on | - | - |

How they interact: the library has two entry points. `run_create_with_progress`
takes files that `SourceFile::scan_with_progress` has scanned, and this is how
`main.rs` uses it: options, scan of one file after the other, count and scheme
from the scan, create. `run_create_fused` takes paths and scans beside the
encode. Both call the volume layout, an encode loop and `write_atomic`. An encode
loop asks `RsEncoder` for the coefficients, builds their tables once per pair of
a block and a slice and calls the kernel that `detect_dispatch` has picked for
the process. The scan and both pipelines call back into the `ProgressReporter`
from whatever thread they are on. `digest4` is called from a benchmark only. The pool is rayon's global one. The
only persistent state is the output directory, which may be the directory of the
sources as well: `-R` lists whatever it finds there.

## Modules

| Module | Models | State and actions |
|---|---|---|
| `VolumeLayout` | `resolve_volume_sizes`, `exponential_split`, `uniform_split`, `cap_volume_sizes`, the naming loop | one action per loop iteration; `pc` names the loop; nested `Limited` boxes are flattened into the list `caps` |
| `AtomicWrite` | `write_atomic` and the directory | `io[n]` is the next call of the writer of `n`; `disk` and `tmp` hold which run wrote a file and whether it is whole and synced; `settled` is what a name falls back to if its rename is undone |
| `RecoverySet` | what a caller may rely on (abstract) | files appear whole and one at a time, the index first; Ok, error, crash |
| `CreatePipeline` | `run_create_with_progress` over `AtomicWrite` | `stage` is how far the call is; at most `Threads` volumes are under way; `Kill` and `PowerFailure` at any point; `KeepsPromise` maps it to `RecoverySet` |
| `FusedCreate` | `run_create_fused` and its fallback, on top of `CreatePipeline` | `file` and `arms` are the loop over the files and the closures of `rayon::join`; after a failed mapping the actions of `CreatePipeline` take over |
| `EncodeBuffers` | both encode loops, for sources that were scanned with any slice size | a word of a buffer is the set of terms XORed into it; one `Accumulate` per call of the kernel |
| `Packets` | every packet, and how an index and a volume are made of them | no state; a body is a sequence of fields and their lengths, MD5 is injective |
| `RecoveryFiles` | the files of a create, from `EncodeBuffers` and `Packets` | writes the index and the volumes when each pipeline does; a reader of one file (`StandsAlone`) is the reference |
| `SharedDirectory` | creates and an editor in one directory | names lead to inodes; one action per stat, mapping, scan, encode, create, write, rename; `disturbed` is a ghost that tells whom somebody else interfered with |
| `ScanProgress` | the tick protocol of `scan_via_mmap` | `past` holds the values `last_emitted` has had, so that a relaxed load may return an old one; one action per atomic operation |
| `ScanBar` | `CliReporter` on the events of a whole create | composes `ScanProgress` and `ScanReader`, either for each file, with the two bars |
| `ScanReader` | `scan_via_reader`, `read_full` | a byte is its position in the file, a digest the bytes it was fed; `Read(n)` hands over any number of bytes |
| `InputLimits` | the checks at the head of both entry points, the suggested slice size | one action per entry point, and the caller's retry |
| `CliOptions` | `run_create_cli` up to the create, with the parsers it calls, on top of `InputLimits` | the caller is a library or the command line; one action per step, one for each way to refuse; integers have a width |
| `GaloisField` | `gf16_tables`, `gf_mul`, `gf_pow`, `gf_inv` | a word is the set of the places of its 1 bits, logarithms and exponents are numbers; the loop that fills the tables; the arithmetic as operators |
| `ReedSolomon` | `RsEncoder`, on top of `GaloisField` | the walk over the logarithms; `Accumulated` adds up one symbol each of the lost slices |
| `CoeffTables` | `CoeffSimdTables`, `GfniTables` and what a path makes of a symbol, on top of `ReedSolomon` | one step builds the tables of a coefficient of the encoder for a path |
| `SimdKernels` | `detect_dispatch`, the vector loops and their tails | a product byte is the positions of the two bytes it came from; one action per block |
| `Md5Neon` | `digest4` | a word is the set of its 1 bits; one action per block of the four streams |
| `CreateProofs`, `ScanProofs`, `VolumeLayoutProofs`, `RecoveryFilesProofs`, `SharedDirectoryProofs`, `CliOptionsProofs`, `GaloisProofs` | theorems about the modules they are named for, `CreateProofs` about `CreatePipeline` and `FusedCreate`, `ScanProofs` about `ScanProgress`, `ScanReader` and `ScanBar`, `GaloisProofs` about `GaloisField`, `ReedSolomon`, `CoeffTables` and `SimdKernels` | |
| `NatFacts` | induction, recursion and running sums, quotients, remainders and division rounded up | |
| `MC...` | values of the constants for TLC | |

Definitions named `Mut...` are never part of a specification. Each is a
plausible mistake in the definition next to it; replacing that definition by it
makes TLC find the property named in `PROJECT.json` violated, which shows that
the property depends on the code.

### Abstractions

* A file's content is the run that wrote it. A volume's name is its
  `(first_exp, count)` pair, which is all `derive_volume_filename` makes it from.
* `CreatePipeline` takes from the encode only the number of input blocks and the
  events, `EncodeBuffers` has the loops themselves; `layout` is what
  `VolumeLayout` computes.
* `encode_failed` of `run_create_fused` is not a variable: the closure that could
  set it always returns Ok.
* Validation in both pipelines either passes or refuses; the conditions are in
  `InputLimits`.
* The file system is an assumption (marked external): synced content survives a
  power failure, unsynced content may be torn, a rename that was not followed by
  a sync of the directory may be undone, and `rename` is atomic.
* `EncodeBuffers` takes a kernel as `out ^= coefficient * input`. That this is
  what it does is shown in two halves: `SimdKernels` follows the bytes of a
  symbol through the shuffles, with the registers' real width and the shuffles'
  real indices, and `CoeffTables` shows what the tables make of one symbol.
* The runs of `GaloisField`, `ReedSolomon` and `CoeffTables` are over GF(2^8)
  where the code has GF(2^16); the theorems are about every width and primitive
  polynomial. What carries over is the code's proportions: a symbol is two bytes, a
  byte two nibbles, an affine matrix a byte of bytes; and, for the bases, that
  the order of the group (255 = 3 * 5 * 17, as 65535 = 3 * 5 * 17 * 257) is a product
  of distinct Fermat primes, so that exactly half of the logarithms are coprime
  to it. That 0x1100B is primitive, and that `MAX_INPUT_BLOCKS` = 32768 is exactly the
  number of bases of GF(2^16), are computed by TLC at every run of `galois_kernels`
  (`CodeIsPrimitive`): the theorems hold of the code's own constants.
* A recovery block is linear in the slices, so whether lost slices can be solved
  for is whether any contents of them but 0 give recovery blocks of 0:
  `VolumeRepairs` says so of one symbol each.
* The integers of `CliOptions` have 8 bits for a u64 and 5 for a u32, and K, M
  and G shift by 2, 4 and 6; u64 is wider than u32 by enough for a cast to clamp. The
  header of a recovery packet has its real size (`RECOVERY_HEADER`).
* The intrinsics are modelled from their use (marked external).
* In `SharedDirectory` a block of a file is one slice, and its first block is also
  its first 16 KiB. Mappings succeed, one pass over a file sees one version of
  it (an editor writes between two passes, not within one), and the volumes are
  written one after the other. A read of a mapping that was truncated kills the
  process, as SIGBUS does.
* `Md5Neon` has the real words, constants, shifts and blocks; a buffer is short
  enough for two of the eight bytes of its length in bits, and the other six are 0.
* `total_input_blocks`, `first_exp` and the other counters are integers without a
  width: they are bounded by 65 535 (or by the naming loop's check, which is
  modelled), far from the limits of u32 and u64.

## Runs

| Run | Instance | Shows |
|---|---|---|
| `volume_layout` | totals 1 to 12, four kinds of schemes, up to two `Limited` layers, invalid schemes too | `CoversAllBlocks`, `WithinCaps`, `SplitShape`; `Answered`: every valid request gets its volumes, every other one is refused |
| `create` | two runs over one directory, each through either entry point; three layouts (3 volumes, 1 volume, none), files of 1 and 2 slices of which the second may fail to map, 2 threads | `FinalWhole`, `OkMeansComplete`, `AnnouncedInPlace`, `NoWriterOutlivesTheCall`, `NoOutputBeforeAllScanned`, `RunEnds`, refinement of `RecoverySet` |
| `shared_directory` | two creates of either pipeline, with and without `-R`, one volume each and not always the same; one source with four versions (one is empty), edited once; outputs of two written blocks; kills | `SetIsOfOneVersion`, `FailsOnlyIfDisturbed`, `SameRequestEndsWhole`, `VolumesFitTheIndex` |
| `recovery_files` | files of 5, 3 and 3 words, two of which may have the same id, in slices of 3, scanned in slices of 2, 3 or 4; every order of the files; 5 buffers in chunks of 2, 2 and 1; windows of 1, 2 and 3; three layouts; three comments | `SlicesEncodedOnce`, `VolumesStandAlone`, `BlocksOnce`, `SurvivesABurst`, `SetIsWritten` |
| `encode_file_order` | as above | violated: with the files in another order than their ids the recovery data does not fit the main packet |
| `scan_bar` | 2 files, each over a mapping (3 workers, 5 slices, stride 2) or through a reader (1 to 10 bytes, slices of 1, 2, 3, 4 and 7, a prefix of 5, stride 2) | `ToldOnce`, `TotalIsTold`, `BarInBounds`, `ReaderMatchesMmap`, `TicksAreTold`, `ScanEnds` |
| `scan_ticks_order` | 3 workers, 1 file | violated: the reporter can hear 4 before 2 |
| `requests` | library callers: lists of up to 4 lengths, limits of 3 files, 8 input and 15 recovery blocks; command lines: sizes and redundancies on both sides of the widths, six lists of files | `EntryPointsAgree`, `SuggestionIsLeast`, `RedundancyIsMet`, `DefaultsAreAccepted` |
| `suggested_slice_size` | as above | violated: with several files the suggestion may be refused again |
| `cli_redundancy_size` | as above | violated: a `-r` size loses its top bits |
| `cli_limit_size` | as above | violated: with `-l` a volume is larger than the largest source |
| `galois_kernels` | GF(2^8), all products and powers; requests of 4 slices at both ends of the exponents, 128 (all the bases) and 129 (one too many); lost slices {128}, {2, 3} and {1, 128} with all contents; every path and symbol, a neighbour of zeros or of ones; 30 lengths around the blocks of all kernels, all sets of features; 15 lengths of MD5 batches around the boundaries of the padding with no, one and two full blocks | `ArithmeticIsExact`, `BasesGenerate` (the last base is found before the walk panics), `VolumeRepairs`, `PathsAgree`, `Defined`, `SameAsScalar`, `DigestsAreScalar` |

`volume_layout` and `create` check a type invariant too; in the other modules a
wrong type is an error of TLC's evaluation or of the property that reads it.

Why the bounds are enough. Two runs are what it takes for leftovers of one to
meet the other, with layouts that share the index and differ in the volumes;
three volumes on two threads give a volume that fails while another is written
and a third has not begun. A fallback can come after a file that was scanned and
encoded, and its run can follow or precede one of either entry point. Five
slices with stride 2 have two ordinary ticks and a last one that is not a
multiple of the stride; three workers can hold all of them at once; the second
file starts from what the first left on the bar. Totals up to 12 reach the fifth
exponential volume, every remainder of a division by up to 5, and entries that
are multiples of a cap. The encode instance has full, partial and single slices,
a short last chunk and windows that do and do not divide a slice; two equal files
are what it takes for two with one id, comments of 1, 3 and 3 characters with one
and two UTF-16 units each give every padding. Two creates are what it takes
for one to be the other's leftover, rival or input; an edit can fall between any
two reads of either; two blocks per output let a file be half written; one
volume of each of two names makes them write the same files or not. Creates are
symmetric. The lengths of
the streamed scan end before, at and after a slice boundary and before and after the
end of the prefix, with slices shorter and longer than the prefix. The lengths
of `requests` are 0, below, at and just above multiples of the slice sizes, and
there is a list with one file too many. The lengths of `galois_kernels` leave every
kernel a tail that is empty, a symbol, all but a symbol of a block, and a whole
block of the narrower kernel with and without a rest.

What the properties of `shared_directory` except, and why:

* `SetIsOfOneVersion`: the CLI writes its index before it encodes. When `-R` made
  an older index an input, the create scans the old one and encodes the one it
  has just written. That is the only file a create spoils for itself.
* `FailsOnlyIfDisturbed`: `-R` also lists the tmp file that a killed create left
  of its index. The CLI scans it, its own index takes the name away, and the
  encode that opens it again fails, with the index already replaced. An empty
  leftover is refused as an empty file before that.
* `SameRequestEndsWhole` holds once all creates have returned. While both run,
  either may rename a file that the other has just truncated, so a torn file may
  stand under a final name, and one of the two may fail. A create that is killed
  in this state leaves it there; `FinalWhole` of the run `create`, with one
  process at a time, is not about this.
* `VolumesFitTheIndex`: the set id only depends on names, lengths and first 16 KiB.
  A volume left by an earlier create passes for one of the new set when a source
  was edited beyond that at the same length (`LooksUnedited`), and its recovery
  data is then of the old file. Nor does it fit when a create has read of a file what
  somebody else was changing. TLC finds the property violated as soon as one of these
  exceptions is taken away. `edits`, a ghost, remembers what sources have held.

`VolumesStandAlone` is an equivalence: the three conditions it names are what a
caller must see to, and without any one of them some volume is not readable. The
code checks none of them and returns Ok.

`VolumeRepairs` speaks of recovery blocks in a row. Blocks with gaps between
their exponents do not always suffice (in GF(2^4) the rows 0 and 5 are linearly
dependent for the logarithms 1 and 4): that is a property of the PAR2 matrix, not
of this code, and no property is stated about it.

`CHECK_DEADLOCK FALSE` stands where the modelled function returns: nothing
happens after the last run, the end of a scan or the last file. That the
functions do not stop earlier is what `RunEnds`, `ScanEnds`, `SetIsWritten` and
`Answered` say; `shared_directory` has only safety properties.

### Fairness

Weak fairness of the steps of a call: system calls return and the rayon pool runs
every job it was given. Nothing is assumed of starting a run, of kills or of
power failures. For the scan, weak fairness per worker and strong fairness of a
successful exchange: `compare_exchange_weak` may fail for no reason and relaxed
loads may be stale, but not for ever. The splitters, the encode loops and
the writing of the files are code that runs on: weak fairness of the next step
(`FFairSpec`). In `BarFairSpec` the calling thread goes on from file to file and
reads on, and the pool does as in the scan.

### Findings

The five violated properties are sentences of the repository that the code does
not keep; `PROJECT.json` quotes them.

* The reporter can hear ticks out of order (`CallbacksMonotonic`).
* The recovery data is that of the caller's order of the files, the main packet
  records that of the file ids (`RecoveryMatchesMainPacket`).
* The suggested slice size does not count that every file rounds up its last
  slice (`SuggestionFits`; it is never larger than needed, and for one file it is
  right: `SuggestionIsLeast`).
* `checked_shl` does not notice that a `-r` size loses bits (`TargetIsExact`).
* `-l` counts the recovery data of a volume and not what is around it: a volume
  file can be larger than the largest source (`VolumesWithinLargest`). The property
  counts 68 bytes for each recovery packet and leaves out the critical packets, so it
  asks for less than the sentence does, and says nothing of a source below one
  slice, which no volume can keep to.

Other places where what the source says and what it does differ, met while
modelling and stated by no property:

* After a fallback the reporter hears `EncodeStarted` twice in one call
  (creator.rs:519 and, through the legacy pipeline, 618).
* A tick that comes late leaves the position of the bar behind the file it was
  about, and the base of the next file is read back from there: main.rs:418-421
  says the next file picks up where this one left off.
* The branch that picks the 512-bit kernel does not check `ssse3`, which the
  kernel of its tail requires (galois_simd.rs:611, gfni.rs:395-397). Nothing
  follows from it where AVX-512 implies SSSE3, which the model takes for granted
  as the source does (`Defined`).

## Proofs

What TLAPS proves, for every value of the constants allowed by the modules'
assumptions. `PROJECT.json` lists the theorems with the property each states.

### Along which invariants

None of the safety properties is inductive. Each module states an inductive
invariant, shows that the initial states have it and that every action keeps it
(one step per action, one lemma where several actions do the same), and derives
the properties from it.

* `CreateProofs`: first the pipeline of `run_create_with_progress` alone
  (`TypeCorrect`, `FinalFilesWhole`, `OkIsComplete`, `EventsAreTrue`,
  `NothingOutlivesTheCall`, `VolumesFollowTheIndex`, the refinement
  `PipelineKeepsPromise`), then both entry points in any order, with the fallback
  (`FusedTypeCorrect`, `FusedFinalFilesWhole`, `FusedOkIsComplete`,
  `FusedEventsAreTrue`, `NothingOutlivesEitherCall`, `NothingWrittenBeforeScan`, the
  refinement `FusedKeepsPromise`). What is on disk is covered by `WholeInv` (what a
  writer has under the tmp name at each call, and that `settled` is intact too),
  `WritersInv` (which files are the current run's, from `io` and `announced`) and
  `SettledInv` (nothing on disk is newer than the run, and what a rename falls back
  to is not newer than what it replaced, which is what the crash of `RecoverySet`
  needs). Whichever entry point a step belongs to, it does one of six things to the
  writers and the directory: begin a call, take up an output, make one of the calls
  of `write_atomic`, report, touch nothing, crash. There is a lemma for each, and the two state machines only
  differ in `StageInv`, `FStageInv` (which writers may be where at each stage) and
  `ScanInv` (how the two closures of `rayon::join` and the shared counter stand to
  the file at hand: its first column is `Offset[file]`).
* `ScanProofs`: the tick protocol of one file (`ScanTypeCorrect`, `NoTickTwice`,
  `LastTickIsTold`, `LastEmittedNeverFalls`), then a whole create, with files scanned
  by either path (`NoTickTwiceInAnyFile`, `LastTickOfEveryFile`,
  `LastEmittedNeverFallsInAFile`, `BarsStayInBounds`, `ReaderComputesTheSame`,
  `ReaderTicksAreTold`). `CountInv`: the counts that workers hold are distinct.
  `PastInv`: the values `last_emitted` has had are bounded by it, each was told or
  is about to be. `LastInv`: where the last count is when all slices are counted.
  `BufferInv`: which bytes of the file are in the reused buffer, and how many were
  read. `ResultsInv` and `TicksInv`: what was fed to the digests and told for the
  slices so far. `RoomInv`: the bar has room for the rest of the file above its
  base, which is where a late tick could do damage.
* `VolumeLayoutProofs`: `LayoutTypeCorrect`, `NamingNeverPanics`,
  `EveryCapHolds`, `EveryBlockInOneVolume`, `UncappedShape`. Sums are spoken of without
  recursion: `Prefix(e, s, n)` says that the function `e` gives the sums of the
  prefixes of `s`. `SumInv` states per loop that what was pushed and what remains
  make up the total, `CapInv` which layers' caps hold already, `NameInv` that
  `firstExp` is the prefix sum of the volumes named so far, `ShapeInv` what each
  splitter has pushed so far.
* `RecoveryFilesProofs`: of the encode loops `EverySliceIsEncodedOnce` and
  `EverySliceIsEncoded`, of the files `AVolumeSurvivesABurst`,
  `EveryBlockIsInOneVolume` and `AVolumeStandsAlone`. `PlaceInv` ties the counters of
  both forms of the loop to
  the list of slices, `ChunkInv` says where in its window each chunk is, and `BufInv`
  gives each word of each buffer exactly, in the middle of a slice too: the terms of
  the slices done, and that of the slice at hand if the word's chunk is past it
  (`Added`). `WrittenInv` says where the packets of a written volume are
  (`CarriesBlocks`): the index, which has no recovery packet in it, then its own
  packets with consecutive exponents, then the index. `BlocksBefore` grows by the
  size of each volume, so the ranges of exponents do not meet. `ContentInv` says what
  is in the packets: the index is that of the sources as they are given, and a
  volume has the buffers as the encode left them. `AVolumeStandsAlone` is both
  directions of an equivalence. `FileOf` gives the packets of a volume as a set,
  type by type; each is sound, its length a multiple of 4 whatever the names and
  comments are (`Fours`, `BytesIn`). With equal ids one description is missing or
  stands twice, with another slice size the checksums are of other slices
  (`DescribedTellsApart`, `DescribedWhenScanned`). Otherwise a reader arrives at the
  slices in the order of the ids (`ReaderSlicesAre`), and because each slice's
  term tells which slice it is, the recovery data fits exactly when that was the
  order of the sources (`OrderIsSeen`).
* `SharedDirectoryProofs`: `RecordsOneVersion`, `UndisturbedSucceeds`, `LeftoversFit`,
  `SameRequestsEndWhole`, for any number of creates and edits. `DirInv`: no two names
  lead to one inode. Per create: what it has read of a file is what the file still
  is, unless somebody disturbed it or the file is the index it replaces itself
  (`ReadsOf`, `Fresh`, `OwnIndex`); its inputs are there when it has to open them
  (`PresentTo`); what it writes to is under one of the two names of its output
  (`WritesOf`). Per file: it consists of blocks that creates wrote to this output,
  and what is missing somebody is still to write (`FileInv`, `Expected`), which is
  what makes a tmp file that two creates share end whole. What was read of a source
  is a version that the source has held (`VersionsInv`), so that a volume and an index
  with the same set id were made of the same version or of two that look alike. The proofs separate what
  an action does to the directory from what it does to the create, and treat
  the other creates alike (`Beside`).
* `CliOptionsProofs`: `CliTypeCorrect`, `EntryPointsAlwaysAgree`,
  `SuggestionIsAlwaysLeast`, `RedundancyIsAlwaysMet`, `DefaultsAreAlwaysAccepted`. `CliInv` keeps what each step of the command line has
  established for the later ones: a usable slice size from the scan on, the answer
  of `resolve_redundancy` from the count on, the scheme made of it. The rest is the
  arithmetic of roundings, saturation and casts, for every width of the integers.
* `GaloisProofs`: `LogarithmsMultiply`, `BasesAreGenerators`, `AnyLossIsRepaired`,
  `PathsAreTheField`, for every field of a primitive polynomial and every request.
  `TablesInv` says that the tables hold the powers of 2 (`Walk`) up to the loop's
  counter. Horner's rule makes the product linear in both factors (`PolyMulLeft`,
  `PolyMulRight`) and exponents add up (`WalkAdds`). Because 2 has the full order, the
  walk is at no element twice and never at 0, so by counting it is at every other
  element (`WalkOnto`): an element is a power of 2, its logarithm is what the table
  has, and a sum of logarithms, reduced, that of the product (`MulIsExact`).
  `BasesInv` says which bases were taken. A logarithm coprime to the order can be
  cancelled modulo the order (`CoprimeCancels`, from Euclid's algorithm as `gcd` runs it),
  so the powers of a base are all different. Sums over a set are the fold of the
  library; they do not depend on the order (`TotalStep`, `SumsAgree`) and combine
  (`TotalCombines`). If n consecutive rows vanish on n slices, the next row less the
  base of one slice times this row vanishes on the others, n - 1 times (`Eliminate`),
  so all slices are 0 (`VandermondeRegular`): this needs distinct bases only, not
  their order. A symbol is the sum of its bytes, nibbles and bits, and a bit of a
  product the parity of the columns that have a 1 in its row (`BitIsParity`), which
  gives the tables.
* Of the kernels, in the same module, `KernelsAreDefined` and `KernelsAreScalar`, for
  buffers of any even length. `BlockInPlace` follows every byte of a block of each kernel through the
  shuffles and back (`NeonInPlace`, `ShuffledInPlace`, `Avx512InPlace`); `PassInv` and
  `FeatureInv` say how far the loops are and what the processor has.
* `NatFacts`: what the others need of the natural numbers. The provers cannot
  instantiate the library's induction rules, which take a predicate as a parameter;
  `NatInSet` states induction for a set instead, and is proved from the well-founded
  order of the numbers. With it, recursive functions over numbers can be
  unfolded (`RunningSumsExist`, `NatRecursionExists`): the offsets of `FusedCreate`, the
  columns and concatenations of `EncodeBuffers`, `BlocksBefore`, the sum of the
  lengths, Horner's rule, the powers, the folds.

### From which assumptions

Each is an `ASSUME` that TLC evaluates on the instances, and each is what the
program makes true before the modelled code runs:

* `DirectoryAssumption`: at least one source, finitely many of them (the caller gives a
  list), the names of sources and outputs differ; contents are sequences of blocks.
* `OptionsAssumption`: u32 is narrower than u64, the shifts of K, M and G are less than
  the width of u64, the two limits fit a u32 (65 535 and 32 768 in the code) and the
  most blocks of the largest slice size a u64 (2^15 * (2^32 - 1)), the CLI has at
  least one file and lengths are u64.
* `EncodeAssumption`: at least one file, none of them empty, a slice size, window,
  number of threads and of recovery blocks that are not 0. `run_create` returns
  `NoInputFiles` without a file (creator.rs:193).
* `FilesAssumption`: a layout has no empty volume and adds up to the recovery count,
  which is what `EveryBlockInOneVolume` and `LayoutTypeCorrect` show of
  `resolve_volume_sizes`; equal file ids mean equal names and lengths; the files are
  numbered in the order of their ids, which is no restriction because they are
  given to the create in any order.
* `FieldAssumption`: the polynomial has the degree FIELD_BITS and 2 has the order
  FIELD_LIMIT modulo it, which is what primitive means. `EncoderAssumption`: the limit on
  input blocks is the number of logarithms coprime to the order, and a request keeps
  to the other limit, as the creates have checked (creator.rs:199). `CoeffAssumption`: a
  symbol is two bytes of two nibbles each.
* `KernelAssumption`: buffers hold whole symbols, and AVX2 and GFNI come with SSSE3,
  which the source says it takes for granted (galois_simd.rs:625, gfni.rs:396).

### What is only model-checked, and why

* Liveness under fairness (`Answered`, `RunEnds`, `ScanEnds`, `SetIsWritten`): fairness
  speaks of `ENABLED`, which is out of the prover's reach.
* `DigestsAreScalar`: it states digests by value, which are 64 steps of arithmetic to a
  block, and the addition of 32-bit words is a RECURSIVE operator.
* The five violated properties, whose runs are counterexamples.

`VolumesFollowTheIndex`, `LastEmittedNeverFalls`, `NamingNeverPanics`,
`EverySliceIsEncoded`, `ScanTypeCorrect` and `CliTypeCorrect` state facts that no run
lists by name: the runs meet them in `KeepsPromise`, `ToldOnce`, `Answered`,
`SlicesEncodedOnce` and as errors of evaluation.

## Not modelled, and the plan

Left out, each with its reason:

* The digest itself and the CRC-32 (`md-5` or OpenSSL, and `crc32fast`, are external);
  `Packets` takes MD5 as injective, `Md5Neon` has the one MD5 that is this
  repository's own.
* `build.rs` and the vendored isa-l_crypto sources: compiled when a feature asks
  for them, and called by no Rust code of the crate.
* How many threads the pool has and where it comes from, `-i` (paths read from a
  file), CPU detection itself, `indicatif`, the terminal.
* A write to a source within one pass over it, other processes than creates and
  an editor that rewrites in place, and a parallel volume loop in
  `SharedDirectory` (`CreatePipeline` has it, with one process).
* Tests, benches and examples, which are read for what they say of the program.

Nothing of the plan is left but what this list and the last part of *Proofs* name.
