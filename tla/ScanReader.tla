----------------------------- MODULE ScanReader -----------------------------
(***************************************************************************)
(* scan_via_reader and read_full (source.rs): the scan of a file that      *)
(* cannot be mapped.  A read may return fewer bytes than asked for; the    *)
(* slice buffer is reused; the hash of the whole file, that of its first   *)
(* HASH16K_LEN bytes and the checksum of each padded slice are fed from    *)
(* the same buffer.                                                        *)
(*                                                                         *)
(* The bytes of the file are 1 .. size, 0 is padding, and a hash is the  *)
(* sequence of the bytes it was fed.                                       *)
(***************************************************************************)
EXTENDS Integers, Sequences, SequencesExt

CONSTANTS
  Sizes,        \* file lengths
  SliceSizes,
  HASH16K_LEN,
  ReaderStride  \* tick_stride(total_slices)

ASSUME ReaderAssumption ==
  /\ Sizes \subseteq Nat \ {0} /\ SliceSizes \subseteq Nat \ {0}
  /\ HASH16K_LEN \in Nat \ {0} /\ ReaderStride \in Nat \ {0}

VARIABLES
  size,
  sliceSize,
  rpc,      \* "read", "hash", "done" or "error"
  filled,   \* of slice_buf
  slice,    \* slice_buf
  pos,      \* bytes read so far
  full,     \* hash_full_ctx
  prefix,   \* hash16k_ctx
  checksums,
  ticks     \* slices_done of the ScanProgress events

readerVars == <<size, sliceSize, rpc, filled, slice, pos, full, prefix, checksums, ticks>>

readerGiven == <<size, sliceSize>>
readerResults == <<full, prefix, checksums, ticks>>

Least(a, b) == IF a <= b THEN a ELSE b

Zeros(n) == [i \in 1 .. n |-> 0]

TotalSlices == (size + sliceSize - 1) \div sliceSize

ReaderInit ==
  /\ size \in Sizes /\ sliceSize \in SliceSizes
  /\ rpc = "read" /\ filled = 0 /\ pos = 0
  /\ slice = Zeros(sliceSize)
  /\ full = <<>> /\ prefix = <<>> /\ checksums = <<>> /\ ticks = <<>>

\* read_full: reader.read() hands over n bytes, as many as it likes.
Read(n) ==
  /\ rpc = "read" /\ filled < sliceSize
  /\ slice' = [i \in 1 .. sliceSize |->
                 IF i \in filled + 1 .. filled + n THEN pos + i - filled ELSE slice[i]]
  /\ filled' = filled + n
  /\ pos' = pos + n
  /\ UNCHANGED <<readerGiven, rpc, readerResults>>

\* The buffer is full, or the file is at its end; with nothing read the scan is.
ReadDone ==
  /\ rpc = "read"
  /\ filled = sliceSize \/ pos = size
  /\ rpc' = IF filled = 0 THEN "done" ELSE "hash"
  /\ UNCHANGED <<readerGiven, filled, slice, pos, readerResults>>

ReadFails ==
  /\ rpc = "read" /\ filled < sliceSize
  /\ rpc' = "error"
  /\ UNCHANGED <<readerGiven, filled, slice, pos, readerResults>>

\* Mutant: the buffer keeps what an earlier slice left beyond the short read.
MutKeepTail == slice

\* slice_buf[filled..].fill(0)
PaddedSlice == SubSeq(slice, 1, filled) \o Zeros(sliceSize - filled)

\* Mutant: the last slice is nothing special.
MutReaderStrideOnly(n) == n % ReaderStride = 0

TickWorth(n) == filled < sliceSize \/ n = TotalSlices \/ n % ReaderStride = 0

HashSlice ==
  LET n == Len(checksums) + 1
      take == Least(HASH16K_LEN - Len(prefix), filled)
  IN  /\ rpc = "hash"
      /\ full' = full \o SubSeq(slice, 1, filled)
      /\ prefix' = prefix \o SubSeq(slice, 1, take)
      /\ slice' = PaddedSlice
      /\ checksums' = Append(checksums, PaddedSlice)
      /\ ticks' = IF TickWorth(n) THEN Append(ticks, n) ELSE ticks
      /\ rpc' = IF filled < sliceSize THEN "done" ELSE "read"
      /\ filled' = 0
      /\ UNCHANGED <<readerGiven, pos>>

ReaderNext ==
  \/ \E n \in 1 .. Least(sliceSize - filled, size - pos) : Read(n)
  \/ ReadDone \/ ReadFails \/ HashSlice

-----------------------------------------------------------------------------
(* What scan_via_mmap computes: par_chunks, padded, and two digests.       *)

FileBytes == [i \in 1 .. size |-> i]

Chunk(c) ==
  [i \in 1 .. sliceSize |->
     LET b == (c - 1) * sliceSize + i IN IF b <= size THEN b ELSE 0]

MmapSlices == [c \in 1 .. TotalSlices |-> Chunk(c)]

-----------------------------------------------------------------------------
(* Properties                                                              *)

\* However the reads are cut, the reader finds the same checksums, file hash
\* and 16 KiB hash as the mapping does: the file id and the set id of a create
\* do not depend on whether a file could be mapped.
ReaderMatchesMmap ==
  rpc = "done" =>
    /\ checksums = MmapSlices
    /\ full = FileBytes
    /\ prefix = SubSeq(FileBytes, 1, Least(size, HASH16K_LEN))

\* The reporter hears the counts worth a tick, in order and once each, and
\* always the total, which a short last slice and the count both announce.
TicksAreTold ==
  rpc = "done" =>
    /\ \A i, j \in DOMAIN ticks : i < j => ticks[i] < ticks[j]
    /\ Range(ticks) =
         {n \in 1 .. TotalSlices : n = TotalSlices \/ n % ReaderStride = 0}

=============================================================================
