---------------------------- MODULE EncodeBuffers ----------------------------
(***************************************************************************)
(* The encode loop of creator.rs, in its two forms:                        *)
(* encode_file_slices_into_buffers over an mmap ("fused") and              *)
(* encode_all_recovery_blocks over a BufReader ("legacy").  Per input      *)
(* slice: the slice is loaded and zero-padded, then the recovery buffers,  *)
(* cut into chunks by par_chunks_mut, are updated by the pool, window by   *)
(* window when PAR2RUST_L2_BLOCK_BYTES asks for it.                        *)
(*                                                                         *)
(* A word of a recovery buffer is the set of the terms coefficient(r, i) * *)
(* word that were added to it; addition is XOR, so adding a term twice     *)
(* removes it.  A word of a file is a file and a position.                 *)
(***************************************************************************)
EXTENDS Integers, Sequences, FiniteSets, SequencesExt

CONSTANTS
  FileWords,  \* words in each file; files are numbered in order of file id
  SliceWords, \* CreateOptions.slice_size in words
  Scanned,    \* slice sizes that a caller may have scanned the files with
  Recovery,   \* recovery_block_count
  Threads,    \* rayon::current_num_threads()
  Windows     \* window lengths; SliceWords stands for no cache blocking

ASSUME EncodeAssumption ==
  /\ FileWords \in Seq(Nat \ {0}) /\ FileWords # <<>>
  /\ SliceWords \in Nat \ {0} /\ Scanned \subseteq Nat \ {0}
  /\ Recovery \in Nat \ {0} /\ Threads \in Nat \ {0}
  /\ Windows \subseteq Nat \ {0}

Files == DOMAIN FileWords

DivCeil(a, b) == (a + b - 1) \div b

Words == 0 .. SliceWords - 1

Zero == <<0, 0>>

ChunkLen == DivCeil(Recovery, Threads)

Chunks == 0 .. DivCeil(Recovery, ChunkLen) - 1

\* The buffers par_chunks_mut(ChunkLen) hands to chunk c.
ChunkSize(c) ==
  IF (c + 1) * ChunkLen <= Recovery THEN ChunkLen ELSE Recovery - c * ChunkLen

VARIABLES
  mode,     \* "legacy" or "fused"
  sources,  \* the files in the caller's order
  scanned,  \* the slice size of their slice_checksums
  window,   \* block_bytes
  pc,
  nth,      \* the file being read, as an index of sources
  sliceIdx, \* the slice of it
  counter,  \* slices done: progress_counter, or input_idx
  offset,   \* file_global_offset: progress_counter when the file began
  slice,    \* slice_buf, tail_buf or the mmap window
  at,       \* each chunk's next window start and buffer within the chunk
  buf       \* recovery_buffers

vars == <<mode, sources, scanned, window, pc, nth, sliceIdx, counter, offset, slice, at, buf>>

given == <<mode, sources, scanned, window>>

\* src.slice_checksums.len()
SlicesOf(f) == DivCeil(FileWords[f], scanned)

Init ==
  /\ mode \in {"legacy", "fused"}
  /\ sources \in SetToSeqs(Files)
  /\ scanned \in Scanned
  /\ mode = "fused" => scanned = SliceWords \* it scans the files itself
  /\ window \in Windows
  /\ pc = "file"
  /\ nth = 1 /\ sliceIdx = 0 /\ counter = 0 /\ offset = 0
  /\ slice = [k \in Words |-> Zero]
  /\ at = [c \in Chunks |-> <<0, 0>>]
  /\ buf = [r \in 0 .. Recovery - 1 |-> [k \in Words |-> {}]]

\* A file is opened, or the fused closure for it is called.
OpenFile ==
  /\ pc = "file" /\ nth <= Len(sources)
  /\ pc' = "load"
  /\ sliceIdx' = 0
  /\ offset' = counter
  /\ UNCHANGED <<given, nth, counter, slice, at, buf>>

\* The slice as it is multiplied: read_next_slice and the tail_buf both fill
\* what lies beyond the end of the file with zeros.
Padded(f, s) ==
  [k \in Words |->
     IF s * SliceWords + k < FileWords[f] THEN <<f, s * SliceWords + k>> ELSE Zero]

\* Mutant: a short slice leaves the rest of the buffer as it was.
MutNoPadding ==
  /\ pc = "load"
  /\ pc' = "accumulate"
  /\ slice' = LET new == Padded(sources[nth], sliceIdx)
              IN  [k \in Words |-> IF new[k] = Zero THEN slice[k] ELSE new[k]]
  /\ at' = [c \in Chunks |-> <<0, 0>>]
  /\ UNCHANGED <<given, nth, sliceIdx, counter, offset, buf>>

LoadSlice ==
  /\ pc = "load"
  /\ pc' = "accumulate"
  /\ slice' = Padded(sources[nth], sliceIdx)
  /\ at' = [c \in Chunks |-> <<0, 0>>]
  /\ UNCHANGED <<given, nth, sliceIdx, counter, offset, buf>>

\* global_input_idx, the column of the RS matrix.
Column == IF mode = "fused" THEN offset + sliceIdx ELSE counter

Toggle(S, x) == IF x \in S THEN S \ {x} ELSE S \cup {x}

\* out ^= coefficient * input; a zero word adds nothing.
MulXor(out, r, from, to) ==
  [k \in Words |->
     IF k \in from .. to - 1 /\ slice[k] # Zero
     THEN Toggle(out[k], <<r, Column, slice[k]>>) ELSE out[k]]

Least(a, b) == IF a <= b THEN a ELSE b

\* Mutant: the next window starts where this one did.
MutSameWindow(c) ==
  LET start == at[c][1]
      r == c * ChunkLen + at[c][2]
  IN  /\ pc = "accumulate" /\ start < SliceWords
      /\ buf' = [buf EXCEPT ![r] = MulXor(@, r, start, Least(start + window, SliceWords))]
      /\ at' = [at EXCEPT ![c] = IF at[c][2] + 1 < ChunkSize(c)
                                 THEN <<start, at[c][2] + 1>> ELSE <<start, 0>>]
      /\ UNCHANGED <<given, pc, nth, sliceIdx, counter, offset, slice>>

\* One gf_mul_xor_with_tables of chunk c: the inner loop is over the chunk's
\* buffers, the outer one over the windows.
Accumulate(c) ==
  LET start == at[c][1]
      end == Least(start + window, SliceWords)
      r == c * ChunkLen + at[c][2]
  IN  /\ pc = "accumulate" /\ start < SliceWords
      /\ buf' = [buf EXCEPT ![r] = MulXor(@, r, start, end)]
      /\ at' = [at EXCEPT ![c] = IF at[c][2] + 1 < ChunkSize(c)
                                 THEN <<start, at[c][2] + 1>> ELSE <<end, 0>>]
      /\ UNCHANGED <<given, pc, nth, sliceIdx, counter, offset, slice>>

ChunksDone == \A c \in Chunks : at[c][1] >= SliceWords

\* for_each joins the pool; only then is the next slice loaded.
SliceDone ==
  LET more == sliceIdx + 1 < SlicesOf(sources[nth])
  IN  /\ pc = "accumulate" /\ ChunksDone
      /\ pc' = IF more THEN "load" ELSE "file"
      /\ nth' = IF more THEN nth ELSE nth + 1
      /\ sliceIdx' = sliceIdx + 1
      /\ counter' = counter + 1
      /\ UNCHANGED <<given, offset, slice, at, buf>>

Encoded ==
  /\ pc = "file" /\ nth > Len(sources)
  /\ pc' = "done"
  /\ UNCHANGED <<given, nth, sliceIdx, counter, offset, slice, at, buf>>

Next ==
  \/ OpenFile \/ LoadSlice
  \/ \E c \in Chunks : Accumulate(c)
  \/ SliceDone \/ Encoded

Spec == Init /\ [][Next]_vars

-----------------------------------------------------------------------------
(* Properties                                                              *)

\* The files in the given order, cut into slices: <<file, slice>> pairs.
SliceList(order) ==
  FlattenSeq([i \in DOMAIN order |->
                [s \in 1 .. SlicesOf(order[i]) |-> <<order[i], s - 1>>]])

\* What recovery word k of exponent r is when the first n slices of the list
\* have been encoded, the i-th of them with column i.
Reference(list, n, r, k) ==
  {<<r, i - 1, <<list[i][1], list[i][2] * SliceWords + k>>>> :
      i \in {j \in 1 .. n : list[j][2] * SliceWords + k < FileWords[list[j][1]]}}

\* Whenever no slice is being accumulated, every word of every recovery
\* buffer has exactly the terms of the slices done so far, once each, with
\* the column the slice has in the concatenated input: the same for the mmap
\* and for the BufReader, for every window length and number of threads.
SlicesEncodedOnce ==
  pc # "accumulate" =>
    LET list == SliceList(sources)
    IN  \A r \in DOMAIN buf, k \in Words :
          buf[r][k] = Reference(list, counter, r, k)

=============================================================================
