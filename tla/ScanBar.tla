------------------------------- MODULE ScanBar -------------------------------
(***************************************************************************)
(* A scan of several files one after the other, and CliReporter (main.rs)  *)
(* on its events.  A file is scanned by the pool over a mapping            *)
(* (ScanProgress) or, when Mmap::map fails, by one thread through a        *)
(* BufReader (ScanReader).  One cumulative bar shows both; its base is the *)
(* position it had when the last file was completed.  A second bar shows   *)
(* the encode of the legacy pipeline, which the calling thread reports     *)
(* slice by slice.                                                         *)
(*                                                                         *)
(* All mapped files have the same number of slices here.                   *)
(***************************************************************************)
EXTENDS ScanProgress, ScanReader

CONSTANTS
  FileCount,
  EncodeStride  \* tick_stride(input_blocks_total)

ASSUME BarAssumption == FileCount \in Nat \ {0} /\ EncodeStride \in Nat \ {0}

VARIABLES
  file,     \* files started
  scanning, \* how the file is scanned, "no" between files
  length,   \* of the scan bar
  position, \* of the scan bar
  scanBase,
  encode    \* the encode bar: [length, position], and done, the slices encoded

barVars == <<file, scanning, length, position, scanBase, encode>>
allVars == <<vars, readerVars, barVars>>

NoBar == [length |-> 0, position |-> 0, done |-> 0]

BarInit ==
  /\ Init
  /\ rpc = "idle" /\ size = 0 /\ sliceSize = 0 /\ filled = 0 /\ pos = 0
  /\ slice = <<>> /\ full = <<>> /\ prefix = <<>> /\ checksums = <<>> /\ ticks = <<>>
  /\ file = 0 /\ scanning = "no"
  /\ length = 0 /\ position = 0 /\ scanBase = 0
  /\ encode = NoBar

ScanStarted(how, totalSlices) ==
  /\ scanning = "no" /\ file < FileCount /\ rpc # "error"
  /\ file' = file + 1
  /\ scanning' = how
  /\ length' = length + totalSlices
  /\ UNCHANGED <<position, scanBase, encode>>

\* The counters of scan_via_mmap are those of this file alone.
MmapStarted ==
  /\ ScanStarted("mmap", Slices)
  /\ UNCHANGED <<vars, readerVars>>

ReaderStarted ==
  /\ size' \in Sizes /\ sliceSize' \in SliceSizes
  /\ rpc' = "read"
  /\ slice' = Zeros(sliceSize')
  /\ ScanStarted("reader", TotalSlices')
  /\ UNCHANGED <<vars, filled, pos, readerResults>>

\* Mutant: the base is left out.
MutNoBase(slicesDone) ==
  /\ position' = slicesDone
  /\ UNCHANGED <<file, scanning, length, scanBase, encode>>

\* ScanProgress: both mutexes are held while the position is set.
MoveBar(slicesDone) ==
  /\ position' = scanBase + slicesDone
  /\ UNCHANGED <<file, scanning, length, scanBase, encode>>

ShowTick(w) ==
  /\ scanning = "mmap"
  /\ Emit(w)
  /\ MoveBar(d[w])
  /\ UNCHANGED readerVars

HashAndCount(w) ==
  /\ scanning = "mmap"
  /\ Quiet(w)
  /\ UNCHANGED <<readerVars, barVars>>

ReaderStep ==
  /\ scanning = "reader"
  /\ ReaderNext
  /\ IF ticks' = ticks THEN UNCHANGED barVars ELSE MoveBar(ticks'[Len(ticks')])
  /\ UNCHANGED vars

\* The base is where the bar stands, not where the file ends; the locals of the
\* scan are gone.
ScanCompleted ==
  /\ \/ scanning = "mmap" /\ Finished
     \/ scanning = "reader" /\ rpc = "done"
  /\ pc' = [w \in Workers |-> "hash"] /\ done' = 0 /\ lastEmitted' = 0
  /\ d' = [w \in Workers |-> 0] /\ prev' = d' /\ past' = {0} /\ log' = <<>>
  /\ rpc' = "idle" /\ size' = 0 /\ sliceSize' = 0 /\ filled' = 0 /\ pos' = 0
  /\ slice' = <<>> /\ full' = <<>> /\ prefix' = <<>> /\ checksums' = <<>> /\ ticks' = <<>>
  /\ scanning' = "no"
  /\ scanBase' = position
  /\ UNCHANGED <<file, length, position, encode>>

\* EncodeStarted: every file has as many checksums as total_slices said.
EncodeStarted ==
  /\ scanning = "no" /\ file = FileCount /\ encode = NoBar
  /\ encode' = [NoBar EXCEPT !.length = length]
  /\ UNCHANGED <<vars, readerVars, file, scanning, length, position, scanBase>>

EncodeTick(n) == n = encode.length \/ n % EncodeStride = 0

\* EncodeProgress, for the slices worth it.
EncodeSlice ==
  /\ encode.done < encode.length
  /\ encode' = [encode EXCEPT !.done = @ + 1,
                              !.position = IF EncodeTick(encode.done + 1)
                                           THEN encode.done + 1 ELSE @]
  /\ UNCHANGED <<vars, readerVars, file, scanning, length, position, scanBase>>

BarNext ==
  \/ MmapStarted \/ ReaderStarted
  \/ \E w \in Workers : ShowTick(w) \/ HashAndCount(w)
  \/ ReaderStep
  \/ ScanCompleted
  \/ EncodeStarted \/ EncodeSlice

BarSpec == BarInit /\ [][BarNext]_allVars

\* The pool runs its threads and the calling thread goes on; spurious failures
\* of the exchange do not go on for ever.
Fairness ==
  /\ WF_allVars(MmapStarted \/ ReaderStarted) /\ WF_allVars(ScanCompleted)
  /\ WF_allVars(ReaderStep) /\ WF_allVars(EncodeStarted \/ EncodeSlice)
  /\ \A w \in Workers :
       /\ WF_allVars(ShowTick(w) \/ HashAndCount(w))
       /\ SF_allVars(scanning = "mmap" /\ ExchangeOk(w) /\ UNCHANGED <<readerVars, barVars>>)

BarFairSpec == BarSpec /\ Fairness

-----------------------------------------------------------------------------
(* Properties                                                              *)

\* The scan bar never shows more slices than the files started so far have,
\* and never falls behind the files that were completed before; the encode bar
\* stands at its end when the last slice is encoded, whatever the stride.
BarInBounds ==
  /\ scanBase <= position /\ position <= length
  /\ encode.position <= encode.done
  /\ encode.done = encode.length => encode.position = encode.length

\* Every slice of every file is hashed, counted and encoded: every exchange
\* loop ends, and so does every read loop.
ScanEnds ==
  <>(rpc = "error" \/ (file = FileCount /\ encode # NoBar /\ encode.done = encode.length))
=============================================================================
