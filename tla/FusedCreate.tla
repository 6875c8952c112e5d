----------------------------- MODULE FusedCreate -----------------------------
(***************************************************************************)
(* run_create_fused (creator.rs): per input file, rayon::join of the scan  *)
(* and of the encode over one mmap; when all files are through, the index  *)
(* and then the volumes, one after the other.  When a file cannot be       *)
(* mapped, everything starts over on the pipeline of CreatePipeline.  The  *)
(* caller of a run chooses between the two.                                *)
(***************************************************************************)
EXTENDS CreatePipeline

CONSTANTS
  FileBlocks, \* the number of slices of each input file
  Unmappable  \* the files Mmap::map may refuse

Files == 1 .. Len(FileBlocks)

\* Slices of the files before f.
Offset[f \in 1 .. Len(FileBlocks) + 1] ==
  IF f = 1 THEN 0 ELSE Offset[f - 1] + FileBlocks[f - 1]

ASSUME FusedAssumption ==
  /\ FileBlocks \in Seq(Nat \ {0}) /\ FileBlocks # <<>>
  /\ Unmappable \subseteq Files
  /\ Blocks = Offset[Len(FileBlocks) + 1]

VARIABLES
  file, \* the input file being scanned
  arms  \* the closures of rayon::join that are running

fusedVars == <<file, arms>>
fVars == <<vars, fusedVars>>

FInit == Init /\ file = 1 /\ arms = {}

FBegin == Call("stat") /\ file' = 1 /\ arms' = {}

recovering == layout # <<>> \* total_recovery_count > 0

-----------------------------------------------------------------------------
(* Validation and the loop over the input files                            *)

\* The checks of run_create_with_progress, made on the lengths that
\* fs::metadata gives; then one EncodeStarted for the whole run.
Stat ==
  /\ stage = "stat"
  /\ \/ GoTo("scan") /\ starts' = starts + (IF recovering THEN 1 ELSE 0)
     \/ Return("error") /\ UNCHANGED starts
  /\ UNCHANGED <<writeVars, runVars, announced, completes, tick, fusedVars>>

\* File::open, Mmap::map and the start of both closures; or of the scan alone.
MapFile ==
  /\ stage = "scan" /\ file \in Files /\ arms = {}
  /\ arms' = IF recovering THEN {"scan", "encode"} ELSE {"scan"}
  /\ UNCHANGED <<vars, file>>

OpenFails ==
  /\ stage = "scan" /\ file \in Files /\ arms = {}
  /\ Return("error")
  /\ UNCHANGED <<writeVars, runVars, announced, encodeVars, fusedVars>>

\* Mutant: a file that cannot be mapped ends the loop, as if it were the last.
MutStopAtUnmappable ==
  /\ stage = "scan" /\ file \in Unmappable /\ arms = {}
  /\ GoTo("fusedIndex")
  /\ io' = [io EXCEPT ![Index] = "create"]
  /\ UNCHANGED <<disk, tmp, settled, runVars, announced, encodeVars, fusedVars>>

\* run_create_with_progress_fallback: every file, from the first, again.
MapFails ==
  /\ stage = "scan" /\ file \in Unmappable /\ arms = {}
  /\ GoTo("rescan")
  /\ file' = 1
  /\ UNCHANGED <<writeVars, runVars, announced, encodeVars, arms>>

\* Once both closures have returned the loop goes on with the next file.
NextIfJoined ==
  /\ file' = IF arms' = {} THEN file + 1 ELSE file

ScanArm ==
  /\ stage = "scan" /\ "scan" \in arms
  /\ arms' = arms \ {"scan"}
  /\ NextIfJoined
  /\ UNCHANGED vars

\* Mutant: the encode of a file goes on for one slice more.
EncodeArmUntil(last) ==
  /\ stage = "scan" /\ "encode" \in arms
  /\ tick' = tick + 1
  /\ arms' = IF tick' >= last THEN arms \ {"encode"} ELSE arms
  /\ NextIfJoined
  /\ UNCHANGED <<writeVars, stage, runVars, result, announced, starts, completes>>

MutOneSliceMore == EncodeArmUntil(Offset[file + 1] + 1)

\* encode_file_slices_into_buffers: one slice, then progress_counter + 1; the
\* closure returns after the last slice of the file.
EncodeArm ==
  /\ stage = "scan" /\ "encode" \in arms
  /\ tick' = tick + 1
  /\ arms' = IF tick' = Offset[file + 1] THEN arms \ {"encode"} ELSE arms
  /\ NextIfJoined
  /\ UNCHANGED <<writeVars, stage, runVars, result, announced, starts, completes>>

\* Mutant: the index is left for later.
MutIndexLater ==
  /\ stage = "scan" /\ file \notin Files
  /\ completes' = completes + (IF recovering THEN 1 ELSE 0)
  /\ GoTo("fusedResolve")
  /\ UNCHANGED <<writeVars, runVars, announced, starts, tick, fusedVars>>

FilesDone ==
  /\ stage = "scan" /\ file \notin Files
  /\ completes' = completes + (IF recovering THEN 1 ELSE 0)
  /\ GoTo("fusedIndex")
  /\ io' = [io EXCEPT ![Index] = "create"]
  /\ UNCHANGED <<disk, tmp, settled, runVars, announced, starts, tick, fusedVars>>

-----------------------------------------------------------------------------
(* The output files, in the order of their names in the result             *)

FIndexWritten ==
  /\ stage = "fusedIndex"
  /\ Advance(Index, "report", "done")
  /\ announced' = announced \cup {Index}
  /\ IF recovering THEN GoTo("fusedResolve") ELSE Return("ok")
  /\ UNCHANGED <<disk, tmp, settled, runVars, encodeVars, fusedVars>>

FResolveVolumeSizes ==
  /\ stage = "fusedResolve"
  /\ GoTo("fusedVolumes") \/ Return("error")
  /\ UNCHANGED <<writeVars, runVars, announced, encodeVars, fusedVars>>

FNextVolume(i) ==
  /\ stage = "fusedVolumes"
  /\ \A j \in 1 .. i - 1 : io[layout[j]] = "done"
  /\ Advance(layout[i], "idle", "create")
  /\ UNCHANGED <<disk, tmp, settled, pipeVars, fusedVars>>

FVolumeWritten(n) ==
  /\ stage = "fusedVolumes"
  /\ Advance(n, "report", "done")
  /\ announced' = announced \cup {n}
  /\ UNCHANGED <<disk, tmp, settled, stage, runVars, result, encodeVars, fusedVars>>

FWrite(n) ==
  /\ stage = IF n = Index THEN "fusedIndex" ELSE "fusedVolumes"
  /\ WriteStep(n, run)
  /\ UNCHANGED <<pipeVars, fusedVars>>

\* write_atomic(..)? : the first error ends the call.
FWriteFailed ==
  /\ stage \in {"fusedIndex", "fusedVolumes"}
  /\ \E n \in wanted : io[n] = "failed"
  /\ Return("error")
  /\ UNCHANGED <<writeVars, runVars, announced, encodeVars, fusedVars>>

FReturnOk ==
  /\ stage = "fusedVolumes"
  /\ \A n \in Volumes(layout) : io[n] = "done"
  /\ Return("ok")
  /\ UNCHANGED <<writeVars, runVars, announced, encodeVars, fusedVars>>

-----------------------------------------------------------------------------
(* The fallback: a serial scan of each file, then run_create_with_progress *)

Rescan ==
  /\ stage = "rescan"
  /\ \/ file < Len(FileBlocks) /\ file' = file + 1 /\ UNCHANGED <<stage, result>>
     \/ file = Len(FileBlocks) /\ GoTo("validate") /\ UNCHANGED file
     \/ Return("error") /\ UNCHANGED file
  /\ UNCHANGED <<writeVars, runVars, announced, encodeVars, arms>>

-----------------------------------------------------------------------------

FStep ==
  \/ Stat
  \/ MapFile \/ OpenFails \/ MapFails
  \/ ScanArm \/ EncodeArm \/ FilesDone
  \/ FIndexWritten \/ FResolveVolumeSizes
  \/ \E i \in DOMAIN layout : FNextVolume(i)
  \/ \E n \in Volumes(layout) : FVolumeWritten(n)
  \/ \E n \in wanted : FWrite(n)
  \/ FWriteFailed \/ FReturnOk
  \/ Rescan
  \/ Step /\ UNCHANGED fusedVars

FNext ==
  \/ FBegin
  \/ Begin /\ file' = 1 /\ arms' = {}
  \/ FStep
  \/ (Kill \/ PowerFailure) /\ UNCHANGED file /\ arms' = {}

FSpec == FInit /\ [][FNext]_fVars

FFairSpec == FSpec /\ WF_fVars(FStep)

-----------------------------------------------------------------------------
(* Properties, besides those of CreatePipeline                             *)

FTypeOK ==
  /\ TypeOK
  /\ file \in 1 .. Len(FileBlocks) + 1
  /\ arms \subseteq {"scan", "encode"}

\* Neither a source that cannot be read nor a mapping that fails after some
\* files were encoded leaves a trace of the run in the output directory; the
\* index only shows when the last slice was encoded and the reporter has heard
\* of one encode, begun and completed.
NoOutputBeforeAllScanned ==
  /\ stage \in {"stat", "scan", "rescan"} =>
       \A n \in Names : disk[n].run # run /\ tmp[n].run # run
  /\ stage \in {"fusedIndex", "fusedVolumes"} /\ recovering =>
       tick = Blocks /\ starts = 1 /\ completes = 1

=============================================================================
