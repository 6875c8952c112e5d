--------------------------- MODULE CreatePipeline ---------------------------
(***************************************************************************)
(* run_create_with_progress (creator.rs): validate, write the index,       *)
(* resolve the volume sizes, encode every recovery block in one pass, then *)
(* write the volumes in parallel on the rayon pool, each by write_atomic,  *)
(* and collect one Result per volume.  The reporter hears of each step.    *)
(*                                                                         *)
(* A create may fail at any call that returns an error, the process may be *)
(* killed and the machine may lose power between any two steps; the user   *)
(* may then run it again, with another layout, over what is left on disk.  *)
(*                                                                         *)
(* Layouts is what VolumeLayout computes: for each request the sequence of *)
(* (first_exp, count) pairs, which is all a volume's name is made of.  The *)
(* empty layout is recovery_block_count = 0.                               *)
(***************************************************************************)
EXTENDS AtomicWrite, Sequences, FiniteSets

CONSTANTS
  Index,    \* the name of the index file
  Layouts,  \* layouts a run may ask for
  Threads,  \* rayon::current_num_threads()
  Blocks    \* input blocks of the run, over all sources

Volumes(l) == {l[i] : i \in DOMAIN l}

ASSUME PipelineAssumption ==
  /\ Index \in Names
  /\ Threads \in Nat \ {0} /\ Blocks \in Nat \ {0}
  /\ \A l \in Layouts :
       /\ l \in Seq(Names \ {Index})
       /\ \A i, j \in DOMAIN l : l[i] = l[j] => i = j

VARIABLES
  stage,     \* how far the run is
  run,       \* the number of this run
  layout,
  result,    \* what it returned
  announced, \* names the reporter heard IndexWritten or VolumeWritten for
  starts,    \* EncodeStarted events the reporter heard in this run
  completes, \* EncodeCompleted events
  tick       \* blocks encoded; each is reported, tick_stride being 1 for so few

runVars == <<run, layout>>
encodeVars == <<starts, completes, tick>>
pipeVars == <<stage, result, announced, runVars, encodeVars>>
vars == <<writeVars, pipeVars>>

wanted == {Index} \cup Volumes(layout)

\* The stages of this function, and those of run_create_fused.
Stages ==
  {"idle", "validate", "index", "resolve", "encode", "encoding", "volumes",
   "returned", "crashed"}
  \cup {"stat", "scan", "fusedIndex", "fusedResolve", "fusedVolumes", "rescan"}

Working == stage \notin {"idle", "returned", "crashed"}

Init ==
  /\ WriteInit
  /\ stage = "idle" /\ run = 0 /\ layout = <<>> /\ result = "none"
  /\ announced = {}
  /\ starts = 0 /\ completes = 0 /\ tick = 0

\* A call, whose first stage is first, with whatever earlier runs left on disk.
Call(first) ==
  /\ ~Working
  /\ run < MaxRun
  /\ run' = run + 1
  /\ layout' \in Layouts
  /\ stage' = first /\ result' = "none"
  /\ announced' = {}
  /\ starts' = 0 /\ completes' = 0 /\ tick' = 0
  /\ NoWriters
  /\ UNCHANGED <<disk, tmp, settled>>

Begin == Call("validate")

Return(r) == stage' = "returned" /\ result' = r

GoTo(s) == stage' = s /\ UNCHANGED result

\* NoInputFiles, TooManyFiles, TooManyRecoveryBlocks, InvalidSliceSize and
\* TooManyInputBlocks all return before anything is written.
Validate ==
  /\ stage = "validate"
  /\ \/ /\ GoTo("index")
        /\ io' = [io EXCEPT ![Index] = "create"]
     \/ Return("error") /\ UNCHANGED io
  /\ UNCHANGED <<disk, tmp, settled, runVars, announced, encodeVars>>

-----------------------------------------------------------------------------
(* The index file                                                          *)

WriteIndex ==
  /\ stage = "index"
  /\ WriteStep(Index, run)
  /\ UNCHANGED pipeVars

IndexWritten ==
  /\ stage = "index"
  /\ Advance(Index, "report", "done")
  /\ announced' = announced \cup {Index}
  /\ IF layout = <<>> THEN Return("ok") ELSE GoTo("resolve")
  /\ UNCHANGED <<disk, tmp, settled, runVars, encodeVars>>

IndexFailed ==
  /\ stage = "index" /\ io[Index] = "failed"
  /\ Return("error")
  /\ UNCHANGED <<writeVars, runVars, announced, encodeVars>>

-----------------------------------------------------------------------------
(* resolve_volume_sizes and encode_all_recovery_blocks                     *)

ResolveVolumeSizes ==
  /\ stage = "resolve"
  /\ GoTo("encode") \/ Return("error")
  /\ UNCHANGED <<writeVars, runVars, announced, encodeVars>>

EncodeStart ==
  /\ stage = "encode"
  /\ GoTo("encoding")
  /\ starts' = starts + 1
  /\ tick' = 0
  /\ UNCHANGED <<writeVars, runVars, announced, completes>>

\* One input block read and accumulated into every recovery buffer.
EncodeBlock ==
  /\ stage = "encoding" /\ tick < Blocks
  /\ tick' = tick + 1
  /\ UNCHANGED <<writeVars, stage, runVars, result, announced, starts, completes>>

\* A source cannot be opened again, or cannot be read.
EncodeFailed ==
  /\ stage = "encoding" /\ tick < Blocks
  /\ Return("error")
  /\ UNCHANGED <<writeVars, runVars, announced, encodeVars>>

EncodeDone ==
  /\ stage = "encoding" /\ tick = Blocks
  /\ completes' = completes + 1
  /\ GoTo("volumes")
  /\ UNCHANGED <<writeVars, runVars, announced, starts, tick>>

-----------------------------------------------------------------------------
(* The volumes, by par_iter: any idle thread takes any volume not taken.   *)

Busy == {n \in Volumes(layout) : io[n] \in Steps \cup {"report"}}

TakeVolume(n) ==
  /\ stage = "volumes"
  /\ Cardinality(Busy) < Threads
  /\ Advance(n, "idle", "create")
  /\ UNCHANGED <<disk, tmp, settled, pipeVars>>

WriteVolume(n) ==
  /\ stage = "volumes"
  /\ WriteStep(n, run)
  /\ UNCHANGED pipeVars

\* Mutant: the event is sent before the Result is looked at.
MutReportFailed(n) ==
  /\ stage = "volumes"
  /\ io[n] \in {"report", "failed"} /\ n \notin announced
  /\ io' = [io EXCEPT ![n] = IF @ = "report" THEN "done" ELSE @]
  /\ announced' = announced \cup {n}
  /\ UNCHANGED <<disk, tmp, settled, stage, runVars, result, encodeVars>>

VolumeWritten(n) ==
  /\ stage = "volumes"
  /\ Advance(n, "report", "done")
  /\ announced' = announced \cup {n}
  /\ UNCHANGED <<disk, tmp, settled, stage, runVars, result, encodeVars>>

\* Mutants: the first error ends the loop; only successes do.
MutShortCircuit ==
  \/ \E n \in Volumes(layout) : io[n] = "failed"
  \/ \A n \in Volumes(layout) : io[n] = "done"

MutWaitForSuccess == \A n \in Volumes(layout) : io[n] = "done"

\* collect::<Vec<Result<_>>> waits for every volume; only then does `res?`
\* return the first error.
VolumesFinished == \A n \in Volumes(layout) : io[n] \in {"done", "failed"}

\* Mutant: the Results are dropped.
MutIgnoreErrors ==
  /\ stage = "volumes"
  /\ VolumesFinished
  /\ Return("ok")
  /\ UNCHANGED <<writeVars, runVars, announced, encodeVars>>

CollectVolumes ==
  /\ stage = "volumes"
  /\ VolumesFinished
  /\ Return(IF \A n \in Volumes(layout) : io[n] = "done" THEN "ok" ELSE "error")
  /\ UNCHANGED <<writeVars, runVars, announced, encodeVars>>

-----------------------------------------------------------------------------

Kill ==
  /\ Working
  /\ stage' = "crashed"
  /\ WritersKilled
  /\ UNCHANGED <<runVars, result, announced, encodeVars>>

PowerFailure ==
  /\ run > 0
  /\ stage' = "crashed"
  /\ \E kept \in SUBSET Names : PowerFails(kept)
  /\ UNCHANGED <<runVars, result, announced, encodeVars>>

Volume(n) == TakeVolume(n) \/ WriteVolume(n) \/ VolumeWritten(n)

Step ==
  \/ Validate
  \/ WriteIndex \/ IndexWritten \/ IndexFailed
  \/ ResolveVolumeSizes
  \/ EncodeStart \/ EncodeBlock \/ EncodeFailed \/ EncodeDone
  \/ \E n \in Volumes(layout) : Volume(n)
  \/ CollectVolumes

Next == Begin \/ Step \/ Kill \/ PowerFailure

Spec == Init /\ [][Next]_vars

\* Every call returns and the pool runs every job it is given; nobody has to
\* start another run, and nothing has to crash.
FairSpec == Spec /\ WF_vars(Step)
-----------------------------------------------------------------------------
(* Properties                                                              *)

\* Every variable keeps its type.
TypeOK ==
  /\ WriteTypeOK
  /\ stage \in Stages
  /\ run \in 0 .. MaxRun
  /\ layout \in Layouts \cup {<<>>}
  /\ result \in {"none", "ok", "error"}
  /\ announced \in SUBSET Names
  /\ starts \in Nat /\ completes \in Nat
  /\ tick \in 0 .. Blocks

\* Ok(paths) means that every path is in place with this run's bytes, that the
\* reporter heard of it, and that no tmp file of it, old or new, is left.
OkMeansComplete ==
  stage = "returned" /\ result = "ok" =>
    \A n \in wanted : disk[n].run = run /\ n \in announced /\ tmp[n] = NoFile

\* IndexWritten and VolumeWritten are only told of files that are in place,
\* whichever thread tells, and however the run goes on.
AnnouncedInPlace ==
  stage # "crashed" =>
    \A n \in announced : n \in wanted /\ disk[n].run = run

\* When the function has returned, with Ok or Err, no pool thread is still
\* writing.
NoWriterOutlivesTheCall ==
  stage = "returned" => \A n \in Names : io[n] \in {"idle", "done", "failed"}

\* A volume of a run only appears over an index of the same run.
IndexFirst ==
  [][\A n \in Names \ {Index} :
       disk'[n] # disk[n] /\ disk'[n].run = run => disk[Index].run = run]_vars

\* A run that is neither killed nor cut off returns.
RunEnds == Working ~> stage \in {"returned", "crashed"}

\* The files as RecoverySet sees them; a torn file is none it knows of.
Seen(c) == IF Intact(c) THEN c.run ELSE MaxRun + 1

Outcome ==
  CASE stage = "idle" -> "none"
    [] Working -> "running"
    [] stage = "returned" -> result
    [] stage = "crashed" -> "crashed"

RS == INSTANCE RecoverySet WITH
        files <- [n \in Names |-> Seen(disk[n])],
        wanted <- IF run = 0 THEN {} ELSE wanted,
        outcome <- Outcome

\* Tmp files, threads and crashes do not show: the pipeline implements the
\* promise of RecoverySet.
KeepsPromise == RS!Spec
=============================================================================
