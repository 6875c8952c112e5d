---------------------------- MODULE CreateProofs ----------------------------
(***************************************************************************)
(* Theorems about CreatePipeline and FusedCreate, for every set of names,  *)
(* layouts and files, any number of threads and runs.  What is shown first *)
(* of the legacy pipeline holds of every sequence of calls of either entry *)
(* point: the steps of run_create_fused are of the same six kinds as those *)
(* of the pipeline, so that the lemmas about these are used for both.      *)
(***************************************************************************)
EXTENDS FusedCreate, NatFacts


-----------------------------------------------------------------------------
(* Whole files.  Only Rename puts content under a final name, so it is     *)
(* enough that a writer about to rename has written and synced its tmp     *)
(* file, and that what a power failure falls back to is whole as well.     *)

WholeInv ==
  /\ \A n \in Names : Intact(disk[n]) /\ Intact(settled[n])
  /\ \A n \in Names : io[n] = "sync" => tmp[n].whole
  /\ \A n \in Names : io[n] = "rename" => tmp[n].whole /\ tmp[n].synced

\* An intact file survives a power failure as it was.
LEMMA IntactSurvives ==
  ASSUME NEW c \in Content, Intact(c)
  PROVE  Survives(c) = c
BY DEF Content, Intact, Survives, NoFile

\* What survives of a file is a file.
LEMMA SurvivesType ==
  ASSUME NEW c \in Content
  PROVE  Survives(c) \in Content
BY DEF Content, Survives

\* The calls of write_atomic keep the types of the directory and the writers.
LEMMA WriteStepType ==
  ASSUME WriteTypeOK, MaxRun \in Nat, NEW n \in Names, NEW r \in 0 .. MaxRun,
         WriteStep(n, r)
  PROVE  WriteTypeOK'
<1> USE DEF WriteTypeOK, Content, Steps, Advance
<1>1. CASE CreateTmp(n, r) BY <1>1 DEF CreateTmp
<1>2. CASE WriteAll(n) BY <1>2 DEF WriteAll
<1>3. CASE SyncAll(n) BY <1>3 DEF SyncAll
<1>4. CASE Rename(n) BY <1>4 DEF Rename, NoFile
<1>5. CASE WriteFails(n) BY <1>5 DEF WriteFails
<1> QED BY <1>1, <1>2, <1>3, <1>4, <1>5 DEF WriteStep

\* So does the end of the process, with or without a power failure.
LEMMA PowerFailsType ==
  ASSUME WriteTypeOK, NEW kept \in SUBSET Names, PowerFails(kept)
  PROVE  WriteTypeOK'
<1>1. \A n \in Names :
        /\ Survives(IF n \in kept THEN disk[n] ELSE settled[n]) \in Content
        /\ Survives(tmp[n]) \in Content
  BY SurvivesType DEF WriteTypeOK
<1> QED BY <1>1 DEF PowerFails, NoWriters, WriteTypeOK

\* The calls of write_atomic keep WholeInv.
LEMMA WriteStepWhole ==
  ASSUME WriteTypeOK, WholeInv, MaxRun \in Nat,
         NEW n \in Names, NEW r \in 0 .. MaxRun, WriteStep(n, r)
  PROVE  WholeInv'
<1> USE DEF WriteTypeOK, WholeInv, Content, Steps, Advance
<1>1. CASE CreateTmp(n, r) BY <1>1 DEF CreateTmp
<1>2. CASE WriteAll(n) BY <1>2 DEF WriteAll
<1>3. CASE SyncAll(n) BY <1>3 DEF SyncAll
<1>4. CASE Rename(n) BY <1>4 DEF Rename, Intact
<1>5. CASE WriteFails(n) BY <1>5 DEF WriteFails
<1> QED BY <1>1, <1>2, <1>3, <1>4, <1>5 DEF WriteStep

\* So does a power failure, whichever renames it undoes.
LEMMA PowerFailsWhole ==
  ASSUME WriteTypeOK, WholeInv, NEW kept \in SUBSET Names, PowerFails(kept)
  PROVE  WholeInv'
<1>1. \A n \in Names :
        Survives(IF n \in kept THEN disk[n] ELSE settled[n]) =
          IF n \in kept THEN disk[n] ELSE settled[n]
  BY IntactSurvives DEF WholeInv, WriteTypeOK
<1>2. \A n \in Names : disk'[n] = IF n \in kept THEN disk[n] ELSE settled[n]
  BY <1>1 DEF PowerFails
<1>3. \A n \in Names : settled'[n] = disk'[n] /\ io'[n] = "idle"
  BY DEF PowerFails, NoWriters
<1> QED BY <1>2, <1>3 DEF WholeInv
-----------------------------------------------------------------------------
(* Type correctness                                                        *)

\* The variables start with their types.
LEMMA InitType == Init => TypeOK
BY AtomicWriteAssumption, PipelineAssumption
   DEF Init, WriteInit, TypeOK, WriteTypeOK, Content, NoFile, Stages

\* The volumes of a layout are names, none of them the index.
LEMMA VolumeNames ==
  ASSUME TypeOK
  PROVE  Volumes(layout) \subseteq Names \ {Index} /\ Index \in Names
<1>1. CASE layout \in Layouts
  BY <1>1, PipelineAssumption DEF Volumes
<1>2. CASE layout = <<>>
  BY <1>2, PipelineAssumption DEF Volumes
<1> QED BY <1>1, <1>2 DEF TypeOK

\* Every action keeps the types.
LEMMA NextType == TypeOK /\ [Next]_vars => TypeOK'
<1> SUFFICES ASSUME TypeOK, [Next]_vars PROVE TypeOK'
  OBVIOUS
<1>n. MaxRun \in Nat /\ Blocks \in Nat \ {0} /\ Index \in Names
  BY AtomicWriteAssumption, PipelineAssumption
<1>v. Volumes(layout) \subseteq Names
  BY VolumeNames
<1> USE DEF TypeOK, runVars, encodeVars, Stages
<1>1. CASE Begin
  BY <1>1, <1>n DEF Begin, Call, NoWriters, WriteTypeOK
<1>2. CASE Validate
  BY <1>2, <1>n DEF Validate, GoTo, Return, WriteTypeOK, Steps
<1>3. CASE WriteIndex
  BY <1>3, <1>n, WriteStepType DEF WriteIndex, pipeVars
<1>4. CASE IndexWritten
  BY <1>4, <1>n DEF IndexWritten, Advance, GoTo, Return, WriteTypeOK
<1>5. CASE IndexFailed
  BY <1>5 DEF IndexFailed, Return, writeVars, WriteTypeOK
<1>6. CASE ResolveVolumeSizes
  BY <1>6 DEF ResolveVolumeSizes, GoTo, Return, writeVars, WriteTypeOK
<1>7. CASE EncodeStart
  BY <1>7, <1>n DEF EncodeStart, GoTo, writeVars, WriteTypeOK
<1>8. CASE EncodeBlock
  BY <1>8, <1>n DEF EncodeBlock, writeVars, WriteTypeOK
<1>9. CASE EncodeFailed
  BY <1>9 DEF EncodeFailed, Return, writeVars, WriteTypeOK
<1>10. CASE EncodeDone
  BY <1>10 DEF EncodeDone, GoTo, writeVars, WriteTypeOK
<1>11. ASSUME NEW n \in Volumes(layout), Volume(n) PROVE TypeOK'
  <2>1. CASE TakeVolume(n)
    BY <2>1 DEF TakeVolume, Advance, pipeVars, WriteTypeOK, Steps
  <2>2. CASE WriteVolume(n)
    BY <2>2, <1>n, <1>v, WriteStepType DEF WriteVolume, pipeVars
  <2>3. CASE VolumeWritten(n)
    BY <2>3, <1>v DEF VolumeWritten, Advance, WriteTypeOK
  <2> QED BY <1>11, <2>1, <2>2, <2>3 DEF Volume
<1>12. CASE CollectVolumes
  BY <1>12 DEF CollectVolumes, Return, writeVars, WriteTypeOK
<1>13. CASE Kill
  BY <1>13 DEF Kill, WritersKilled, NoWriters, WriteTypeOK
<1>14. CASE PowerFailure
  BY <1>14, PowerFailsType DEF PowerFailure
<1>15. CASE UNCHANGED vars
  BY <1>15 DEF vars, writeVars, pipeVars, WriteTypeOK
<1> QED
  BY <1>1, <1>2, <1>3, <1>4, <1>5, <1>6, <1>7, <1>8, <1>9, <1>10, <1>11, <1>12,
     <1>13, <1>14, <1>15 DEF Next, Step

\* Every variable of the pipeline always has its type.
THEOREM TypeCorrect == Spec => []TypeOK
BY InitType, NextType, PTL DEF Spec

-----------------------------------------------------------------------------
(* Whole files, for the whole pipeline                                     *)

\* Every action keeps files whole.
LEMMA NextWhole == TypeOK /\ WholeInv /\ [Next]_vars => WholeInv'
<1> SUFFICES ASSUME TypeOK, WholeInv, [Next]_vars PROVE WholeInv'
  OBVIOUS
<1>n. MaxRun \in Nat /\ Index \in Names /\ run \in 0 .. MaxRun /\ WriteTypeOK
  BY AtomicWriteAssumption, PipelineAssumption DEF TypeOK
<1>v. Volumes(layout) \subseteq Names
  BY VolumeNames
<1>1. CASE Begin
  BY <1>1 DEF Begin, Call, NoWriters, WholeInv
<1>2. CASE Validate
  BY <1>2, <1>n DEF Validate, WholeInv, WriteTypeOK
<1>3. CASE WriteIndex
  BY <1>3, <1>n, WriteStepWhole DEF WriteIndex
<1>4. CASE IndexWritten
  BY <1>4, <1>n DEF IndexWritten, Advance, WholeInv, WriteTypeOK
<1>5. CASE UNCHANGED writeVars
  BY <1>5 DEF writeVars, WholeInv
<1>6. ASSUME NEW n \in Volumes(layout), Volume(n) PROVE WholeInv'
  <2>1. CASE TakeVolume(n)
    BY <2>1, <1>n DEF TakeVolume, Advance, WholeInv, WriteTypeOK
  <2>2. CASE WriteVolume(n)
    BY <2>2, <1>n, <1>v, WriteStepWhole DEF WriteVolume
  <2>3. CASE VolumeWritten(n)
    BY <2>3, <1>n DEF VolumeWritten, Advance, WholeInv, WriteTypeOK
  <2> QED BY <1>6, <2>1, <2>2, <2>3 DEF Volume
<1>7. CASE Kill
  BY <1>7 DEF Kill, WritersKilled, NoWriters, WholeInv
<1>8. CASE PowerFailure
  BY <1>8, <1>n, PowerFailsWhole DEF PowerFailure
<1>9. CASE \/ IndexFailed \/ ResolveVolumeSizes \/ EncodeStart \/ EncodeBlock
           \/ EncodeFailed \/ EncodeDone \/ CollectVolumes \/ UNCHANGED vars
  BY <1>5, <1>9 DEF IndexFailed, ResolveVolumeSizes, EncodeStart, EncodeBlock,
     EncodeFailed, EncodeDone, CollectVolumes, vars
<1> QED
  BY <1>1, <1>2, <1>3, <1>4, <1>6, <1>7, <1>8, <1>9 DEF Next, Step

\* However calls fail, processes die and the power goes, a final name holds
\* nothing or a whole PAR2 file: write_atomic keeps its promise.
THEOREM FinalFilesWhole == Spec => []FinalWhole
<1>1. Init => WholeInv
  BY DEF Init, WriteInit, WholeInv, Intact
<1>2. WholeInv => FinalWhole
  BY DEF WholeInv, FinalWhole
<1> QED
  BY <1>1, <1>2, NextWhole, TypeCorrect, PTL DEF Spec
-----------------------------------------------------------------------------
(* Where the writers are.  What a caller learns from Ok, or the reporter   *)
(* from an event, follows from where every writer is at each stage, and    *)
(* from what a writer that is through has left on disk.                    *)

AllIdle(S) == \A n \in S : io[n] = "idle"

WritersInv ==
  stage # "crashed" =>
    \A n \in Names :
      /\ io[n] # "idle" => n \in wanted
      /\ io[n] \in {"write", "sync", "rename"} => tmp[n].run = run
      /\ io[n] \in {"report", "done"} => disk[n].run = run /\ tmp[n] = NoFile
      /\ n \in announced <=> io[n] = "done"

StageInv ==
  /\ stage \in {"idle", "validate", "index", "resolve", "encode", "encoding",
                "volumes", "returned", "crashed"}
  /\ stage \in {"idle", "validate"} => AllIdle(Names)
  /\ stage \in {"index", "resolve", "encode", "encoding"} => AllIdle(Names \ {Index})
  /\ stage \in {"resolve", "encode", "encoding", "volumes"} => io[Index] = "done"
  /\ stage \in {"idle", "validate", "index", "resolve", "encode", "encoding"} =>
       completes = 0
  /\ stage = "volumes" => completes # 0
  /\ stage = "returned" =>
       /\ \A n \in Names : io[n] \in {"idle", "done", "failed"}
       /\ completes = 0 => AllIdle(Names \ {Index})
       /\ completes = 0 /\ result = "ok" => layout = <<>> /\ io[Index] = "done"
       /\ completes # 0 => VolumesFinished /\ io[Index] = "done"
       /\ completes # 0 /\ result = "ok" => \A n \in Volumes(layout) : io[n] = "done"

\* Nothing of the current run is settled before a power failure settles it all.
SettledInv ==
  /\ \A n \in Names : /\ settled[n].run <= disk[n].run
                      /\ disk[n].run <= run /\ tmp[n].run <= run
  /\ stage # "idle" => run # 0
  /\ \/ run = 0 /\ stage = "idle"
     \/ \A n \in Names : settled[n].run < run
     \/ stage = "crashed" /\ settled = disk

PipeInv == WritersInv /\ StageInv /\ SettledInv

\* It holds before the first call.
LEMMA InitPipe == Init => PipeInv
BY AtomicWriteAssumption
   DEF Init, WriteInit, PipeInv, WritersInv, StageInv, SettledInv, AllIdle, NoFile

\* What one call of write_atomic does to the writers and to the disk.
LEMMA WriteStepWriters ==
  ASSUME WriteTypeOK, NEW n \in Names, NEW r \in 0 .. MaxRun, MaxRun \in Nat,
         WriteStep(n, r)
  PROVE  /\ io[n] \in Steps
         /\ io'[n] \in Steps \cup {"report", "failed"}
         /\ io'[n] \in {"write", "sync", "rename"} =>
              tmp'[n].run = r \/ (io[n] # "create" /\ tmp'[n].run = tmp[n].run)
         /\ io'[n] = "report" =>
              io[n] = "rename" /\ disk'[n] = tmp[n] /\ tmp'[n] = NoFile
         /\ io'[n] # "report" => disk'[n] = disk[n]
         /\ tmp'[n].run \in {tmp[n].run, r, 0}
         /\ settled' = settled
         /\ \A m \in Names \ {n} :
              io'[m] = io[m] /\ tmp'[m] = tmp[m] /\ disk'[m] = disk[m]
<1> USE DEF WriteTypeOK, Content, Steps, Advance
<1>1. CASE CreateTmp(n, r) BY <1>1 DEF CreateTmp
<1>2. CASE WriteAll(n) BY <1>2 DEF WriteAll
<1>3. CASE SyncAll(n) BY <1>3 DEF SyncAll
<1>4. CASE Rename(n) BY <1>4 DEF Rename, NoFile
<1>5. CASE WriteFails(n) BY <1>5 DEF WriteFails
<1> QED BY <1>1, <1>2, <1>3, <1>4, <1>5 DEF WriteStep

-----------------------------------------------------------------------------
(* What a create does to the directory and to the writers is one of six    *)
(* things, whichever of the two entry points it is in.  Each keeps         *)
(* WritersInv and SettledInv.                                              *)

DirectoryInv == TypeOK /\ WholeInv /\ WritersInv /\ SettledInv

InRun == stage \notin {"idle", "crashed"}

\* A call finds no writer at work, and everything on disk is of earlier runs.
LEMMA CallKeeps ==
  ASSUME TypeOK, SettledInv, NEW first \in Stages \ {"idle", "crashed"}, Call(first)
  PROVE  /\ WritersInv' /\ SettledInv' /\ AllIdle(Names)'
         /\ \A n \in Names : disk'[n].run < run' /\ tmp'[n].run < run'
<1>1. \A n \in Names : disk[n].run \in Int /\ tmp[n].run \in Int /\ settled[n].run \in Int
  BY DEF TypeOK, WriteTypeOK, Content
<1>2. run \in Nat /\ run' = run + 1 /\ stage' = first
  BY AtomicWriteAssumption DEF Call, TypeOK
<1>3. \A n \in Names : disk'[n].run < run' /\ tmp'[n].run < run'
  BY <1>1, <1>2 DEF Call, SettledInv
<1>4. AllIdle(Names)' /\ WritersInv'
  BY DEF Call, NoWriters, AllIdle, WritersInv
<1>5. SettledInv'
  BY <1>1, <1>2, <1>3 DEF Call, SettledInv
<1> QED BY <1>3, <1>4, <1>5

\* A call of write_atomic keeps what the writers have left on disk; only its
\* rename puts something there, of this run.
LEMMA WriteStepKeeps ==
  ASSUME TypeOK, WritersInv, SettledInv, InRun,
         NEW n \in wanted, WriteStep(n, run), UNCHANGED pipeVars
  PROVE  WritersInv' /\ SettledInv'
<1>n. MaxRun \in Nat /\ run \in 0 .. MaxRun /\ WriteTypeOK
  BY AtomicWriteAssumption DEF TypeOK
<1>m. n \in Names
  BY VolumeNames DEF wanted
<1>t. \A m \in Names : disk[m].run \in Int /\ tmp[m].run \in Int /\ settled[m].run \in Int
  BY <1>n DEF WriteTypeOK, Content
<1>1. /\ io[n] \in Steps
      /\ io'[n] \in Steps \cup {"report", "failed"}
      /\ io'[n] \in {"write", "sync", "rename"} =>
           tmp'[n].run = run \/ (io[n] # "create" /\ tmp'[n].run = tmp[n].run)
      /\ io'[n] = "report" =>
           io[n] = "rename" /\ disk'[n] = tmp[n] /\ tmp'[n] = NoFile
      /\ io'[n] # "report" => disk'[n] = disk[n]
      /\ tmp'[n].run \in {tmp[n].run, run, 0}
      /\ settled' = settled
      /\ \A m \in Names \ {n} :
           io'[m] = io[m] /\ tmp'[m] = tmp[m] /\ disk'[m] = disk[m]
  BY <1>m, <1>n, WriteStepWriters
<1>2. wanted' = wanted /\ UNCHANGED <<stage, run, announced>>
  BY DEF pipeVars, runVars, wanted, Volumes
<1>3. io[n] = "rename" => tmp[n].run = run
  BY <1>m DEF InRun, WritersInv
<1>4. WritersInv'
  BY <1>m, <1>1, <1>2 DEF InRun, WritersInv, Steps
<1>5. \A m \in Names : /\ settled[m].run <= disk'[m].run
                      /\ disk'[m].run <= run /\ tmp'[m].run <= run
  BY <1>1, <1>3, <1>n, <1>t DEF SettledInv
<1>6. SettledInv'
  BY <1>1, <1>2, <1>5 DEF SettledInv, InRun
<1> QED BY <1>4, <1>6

\* A step that writes nothing and reports nothing.
LEMMA QuietKeeps ==
  ASSUME WritersInv, SettledInv, InRun, InRun',
         UNCHANGED <<writeVars, runVars, announced>>
  PROVE  WritersInv' /\ SettledInv'
BY DEF writeVars, runVars, WritersInv, SettledInv, InRun, wanted, Volumes

\* A name handed to its writer.
LEMMA TakeKeeps ==
  ASSUME TypeOK, WritersInv, SettledInv, InRun, InRun',
         NEW n \in wanted, Advance(n, "idle", "create"),
         UNCHANGED <<disk, tmp, settled, runVars, announced>>
  PROVE  WritersInv' /\ SettledInv'
BY DEF TypeOK, WriteTypeOK, Advance, runVars, WritersInv, SettledInv, InRun, wanted, Volumes

\* The event of a file that is in place.
LEMMA ReportKeeps ==
  ASSUME TypeOK, WritersInv, SettledInv, InRun, InRun',
         NEW n \in wanted, Advance(n, "report", "done"),
         announced' = announced \cup {n},
         UNCHANGED <<disk, tmp, settled, runVars>>
  PROVE  WritersInv' /\ SettledInv'
<1>1. n \in Names
  BY VolumeNames DEF wanted
<1>2. \A m \in Names : io'[m] = IF m = n THEN "done" ELSE io[m]
  BY DEF TypeOK, WriteTypeOK, Advance
<1>3. WritersInv'
  BY <1>1, <1>2 DEF Advance, runVars, WritersInv, InRun, wanted, Volumes
<1>4. SettledInv'
  BY DEF runVars, SettledInv, InRun
<1> QED BY <1>3, <1>4

\* The end of the process, with or without a power failure.
LEMMA CrashKeeps ==
  ASSUME TypeOK, SettledInv, Kill \/ PowerFailure
  PROVE  WritersInv' /\ SettledInv'
<1>n. MaxRun \in Nat /\ run \in 0 .. MaxRun /\ WriteTypeOK
  BY AtomicWriteAssumption DEF TypeOK
<1>t. \A n \in Names : disk[n].run \in Int /\ tmp[n].run \in Int /\ settled[n].run \in Int
  BY <1>n DEF WriteTypeOK, Content
<1>1. WritersInv'
  BY DEF Kill, PowerFailure, WritersInv
<1>2. CASE Kill
  BY <1>1, <1>2 DEF Kill, Working, WritersKilled, runVars, SettledInv
<1>3. CASE PowerFailure
  <2>1. PICK kept \in SUBSET Names : PowerFails(kept)
    BY <1>3 DEF PowerFailure
  <2>2. \A n \in Names : /\ disk'[n].run \in Int /\ disk'[n].run <= run
                        /\ tmp'[n].run <= run
    <3>1. \A c \in Content : Survives(c).run = c.run
      BY DEF Content, Survives
    <3> QED BY <2>1, <3>1, <1>n, <1>t DEF PowerFails, WriteTypeOK, SettledInv
  <2>3. settled' = disk' /\ run' = run /\ run # 0 /\ stage' = "crashed"
    BY <2>1, <1>3, <1>n DEF PowerFails, PowerFailure, runVars
  <2>4. SettledInv'
    BY <2>2, <2>3 DEF SettledInv
  <2> QED BY <1>1, <2>4
<1> QED BY <1>2, <1>3

\* Every step of the pipeline is one of the six.
LEMMA NextWriters == TypeOK /\ PipeInv /\ [Next]_vars => WritersInv' /\ SettledInv'
<1> SUFFICES ASSUME TypeOK, PipeInv, [Next]_vars PROVE WritersInv' /\ SettledInv'
  OBVIOUS
<1>p. WritersInv /\ SettledInv /\ StageInv /\ Index \in wanted /\ Index \in Names
  BY PipelineAssumption DEF PipeInv, wanted
<1>w. Volumes(layout) \subseteq wanted
  BY DEF wanted
<1>s. "validate" \in Stages \ {"idle", "crashed"}
  BY DEF Stages
<1> USE DEF GoTo, Return, InRun
<1>1. CASE Begin
  BY <1>1, <1>p, <1>s, CallKeeps DEF Begin
<1>2. CASE Validate
  <2>1. io[Index] = "idle"
    BY <1>2, <1>p DEF Validate, StageInv, AllIdle
  <2>2. CASE UNCHANGED io
    BY <1>2, <2>2, <1>p, QuietKeeps DEF Validate, writeVars
  <2>3. CASE Advance(Index, "idle", "create")
    BY <1>2, <2>3, <1>p, TakeKeeps DEF Validate
  <2> QED BY <1>2, <2>1, <2>2, <2>3 DEF Validate, Advance
<1>3. CASE WriteIndex
  BY <1>3, <1>p, WriteStepKeeps DEF WriteIndex
<1>4. CASE IndexWritten
  BY <1>4, <1>p, ReportKeeps DEF IndexWritten
<1>5. ASSUME NEW n \in Volumes(layout), Volume(n) PROVE WritersInv' /\ SettledInv'
  <2>1. CASE TakeVolume(n)
    BY <2>1, <1>p, <1>w, TakeKeeps DEF TakeVolume, pipeVars
  <2>2. CASE WriteVolume(n)
    BY <2>2, <1>p, <1>w, WriteStepKeeps DEF WriteVolume
  <2>3. CASE VolumeWritten(n)
    BY <2>3, <1>p, <1>w, ReportKeeps DEF VolumeWritten
  <2> QED BY <1>5, <2>1, <2>2, <2>3 DEF Volume
<1>6. CASE \/ IndexFailed \/ ResolveVolumeSizes \/ EncodeStart \/ EncodeBlock
           \/ EncodeFailed \/ EncodeDone \/ CollectVolumes
  BY <1>6, <1>p, QuietKeeps DEF IndexFailed, ResolveVolumeSizes, EncodeStart,
     EncodeBlock, EncodeFailed, EncodeDone, CollectVolumes
<1>7. CASE Kill \/ PowerFailure
  BY <1>7, <1>p, CrashKeeps
<1>8. CASE UNCHANGED vars
  BY <1>8, <1>p DEF vars, pipeVars, runVars, writeVars, WritersInv, SettledInv, wanted, Volumes
<1> QED
  BY <1>1, <1>2, <1>3, <1>4, <1>5, <1>6, <1>7, <1>8 DEF Next, Step

\* Every action keeps the stages in step with the writers.
LEMMA NextStage == TypeOK /\ PipeInv /\ [Next]_vars => StageInv'
<1> SUFFICES ASSUME TypeOK, PipeInv, [Next]_vars PROVE StageInv'
  OBVIOUS
<1>n. MaxRun \in Nat /\ Index \in Names /\ run \in 0 .. MaxRun /\ WriteTypeOK
  BY AtomicWriteAssumption, PipelineAssumption DEF TypeOK
<1>v. Volumes(layout) \subseteq Names \ {Index} /\ (layout = <<>> => Volumes(layout) = {})
  BY VolumeNames DEF Volumes
<1>i. io \in [Names -> {"idle", "report", "done", "failed"} \cup Steps]
  BY <1>n DEF WriteTypeOK
<1>p. StageInv /\ WritersInv
  BY DEF PipeInv
<1>q. completes \in Nat
  BY DEF TypeOK
<1>w. layout' = layout => (VolumesFinished' <=>
        \A n \in Volumes(layout) : io'[n] \in {"done", "failed"})
  BY DEF VolumesFinished, Volumes
<1> USE DEF runVars, encodeVars, Steps, GoTo, Return, AllIdle
<1>1. CASE Begin
  BY <1>1 DEF Begin, Call, NoWriters, StageInv
<1>2. CASE Validate
  BY <1>2, <1>n, <1>i, <1>p DEF Validate, StageInv
<1>3. CASE WriteIndex
  <2>1. \A m \in Names \ {Index} : io'[m] = io[m]
    BY <1>3, <1>n, WriteStepWriters DEF WriteIndex
  <2> QED BY <1>3, <2>1, <1>p DEF WriteIndex, pipeVars, StageInv
<1>4. CASE IndexWritten
  BY <1>4, <1>n, <1>i, <1>p DEF IndexWritten, Advance, StageInv
<1>5. CASE IndexFailed
  BY <1>5, <1>n, <1>i, <1>p DEF IndexFailed, writeVars, StageInv
<1>6. CASE ResolveVolumeSizes
  BY <1>6, <1>n, <1>i, <1>p DEF ResolveVolumeSizes, writeVars, StageInv
<1>7. CASE EncodeStart \/ EncodeBlock
  BY <1>7, <1>p DEF EncodeStart, EncodeBlock, writeVars, StageInv
<1>8. CASE EncodeFailed
  BY <1>8, <1>n, <1>i, <1>p DEF EncodeFailed, writeVars, StageInv
<1>9. CASE EncodeDone
  BY <1>9, <1>p, <1>q DEF EncodeDone, writeVars, StageInv
<1>10. ASSUME NEW n \in Volumes(layout), Volume(n) PROVE StageInv'
  <2>1. /\ stage = "volumes" /\ stage' = stage /\ completes' = completes
        /\ \A m \in Names \ {n} : io'[m] = io[m]
    <3>1. CASE TakeVolume(n)
      BY <3>1, <1>i, <1>v DEF TakeVolume, Advance, pipeVars
    <3>2. CASE WriteVolume(n)
      BY <3>2, <1>n, <1>v, WriteStepWriters DEF WriteVolume, pipeVars
    <3>3. CASE VolumeWritten(n)
      BY <3>3, <1>i, <1>v DEF VolumeWritten, Advance
    <3> QED BY <1>10, <3>1, <3>2, <3>3 DEF Volume
  <2> QED BY <2>1, <1>n, <1>v, <1>p DEF StageInv
<1>11. CASE CollectVolumes
  <2>1. \A n \in Names : n \notin Volumes(layout) /\ n # Index => io[n] = "idle"
    BY <1>11, <1>p DEF CollectVolumes, WritersInv, wanted
  <2>2. \A n \in Names : io[n] \in {"idle", "done", "failed"}
    BY <2>1, <1>11, <1>p DEF CollectVolumes, VolumesFinished, StageInv
  <2> QED
    BY <1>11, <2>2, <1>p, <1>w DEF CollectVolumes, writeVars, StageInv, VolumesFinished, Volumes
<1>12. CASE Kill \/ PowerFailure
  BY <1>12 DEF Kill, PowerFailure, StageInv
<1>13. CASE UNCHANGED vars
  BY <1>13, <1>p DEF vars, pipeVars, writeVars, StageInv, VolumesFinished, Volumes
<1> QED
  BY <1>1, <1>2, <1>3, <1>4, <1>5, <1>6, <1>7, <1>8, <1>9, <1>10, <1>11, <1>12,
     <1>13 DEF Next, Step

\* The three together are inductive.
LEMMA PipeInvariant == Spec => []PipeInv
<1>1. TypeOK /\ PipeInv /\ [Next]_vars => PipeInv'
  BY NextWriters, NextStage DEF PipeInv
<1> QED BY <1>1, InitPipe, TypeCorrect, PTL DEF Spec

\* Ok means that every file is in place, told of, and without a tmp file.
LEMMA OkComplete == TypeOK /\ PipeInv => OkMeansComplete
<1> SUFFICES ASSUME TypeOK, PipeInv, stage = "returned", result = "ok",
                    NEW n \in wanted
             PROVE  disk[n].run = run /\ n \in announced /\ tmp[n] = NoFile
  BY DEF OkMeansComplete
<1>1. n \in Names
  BY VolumeNames DEF wanted
<1>2. io[n] = "done"
  BY DEF PipeInv, StageInv, wanted, Volumes
<1> QED BY <1>1, <1>2 DEF PipeInv, WritersInv

\* Ok is only returned when every file is in place, told of, without a tmp file.
THEOREM OkIsComplete == Spec => []OkMeansComplete
BY OkComplete, TypeCorrect, PipeInvariant, PTL

\* The reporter only hears of files that are in place.
THEOREM EventsAreTrue == Spec => []AnnouncedInPlace
<1>1. TypeOK /\ PipeInv => AnnouncedInPlace
  BY DEF TypeOK, PipeInv, WritersInv, AnnouncedInPlace
<1> QED BY <1>1, TypeCorrect, PipeInvariant, PTL

\* No pool thread writes on after the call has returned.
THEOREM NothingOutlivesTheCall == Spec => []NoWriterOutlivesTheCall
<1>1. PipeInv => NoWriterOutlivesTheCall
  BY DEF PipeInv, StageInv, NoWriterOutlivesTheCall
<1> QED BY <1>1, PipeInvariant, PTL
-----------------------------------------------------------------------------
(* The refinement                                                          *)

SafeInv == TypeOK /\ WholeInv /\ PipeInv /\ OkMeansComplete

\* All of the above holds of every reachable state.
LEMMA Safe == Spec => []SafeInv
<1>1. Init => WholeInv
  BY DEF Init, WriteInit, WholeInv, Intact
<1> QED
  BY <1>1, NextWhole, TypeCorrect, PipeInvariant, OkIsComplete, PTL DEF Spec, SafeInv

\* The index is in place while volumes are written.
LEMMA IndexIsThere ==
  ASSUME WritersInv, InRun, io[Index] = "done"
  PROVE  disk[Index].run = run
BY PipelineAssumption DEF InRun, WritersInv

\* A call of write_atomic changes no final name, or publishes the whole file of
\* the writer's own name.
LEMMA WriteStepDisk ==
  ASSUME DirectoryInv, InRun, NEW n \in wanted, WriteStep(n, run)
  PROVE  /\ n \in Names
         /\ \A m \in Names \ {n} : disk'[m] = disk[m]
         /\ disk'[n] = disk[n] \/ disk'[n].run = run
<1>1. n \in Names /\ MaxRun \in Nat /\ run \in 0 .. MaxRun /\ WriteTypeOK
  BY VolumeNames, AtomicWriteAssumption DEF DirectoryInv, TypeOK, wanted
<1>2. /\ io'[n] = "report" => io[n] = "rename" /\ disk'[n] = tmp[n]
      /\ io'[n] # "report" => disk'[n] = disk[n]
      /\ \A m \in Names \ {n} : disk'[m] = disk[m]
  BY <1>1, WriteStepWriters
<1>3. io[n] = "rename" => tmp[n].run = run
  BY <1>1 DEF DirectoryInv, WritersInv, InRun
<1> QED BY <1>1, <1>2, <1>3

\* A power failure leaves of a name what it had or what it had settled on.
LEMMA PowerFailureDisk ==
  ASSUME DirectoryInv, PowerFailure, NEW n \in Names
  PROVE  disk'[n] = disk[n] \/ disk'[n] = settled[n]
<1>1. PICK kept \in SUBSET Names : PowerFails(kept)
  BY DEF PowerFailure
<1>2. Survives(disk[n]) = disk[n] /\ Survives(settled[n]) = settled[n]
  BY IntactSurvives DEF DirectoryInv, WholeInv, TypeOK, WriteTypeOK
<1> QED BY <1>1, <1>2 DEF PowerFails

\* What a power failure brings back is not of the current run.
LEMMA SettledIsOld ==
  ASSUME DirectoryInv, PowerFailure, NEW n \in Names, disk'[n] # disk[n]
  PROVE  disk'[n].run # run'
<1>1. disk'[n] = settled[n] /\ run' = run /\ run # 0
  BY PowerFailureDisk, AtomicWriteAssumption DEF PowerFailure, runVars, DirectoryInv, TypeOK
<1>2. settled[n].run \in Int /\ run \in Int
  BY AtomicWriteAssumption DEF DirectoryInv, TypeOK, WriteTypeOK, Content
<1> QED BY <1>1, <1>2 DEF DirectoryInv, SettledInv

\* A step that puts a volume of the current run in place (write_atomic, after
\* that of the index, creator.rs:237 and 305) finds the index of this run there.
\* What other names hold may be of earlier runs.
THEOREM VolumesFollowTheIndex == Spec => IndexFirst
<1>1. SafeInv /\ [Next]_vars =>
        [\A n \in Names \ {Index} :
           disk'[n] # disk[n] /\ disk'[n].run = run => disk[Index].run = run]_vars
  <2> SUFFICES ASSUME SafeInv, Next, NEW n \in Names \ {Index},
                      disk'[n] # disk[n], disk'[n].run = run
               PROVE  disk[Index].run = run
    OBVIOUS
  <2>p. DirectoryInv /\ StageInv
    BY DEF SafeInv, PipeInv, DirectoryInv
  <2>1. CASE WriteIndex
    <3>1. Index \in wanted /\ InRun
      BY <2>1 DEF WriteIndex, wanted, InRun
    <3> QED BY <2>1, <2>p, <3>1, WriteStepDisk DEF WriteIndex
  <2>2. ASSUME NEW w \in Volumes(layout), WriteVolume(w) PROVE disk[Index].run = run
    BY <2>2, <2>p, IndexIsThere DEF WriteVolume, StageInv, InRun, DirectoryInv
  <2>3. CASE PowerFailure
    BY <2>3, <2>p, SettledIsOld DEF PowerFailure, runVars
  <2> QED
    BY <2>1, <2>2, <2>3 DEF Next, Step, Volume, Begin, Call, Validate, IndexWritten,
       IndexFailed, ResolveVolumeSizes, EncodeStart, EncodeBlock, EncodeFailed,
       EncodeDone, TakeVolume, VolumeWritten, CollectVolumes, Kill, WritersKilled,
       writeVars
<1> QED BY <1>1, Safe, PTL DEF Spec, IndexFirst

-----------------------------------------------------------------------------
(* The six kinds of steps as RecoverySet sees them                         *)

\* Before the first call RecoverySet sees no file, nothing wanted and no run.
LEMMA InitRefines == Init => RS!Init
<1> SUFFICES ASSUME Init PROVE RS!Init
  OBVIOUS
<1>1. \A n \in Names : Seen(disk[n]) = 0
  BY DEF Init, WriteInit, Seen, Intact, NoFile
<1>2. [n \in Names |-> Seen(disk[n])] = [n \in Names |-> 0]
  BY <1>1
<1>3. Outcome = "none"
  BY DEF Init, Outcome, Working
<1> QED BY <1>2, <1>3 DEF Init, RS!Init

\* What RecoverySet sees of whole files is the runs they are of.
LEMMA SeenIsRun ==
  ASSUME WholeInv
  PROVE  [n \in Names |-> Seen(disk[n])] = [n \in Names |-> disk[n].run]
<1>1. \A n \in Names : Seen(disk[n]) = disk[n].run
  BY DEF WholeInv, Seen
<1> QED BY <1>1

\* The files of the next state as well.
LEMMA SeenWillBeRun ==
  ASSUME WholeInv'
  PROVE  [n \in Names |-> Seen(disk[n])]' = [n \in Names |-> disk'[n].run]
<1>1. \A n \in Names : Seen(disk'[n]) = disk'[n].run
  BY DEF WholeInv, Seen
<1> QED BY <1>1

\* A working create is running, whatever its stage; a crashed one is crashed.
OutcomeFits ==
  /\ Working <=> Outcome = "running"
  /\ stage = "crashed" => Outcome = "crashed"
  /\ stage = "returned" => Outcome = result

\* That is so in every state of the right type.
LEMMA OutcomeIs == TypeOK => OutcomeFits
<1> SUFFICES ASSUME TypeOK PROVE OutcomeFits
  OBVIOUS
<1>1. CASE Working
  BY <1>1 DEF OutcomeFits, Outcome, Working
<1>2. CASE ~Working
  BY <1>2 DEF OutcomeFits, Outcome, Working, TypeOK
<1> QED BY <1>1, <1>2

\* In the next one, too.
LEMMA OutcomeWillBe == TypeOK' => OutcomeFits'
BY OutcomeIs, PTL

\* The names a call has to produce are output files, the index among them.
LEMMA WantedNames ==
  ASSUME layout \in Layouts \cup {<<>>}
  PROVE  wanted \subseteq Names /\ Index \in wanted
<1>1. CASE layout \in Layouts
  BY <1>1, PipelineAssumption DEF wanted, Volumes
<1>2. CASE layout = <<>>
  BY <1>2, PipelineAssumption DEF wanted, Volumes
<1> QED BY <1>1, <1>2

\* A call begins a run.
LEMMA CallRefines ==
  ASSUME TypeOK, TypeOK', NEW first \in Stages \ {"idle", "returned", "crashed"}, Call(first)
  PROVE  RS!Begin
<1>1. Outcome # "running" /\ Outcome' = "running"
  BY OutcomeIs, OutcomeWillBe DEF OutcomeFits, Call, Working
<1>2. run' # 0 /\ run' = run + 1 /\ run < MaxRun
  BY AtomicWriteAssumption DEF Call, TypeOK
<1>3. [n \in Names |-> Seen(disk[n])]' = [n \in Names |-> Seen(disk[n])]
  BY DEF Call
<1>4. wanted' \in {W \in SUBSET Names : Index \in W}
  BY PipelineAssumption DEF Call, wanted, Volumes
<1> QED BY <1>1, <1>2, <1>3, <1>4 DEF RS!Begin

\* A kill or a power failure is a crash, which brings back nothing newer.
LEMMA CrashRefines ==
  ASSUME DirectoryInv, DirectoryInv', Kill \/ PowerFailure
  PROVE  RS!Crash
<1>1. UNCHANGED <<run, layout>> /\ Outcome' = "crashed"
  BY OutcomeWillBe DEF OutcomeFits, Kill, PowerFailure, runVars, DirectoryInv
<1>2. \A n \in Names : disk'[n].run <= disk[n].run /\ disk'[n].run \in 0 .. MaxRun
  <2>1. \A n \in Names : disk'[n] = disk[n] \/ disk'[n] = settled[n]
    BY PowerFailureDisk DEF Kill, WritersKilled
  <2>2. \A n \in Names : /\ disk[n].run \in 0 .. MaxRun
                         /\ settled[n].run \in 0 .. MaxRun
                         /\ settled[n].run <= disk[n].run
    BY DEF DirectoryInv, SettledInv, TypeOK, WriteTypeOK, Content
  <2> QED BY <2>1, <2>2, AtomicWriteAssumption
<1>3. wanted' = wanted
  BY <1>1 DEF wanted, Volumes
<1> QED
  BY <1>1, <1>2, <1>3, SeenIsRun, SeenWillBeRun DEF RS!Crash, DirectoryInv

\* A call of write_atomic publishes the file of its writer, or does not show.
LEMMA WriteStepRefines ==
  ASSUME DirectoryInv, DirectoryInv', Working, NEW n \in wanted,
         WriteStep(n, run), UNCHANGED pipeVars, n # Index => io[Index] = "done"
  PROVE  [RS!Next]_RS!vars
<1> DEFINE files == [m \in Names |-> Seen(disk[m])]
<1>r. InRun /\ run # 0
  BY DEF Working, InRun, DirectoryInv, SettledInv
<1>f. files = [m \in Names |-> disk[m].run] /\ files' = [m \in Names |-> disk'[m].run]
  BY SeenIsRun, SeenWillBeRun DEF DirectoryInv
<1>u. UNCHANGED <<run, layout, stage, result>> /\ wanted' = wanted
  BY DEF pipeVars, runVars, wanted, Volumes
<1>o. Outcome = "running" /\ Outcome' = "running"
  BY <1>u, OutcomeIs, OutcomeWillBe DEF OutcomeFits, DirectoryInv, Working
<1>1. /\ n \in Names
      /\ \A m \in Names \ {n} : disk'[m] = disk[m]
      /\ disk'[n] = disk[n] \/ disk'[n].run = run
  BY <1>r, WriteStepDisk
<1>2. CASE disk'[n].run = disk[n].run
  <2>1. files' = files
    BY <1>f, <1>1, <1>2
  <2> HIDE DEF files
  <2> QED BY <2>1, <1>u, <1>o DEF RS!vars, files
<1>3. CASE disk'[n].run # disk[n].run
  <2>1. files' = [files EXCEPT ![n] = run] /\ files[n] # run
    BY <1>f, <1>1, <1>3
  <2>2. n # Index => files[Index] = run
    BY <1>f, <1>r, IndexIsThere, PipelineAssumption DEF DirectoryInv
  <2>3. RS!Publish(n)
    BY <2>1, <2>2, <1>r, <1>u, <1>o DEF RS!Publish
  <2> QED BY <1>1, <2>3 DEF RS!Next
<1> QED BY <1>2, <1>3

\* A step that leaves the final names alone: the create goes on, or it returns,
\* with Ok only if everything is in place.
LEMMA QuietRefines ==
  ASSUME DirectoryInv, TypeOK', OkMeansComplete', Working, UNCHANGED <<disk, runVars>>,
         Working' \/ (stage' = "returned" /\ result' \in {"ok", "error"})
  PROVE  [RS!Next]_RS!vars
<1> DEFINE files == [m \in Names |-> Seen(disk[m])]
<1>u. UNCHANGED <<run, layout, files, wanted>> /\ run # 0
  BY DEF runVars, wanted, Volumes, DirectoryInv, SettledInv, Working
<1>f. files = [m \in Names |-> disk[m].run]
  BY SeenIsRun DEF DirectoryInv
<1>o. Outcome = "running"
  BY OutcomeIs DEF OutcomeFits, DirectoryInv
<1>1. CASE Working'
  <2>1. Outcome' = "running"
    BY <1>1, OutcomeWillBe DEF OutcomeFits
  <2> QED BY <2>1, <1>u, <1>o DEF RS!vars
<1>2. CASE stage' = "returned" /\ result' = "ok"
  <2>1. \A n \in wanted : disk[n].run = run /\ n \in Names
    BY <1>2, <1>u, WantedNames DEF OkMeansComplete, DirectoryInv, TypeOK
  <2>2. Outcome' = "ok"
    BY <1>2, OutcomeWillBe DEF OutcomeFits
  <2>3. RS!Succeed
    BY <2>1, <2>2, <1>u, <1>f, <1>o DEF RS!Succeed
  <2> QED BY <2>3 DEF RS!Next
<1>3. CASE stage' = "returned" /\ result' = "error"
  <2>1. Outcome' = "error"
    BY <1>3, OutcomeWillBe DEF OutcomeFits
  <2>2. RS!Fail
    BY <2>1, <1>u, <1>o DEF RS!Fail
  <2> QED BY <2>2 DEF RS!Next
<1> QED BY <1>1, <1>2, <1>3

\* A step that changes nothing of the pipeline does not show.
LEMMA StutterRefines ==
  ASSUME UNCHANGED vars
  PROVE  [RS!Next]_RS!vars
BY DEF vars, writeVars, pipeVars, runVars, wanted, Volumes, RS!vars, Seen, Intact,
       Outcome, Working

\* Every step of the pipeline is a step of RecoverySet, or is not seen by it.
LEMMA StepRefines ==
  ASSUME SafeInv, SafeInv', Step
  PROVE  [RS!Next]_RS!vars
<1>p. DirectoryInv /\ DirectoryInv' /\ StageInv /\ TypeOK' /\ OkMeansComplete'
  BY DEF SafeInv, PipeInv, DirectoryInv
<1>w. Index \in wanted /\ Volumes(layout) \subseteq wanted
  BY DEF wanted
<1> USE DEF Working
<1>1. CASE WriteIndex
  BY <1>1, <1>p, <1>w, WriteStepRefines DEF WriteIndex
<1>2. ASSUME NEW n \in Volumes(layout), WriteVolume(n) PROVE [RS!Next]_RS!vars
  BY <1>2, <1>p, <1>w, WriteStepRefines DEF WriteVolume, StageInv
<1>3. ASSUME NEW n \in Volumes(layout), TakeVolume(n) \/ VolumeWritten(n)
      PROVE  [RS!Next]_RS!vars
  BY <1>3, <1>p, QuietRefines DEF TakeVolume, VolumeWritten, pipeVars
<1>4. CASE \/ Validate \/ IndexWritten \/ IndexFailed \/ ResolveVolumeSizes
           \/ EncodeStart \/ EncodeBlock \/ EncodeFailed \/ EncodeDone
           \/ CollectVolumes
  <2>1. /\ Working /\ UNCHANGED <<disk, runVars>>
        /\ Working' \/ (stage' = "returned" /\ result' \in {"ok", "error"})
    BY <1>4 DEF Validate, IndexWritten, IndexFailed, ResolveVolumeSizes, EncodeStart,
       EncodeBlock, EncodeFailed, EncodeDone, CollectVolumes, writeVars, GoTo, Return
  <2> QED BY <2>1, <1>p, QuietRefines
<1> QED BY <1>1, <1>2, <1>3, <1>4 DEF Step, Volume

\* So is every step of the specification.
LEMMA NextRefines == SafeInv /\ SafeInv' /\ [Next]_vars => [RS!Next]_RS!vars
<1> SUFFICES ASSUME SafeInv, SafeInv', [Next]_vars PROVE [RS!Next]_RS!vars
  OBVIOUS
<1>p. DirectoryInv /\ DirectoryInv' /\ TypeOK /\ TypeOK'
  BY DEF SafeInv, PipeInv, DirectoryInv
<1>1. CASE Begin
  <2>1. "validate" \in Stages \ {"idle", "returned", "crashed"}
    BY DEF Stages
  <2>2. RS!Begin
    BY <1>1, <2>1, <1>p, CallRefines DEF Begin
  <2> QED BY <2>2 DEF RS!Next
<1>2. CASE Kill \/ PowerFailure
  <2>1. RS!Crash
    BY <1>2, <1>p, CrashRefines
  <2> QED BY <2>1 DEF RS!Next
<1> QED BY <1>1, <1>2, StepRefines, StutterRefines DEF Next

\* The pipeline keeps the promise of RecoverySet.
THEOREM PipelineKeepsPromise == Spec => KeepsPromise
BY InitRefines, NextRefines, Safe, PTL DEF Spec, KeepsPromise, RS!Spec

-----------------------------------------------------------------------------
(* Offsets of the files                                                    *)

\* The recursion that defines Offset has a solution.
LEMMA OffsetUnfolds ==
  Offset = [f \in 1 .. Len(FileBlocks) + 1 |->
              IF f = 1 THEN 0 ELSE Offset[f - 1] + FileBlocks[f - 1]]
<1>1. Len(FileBlocks) \in Nat
  BY FusedAssumption
<1>2. \E g : g = [f \in 1 .. Len(FileBlocks) + 1 |->
                    IF f = 1 THEN 0 ELSE g[f - 1] + FileBlocks[f - 1]]
  BY <1>1, RunningSumsExist
<1> QED BY <1>2 DEF Offset

\* Every file begins where the one before it ends.
LEMMA OffsetNext ==
  /\ Offset[1] = 0
  /\ \A f \in Files : Offset[f + 1] = Offset[f] + FileBlocks[f]
  /\ \A f \in Files : FileBlocks[f] \in Nat \ {0}
<1> USE FusedAssumption DEF Files
<1>1. Offset[1] = 0
  BY OffsetUnfolds
<1>2. ASSUME NEW f \in Files PROVE Offset[f + 1] = Offset[f] + FileBlocks[f]
  <2>1. f + 1 \in 1 .. Len(FileBlocks) + 1 /\ f + 1 # 1 /\ (f + 1) - 1 = f
    OBVIOUS
  <2> QED BY <2>1, OffsetUnfolds
<1> QED BY <1>1, <1>2

\* Offsets are numbers, none beyond the last block of the run.
LEMMA OffsetType == \A f \in 1 .. Len(FileBlocks) + 1 : Offset[f] \in 0 .. Blocks
<1> DEFINE N == Len(FileBlocks)
           Up == {n \in Nat : n \in 0 .. N => Offset[n + 1] \in Nat}
           Down == {n \in Nat : n \in 0 .. N => Offset[N + 1 - n] <= Blocks}
<1>n. N \in Nat \ {0} /\ Blocks = Offset[N + 1] /\ Files = 1 .. N
  BY FusedAssumption DEF Files
<1> HIDE DEF N
<1>1. Nat \subseteq Up
  <2>1. 0 \in Up
    BY OffsetNext
  <2>2. ASSUME NEW n \in Nat, n \in Up PROVE n + 1 \in Up
    <3>1. CASE n + 1 \in 0 .. N
      <4>1. n + 1 \in Files /\ n \in 0 .. N
        BY <3>1, <1>n
      <4>2. Offset[(n + 1) + 1] = Offset[n + 1] + FileBlocks[n + 1] /\ FileBlocks[n + 1] \in Nat
        BY <4>1, OffsetNext
      <4> QED BY <4>1, <4>2, <2>2
    <3> QED BY <3>1
  <2> HIDE DEF Up
  <2> QED BY <2>1, <2>2, NatInSet
<1>2. \A f \in 1 .. N + 1 : Offset[f] \in Nat
  <2> SUFFICES ASSUME NEW f \in 1 .. N + 1 PROVE Offset[f] \in Nat
    OBVIOUS
  <2>1. f - 1 \in Nat /\ f - 1 \in 0 .. N /\ (f - 1) + 1 = f
    BY <1>n
  <2> QED BY <2>1, <1>1
<1>3. Nat \subseteq Down
  <2>1. 0 \in Down
    BY <1>n, <1>2
  <2>2. ASSUME NEW n \in Nat, n \in Down PROVE n + 1 \in Down
    <3>1. CASE n + 1 \in 0 .. N
      <4>1. N - n \in Files /\ (N - n) + 1 = N + 1 - n /\ N + 1 - (n + 1) = N - n
        BY <3>1, <1>n
      <4>2. Offset[(N - n) + 1] = Offset[N - n] + FileBlocks[N - n] /\ FileBlocks[N - n] \in Nat
        BY <4>1, OffsetNext
      <4>3. Offset[N - n] \in Nat /\ Offset[N + 1 - n] <= Blocks /\ Blocks \in Nat
        BY <3>1, <4>1, <2>2, <1>2, <1>n
      <4> QED BY <4>1, <4>2, <4>3
    <3> QED BY <3>1
  <2> HIDE DEF Down
  <2> QED BY <2>1, <2>2, NatInSet
<1>4. \A f \in 1 .. N + 1 : Offset[f] <= Blocks
  <2> SUFFICES ASSUME NEW f \in 1 .. N + 1 PROVE Offset[f] <= Blocks
    OBVIOUS
  <2>1. N + 1 - f \in Nat /\ N + 1 - f \in 0 .. N /\ N + 1 - (N + 1 - f) = f
    BY <1>n
  <2> QED BY <2>1, <1>3
<1>5. Blocks \in Nat
  BY <1>n, <1>2
<1> QED BY <1>2, <1>4, <1>5 DEF N

-----------------------------------------------------------------------------
(* The invariant.  DirectoryInv is that of the pipeline.  Its StageInv is  *)
(* kept in the stages of the pipeline, from either entry point; what is    *)
(* true at the stages of run_create_fused, and of a returned call, is      *)
(* FStageInv, and the state of the encode is ScanInv.                      *)

Quiet == {"stat", "scan", "rescan"} \* stages that write nothing

Legacy == {"idle", "validate", "index", "resolve", "encode", "encoding", "volumes",
           "crashed"}

FStageInv ==
  /\ stage \in Legacy => StageInv
  /\ stage \in Quiet =>
       /\ AllIdle(Names)
       /\ \A n \in Names : disk[n].run < run /\ tmp[n].run < run
  /\ stage \in {"fusedIndex", "fusedResolve"} => AllIdle(Names \ {Index})
  /\ stage \in {"fusedResolve", "fusedVolumes"} => io[Index] = "done"
  /\ stage = "fusedVolumes" =>
       \A i, j \in DOMAIN layout :
         i < j /\ io[layout[j]] # "idle" => io[layout[i]] = "done"
  /\ stage = "returned" =>
       /\ \A n \in Names : io[n] \in {"idle", "done", "failed"}
       /\ result = "ok" => \A n \in wanted : io[n] = "done"

ScanInv ==
  /\ stage = "stat" => file = 1 /\ arms = {} /\ tick = 0 /\ starts = 0
  /\ stage \in Quiet => completes = 0
  /\ stage = "scan" =>
       /\ arms # {} => file \in Files
       /\ "encode" \in arms => recovering
       /\ recovering =>
            /\ starts = 1
            /\ arms = {} => tick = Offset[file]
            /\ "encode" \in arms => Offset[file] <= tick /\ tick < Offset[file + 1]
            /\ arms = {"scan"} => tick = Offset[file + 1]
  /\ stage = "rescan" => file \in Files
  /\ stage \in {"fusedIndex", "fusedResolve", "fusedVolumes"} /\ recovering =>
       tick = Blocks /\ starts = 1 /\ completes = 1

FInv == FTypeOK /\ DirectoryInv /\ FStageInv /\ ScanInv

\* The invariant holds before the first call.
LEMMA FInitInv == FInit => FInv
<1> SUFFICES ASSUME FInit PROVE FInv
  OBVIOUS
<1>1. TypeOK /\ PipeInv
  BY InitType, InitPipe DEF FInit
<1>2. WholeInv
  BY DEF FInit, Init, WriteInit, WholeInv, Intact
<1>3. FTypeOK
  BY <1>1, FusedAssumption DEF FInit, FTypeOK
<1>4. FStageInv /\ ScanInv
  BY <1>1 DEF FInit, Init, PipeInv, FStageInv, ScanInv, Quiet, Legacy
<1> QED BY <1>1, <1>2, <1>3, <1>4 DEF FInv, DirectoryInv, PipeInv

-----------------------------------------------------------------------------
(* The steps of the pipeline, in a call of either entry point.             *)

\* In the stages of the pipeline its own invariant holds.
LEMMA LegacyStep ==
  ASSUME FInv, Step
  PROVE  stage \in Legacy /\ PipeInv
<1>1. stage \in Legacy
  BY DEF Step, Volume, Validate, WriteIndex, IndexWritten, IndexFailed,
     ResolveVolumeSizes, EncodeStart, EncodeBlock, EncodeFailed, EncodeDone,
     TakeVolume, WriteVolume, VolumeWritten, CollectVolumes, Legacy
<1> QED BY <1>1 DEF FInv, DirectoryInv, FStageInv, PipeInv

\* A step of the pipeline stays in its stages or returns.
LEMMA StepKeeps ==
  ASSUME FInv, Step, UNCHANGED fusedVars
  PROVE  FInv'
<1>p. stage \in Legacy /\ PipeInv /\ TypeOK /\ WholeInv /\ [Next]_vars
  BY LegacyStep DEF FInv, DirectoryInv, Next
<1>1. TypeOK' /\ WholeInv' /\ WritersInv' /\ SettledInv' /\ StageInv'
  BY <1>p, NextType, NextWhole, NextWriters, NextStage
<1>2. FTypeOK'
  BY <1>1 DEF FInv, FTypeOK, fusedVars
<1>3. stage' \in (Legacy \cup {"returned"}) \ {"idle", "crashed"}
  BY DEF Step, Volume, Validate, WriteIndex, IndexWritten, IndexFailed,
     ResolveVolumeSizes, EncodeStart, EncodeBlock, EncodeFailed, EncodeDone,
     TakeVolume, WriteVolume, VolumeWritten, CollectVolumes, Legacy, GoTo, Return,
     pipeVars
<1>4. ScanInv'
  BY <1>3 DEF ScanInv, Legacy, Quiet
<1>5. stage' = "returned" /\ result' = "ok" => \A n \in wanted' : io'[n] = "done"
  BY <1>1 DEF StageInv, wanted, Volumes
<1>6. FStageInv'
  BY <1>1, <1>3, <1>5 DEF FStageInv, StageInv, Legacy, Quiet
<1> QED BY <1>1, <1>2, <1>4, <1>6 DEF FInv, DirectoryInv

\* A call of either entry point starts over.
LEMMA CallKeepsAll ==
  ASSUME FInv, FBegin \/ (Begin /\ file' = 1 /\ arms' = {})
  PROVE  FInv'
<1>1. PICK first \in {"stat", "validate"} : Call(first)
  BY DEF FBegin, Begin
<1>2. first \in Stages \ {"idle", "crashed"} /\ TypeOK /\ SettledInv /\ WholeInv
  BY DEF Stages, FInv, DirectoryInv
<1>3. /\ WritersInv' /\ SettledInv' /\ AllIdle(Names)'
      /\ \A n \in Names : disk'[n].run < run' /\ tmp'[n].run < run'
  BY <1>1, <1>2, CallKeeps
<1>4. TypeOK' /\ WholeInv'
  <2>1. MaxRun \in Nat /\ Blocks \in Nat
    BY AtomicWriteAssumption, PipelineAssumption
  <2>2. TypeOK'
    BY <1>1, <1>2, <2>1 DEF Call, NoWriters, TypeOK, WriteTypeOK, runVars, encodeVars
  <2>3. WholeInv'
    BY <1>1, <1>2 DEF Call, NoWriters, WholeInv
  <2> QED BY <2>2, <2>3
<1>5. stage' = first /\ completes' = 0 /\ tick' = 0 /\ starts' = 0 /\ file' = 1 /\ arms' = {}
  BY <1>1 DEF FBegin, Call, Begin
<1>6. FTypeOK'
  BY <1>4, <1>5, FusedAssumption DEF FTypeOK
<1>7. FStageInv' /\ ScanInv'
  BY <1>3, <1>5 DEF FStageInv, StageInv, ScanInv, Quiet, Legacy, AllIdle
<1> QED BY <1>3, <1>4, <1>6, <1>7 DEF FInv, DirectoryInv

\* The end of the process, with or without a power failure.
LEMMA CrashKeepsAll ==
  ASSUME FInv, Kill \/ PowerFailure, UNCHANGED file, arms' = {}
  PROVE  FInv'
<1>p. TypeOK /\ WholeInv /\ SettledInv /\ [Next]_vars
  BY DEF FInv, DirectoryInv, Next
<1>1. TypeOK' /\ WholeInv' /\ WritersInv' /\ SettledInv'
  BY <1>p, NextType, NextWhole, CrashKeeps
<1>2. stage' = "crashed"
  BY DEF Kill, PowerFailure
<1>3. FTypeOK'
  BY <1>1 DEF FInv, FTypeOK
<1>4. FStageInv' /\ ScanInv'
  BY <1>2 DEF FStageInv, StageInv, ScanInv, Quiet, Legacy
<1> QED BY <1>1, <1>3, <1>4 DEF FInv, DirectoryInv

-----------------------------------------------------------------------------
(* The steps of run_create_fused                                           *)

ScanSteps ==
  \/ Stat \/ MapFile \/ OpenFails \/ MapFails \/ ScanArm \/ EncodeArm \/ FilesDone
  \/ Rescan

OutputSteps ==
  \/ FIndexWritten \/ FResolveVolumeSizes
  \/ \E i \in DOMAIN layout : FNextVolume(i)
  \/ \E n \in Volumes(layout) : FVolumeWritten(n)
  \/ \E n \in wanted : FWrite(n)
  \/ FWriteFailed \/ FReturnOk

\* The steps before any output file is begun keep the directory as it is.
LEMMA ScanDirectory ==
  ASSUME FInv, ScanSteps
  PROVE  DirectoryInv' /\ FTypeOK'
<1> USE DEF ScanSteps
<1>p. TypeOK /\ WholeInv /\ WritersInv /\ SettledInv /\ FTypeOK /\ Index \in wanted
  BY DEF FInv, DirectoryInv, wanted
<1>n. MaxRun \in Nat /\ Blocks \in Nat \ {0} /\ Index \in Names
  BY AtomicWriteAssumption, PipelineAssumption
<1>f. Len(FileBlocks) \in Nat \ {0} /\ Files = 1 .. Len(FileBlocks)
  BY FusedAssumption DEF Files
<1>1. UNCHANGED <<disk, tmp, settled, runVars, announced>> /\ InRun /\ InRun'
  BY DEF Stat, MapFile, OpenFails, MapFails, ScanArm, EncodeArm, FilesDone, Rescan,
     writeVars, vars, pipeVars, InRun, GoTo, Return
<1>2. UNCHANGED io \/ Advance(Index, "idle", "create")
  <2>1. stage = "scan" => io[Index] = "idle"
    BY <1>n DEF FInv, FStageInv, Quiet, AllIdle
  <2> QED
    BY <2>1 DEF Stat, MapFile, OpenFails, MapFails, ScanArm, EncodeArm, FilesDone,
       Rescan, writeVars, vars, Advance
<1>3. WritersInv' /\ SettledInv'
  BY <1>p, <1>1, <1>2, QuietKeeps, TakeKeeps DEF writeVars
<1>4. WholeInv'
  BY <1>p, <1>1, <1>2 DEF Advance, WholeInv, TypeOK, WriteTypeOK
<1>5. WriteTypeOK'
  BY <1>p, <1>1, <1>2 DEF Advance, TypeOK, WriteTypeOK, Steps
<1>6. tick' \in 0 .. Blocks
  <2>1. CASE EncodeArm
    <3>1. file \in Files /\ tick < Offset[file + 1] /\ tick' = tick + 1
      BY <2>1 DEF EncodeArm, FInv, ScanInv
    <3>2. Offset[file + 1] \in 0 .. Blocks
      BY <3>1, <1>f, OffsetType
    <3> QED BY <3>1, <3>2, <1>p, <1>n DEF TypeOK
  <2>2. CASE UNCHANGED tick
    BY <2>2, <1>p DEF TypeOK
  <2> QED
    BY <2>1, <2>2 DEF Stat, MapFile, OpenFails, MapFails, ScanArm, FilesDone, Rescan,
       vars, pipeVars, encodeVars
<1>7. /\ stage' \in Stages /\ result' \in {"none", "ok", "error"}
      /\ starts' \in Nat /\ completes' \in Nat
  BY <1>p DEF Stat, MapFile, OpenFails, MapFails, ScanArm, EncodeArm, FilesDone, Rescan,
     vars, pipeVars, encodeVars, GoTo, Return, Stages, TypeOK
<1>8. TypeOK'
  BY <1>p, <1>1, <1>5, <1>6, <1>7 DEF TypeOK, runVars
<1>9. file' \in 1 .. Len(FileBlocks) + 1 /\ arms' \subseteq {"scan", "encode"}
  <2>1. CASE ScanArm \/ EncodeArm
    <3>1. file \in Files
      BY <2>1 DEF ScanArm, EncodeArm, FInv, ScanInv
    <3>2. file' \in {file, file + 1}
      BY <2>1 DEF ScanArm, EncodeArm, NextIfJoined
    <3>3. arms' \subseteq arms
      BY <2>1 DEF ScanArm, EncodeArm
    <3> QED BY <3>1, <3>2, <3>3, <1>f, <1>p DEF FTypeOK
  <2>2. CASE Rescan
    BY <2>2, <1>f, <1>p DEF Rescan, FTypeOK
  <2>3. CASE Stat \/ OpenFails \/ FilesDone
    BY <2>3, <1>p DEF Stat, OpenFails, FilesDone, fusedVars, FTypeOK
  <2>4. CASE MapFile
    <3>1. file' = file /\ (arms' = {"scan", "encode"} \/ arms' = {"scan"})
      BY <2>4 DEF MapFile, recovering
    <3> QED BY <3>1, <1>p DEF FTypeOK
  <2>5. CASE MapFails
    BY <2>5, <1>f, <1>p DEF MapFails, FTypeOK
  <2> QED BY <2>1, <2>2, <2>3, <2>4, <2>5
<1> QED BY <1>3, <1>4, <1>8, <1>9 DEF DirectoryInv, FTypeOK

\* They keep the rest of the invariant as well: nothing is written before the
\* last slice is encoded.
LEMMA ScanKeeps ==
  ASSUME FInv, ScanSteps
  PROVE  FInv'
<1> USE DEF ScanSteps
<1>d. DirectoryInv' /\ FTypeOK'
  BY ScanDirectory
<1>p. FTypeOK /\ TypeOK /\ FStageInv /\ ScanInv
  BY DEF FInv, FTypeOK
<1>n. Index \in Names /\ io \in [Names -> {"idle", "report", "done", "failed"} \cup Steps]
  BY PipelineAssumption DEF FInv, FTypeOK, TypeOK, WriteTypeOK
<1>f. Len(FileBlocks) \in Nat \ {0} /\ Files = 1 .. Len(FileBlocks)
  BY FusedAssumption DEF Files
<1>o. /\ \A f \in 1 .. Len(FileBlocks) + 1 : Offset[f] \in Int
      /\ Offset[1] = 0 /\ Offset[Len(FileBlocks) + 1] = Blocks
      /\ \A f \in Files : Offset[f] < Offset[f + 1]
  <2>1. \A f \in 1 .. Len(FileBlocks) + 1 : Offset[f] \in Int
    BY OffsetType, FusedAssumption, <1>f
  <2>2. \A f \in Files : f \in 1 .. Len(FileBlocks) + 1 /\ f + 1 \in 1 .. Len(FileBlocks) + 1
    BY <1>f
  <2>3. \A f \in Files : Offset[f] < Offset[f + 1]
    BY <2>1, <2>2, OffsetNext
  <2> QED BY <2>1, <2>3, OffsetNext, FusedAssumption
<1>t. tick \in Int
  BY <1>p DEF TypeOK
<1> USE DEF GoTo, Return, Quiet, Legacy
<1>1. FStageInv'
  <2>1. CASE \/ Stat \/ MapFile \/ OpenFails \/ MapFails \/ ScanArm \/ EncodeArm \/ Rescan
    <3>1. UNCHANGED <<writeVars, runVars>> /\ stage \in Quiet /\ completes' = completes
      BY <2>1 DEF Stat, MapFile, OpenFails, MapFails, ScanArm, EncodeArm, Rescan,
         vars, pipeVars, encodeVars
    <3>2. \/ stage' \in Quiet \/ stage' = "validate"
          \/ stage' = "returned" /\ result' = "error"
      BY <2>1 DEF Stat, MapFile, OpenFails, MapFails, ScanArm, EncodeArm, Rescan,
         vars, pipeVars
    <3>3. AllIdle(Names)' /\ completes = 0
      BY <3>1, <1>p DEF FStageInv, ScanInv, AllIdle, writeVars
    <3>4. stage' \in Quiet => \A n \in Names : disk'[n].run < run' /\ tmp'[n].run < run'
      BY <3>1, <1>p DEF FStageInv, writeVars, runVars
    <3> QED BY <3>1, <3>2, <3>3, <3>4 DEF FStageInv, StageInv, AllIdle
  <2>2. CASE FilesDone
    BY <2>2, <1>p, <1>n DEF FilesDone, FStageInv, AllIdle
  <2> QED BY <2>1, <2>2
<1>2. ScanInv'
  <2>1. CASE Stat
    <3>1. /\ UNCHANGED <<file, arms, tick, completes, layout>>
          /\ file = 1 /\ arms = {} /\ tick = 0 /\ starts = 0 /\ completes = 0
      BY <2>1, <1>p DEF Stat, ScanInv, runVars, fusedVars
    <3>2. stage' = "scan" => starts' = IF recovering THEN 1 ELSE 0
      BY <2>1, <3>1 DEF Stat, recovering
    <3>3. stage' \in {"scan", "returned"}
      BY <2>1 DEF Stat
    <3> QED BY <3>1, <3>2, <3>3, <1>o DEF ScanInv, recovering
  <2>2. CASE MapFile
    <3>1. /\ UNCHANGED <<file, tick, starts, completes, layout, stage>>
          /\ file \in Files /\ stage = "scan" /\ arms = {}
      BY <2>2 DEF MapFile, vars, pipeVars, runVars, encodeVars
    <3>2. recovering => starts = 1 /\ tick = Offset[file] /\ Offset[file] < Offset[file + 1]
      BY <3>1, <1>p, <1>o DEF ScanInv
    <3>3. IF recovering THEN arms' = {"scan", "encode"} ELSE arms' = {"scan"}
      BY <2>2 DEF MapFile, recovering
    <3>4. Offset[file] \in Int
      BY <3>1, <1>o, <1>f
    <3>5. completes = 0
      BY <3>1, <1>p DEF ScanInv
    <3> QED BY <3>1, <3>2, <3>3, <3>4, <3>5 DEF ScanInv, recovering
  <2>3. CASE OpenFails
    BY <2>3 DEF OpenFails, ScanInv
  <2>4. CASE MapFails
    BY <2>4, <1>p, <1>f DEF MapFails, ScanInv, encodeVars
  <2>5. CASE ScanArm
    <3>1. file \in Files /\ UNCHANGED <<stage, starts, completes, tick, layout>>
      BY <2>5, <1>p DEF ScanArm, ScanInv, vars, pipeVars, runVars, encodeVars
    <3>2. arms' = {} => arms = {"scan"} /\ file' = file + 1
      BY <2>5, <1>p DEF ScanArm, NextIfJoined, FTypeOK
    <3>3. arms' # {} => file' = file /\ "encode" \in arms
      BY <2>5, <1>p DEF ScanArm, NextIfJoined, FTypeOK
    <3> QED BY <2>5, <3>1, <3>2, <3>3, <1>p DEF ScanArm, ScanInv, recovering
  <2>6. CASE EncodeArm
    <3>1. /\ file \in Files /\ recovering /\ tick' = tick + 1
          /\ UNCHANGED <<stage, starts, completes, layout>>
          /\ Offset[file] <= tick /\ tick < Offset[file + 1] /\ starts = 1
      BY <2>6, <1>p DEF EncodeArm, ScanInv, runVars
    <3>2. arms' = {} => file' = file + 1 /\ tick' = Offset[file + 1]
      BY <2>6, <1>p DEF EncodeArm, NextIfJoined
    <3>3. arms' # {} => file' = file
      BY <2>6 DEF EncodeArm, NextIfJoined
    <3>4. "encode" \in arms' => tick' # Offset[file + 1]
      BY <2>6, <1>p DEF EncodeArm
    <3>5. "encode" \notin arms' => tick' = Offset[file + 1]
      BY <2>6, <1>p DEF EncodeArm
    <3>6. Offset[file + 1] \in Int /\ Offset[file] \in Int
      BY <3>1, <1>o, <1>f
    <3> QED
      BY <2>6, <3>1, <3>2, <3>3, <3>4, <3>5, <3>6, <1>p, <1>t
         DEF EncodeArm, ScanInv, recovering
  <2>7. CASE FilesDone
    <3>1. file = Len(FileBlocks) + 1 /\ arms = {}
      BY <2>7, <1>p, <1>f DEF FilesDone, FTypeOK, ScanInv
    <3> QED BY <2>7, <3>1, <1>p, <1>o DEF FilesDone, ScanInv, recovering, runVars
  <2>8. CASE Rescan
    BY <2>8, <1>p, <1>f DEF Rescan, ScanInv, encodeVars
  <2> QED BY <2>1, <2>2, <2>3, <2>4, <2>5, <2>6, <2>7, <2>8
<1> QED BY <1>d, <1>1, <1>2 DEF FInv

\* The steps that write the output files keep the directory as it should be.
LEMMA OutputDirectory ==
  ASSUME FInv, OutputSteps
  PROVE  DirectoryInv' /\ FTypeOK'
<1> USE DEF OutputSteps
<1>p. /\ TypeOK /\ WholeInv /\ WritersInv /\ SettledInv /\ FTypeOK
      /\ Index \in wanted /\ Volumes(layout) \subseteq wanted
  BY DEF FInv, DirectoryInv, wanted
<1>n. /\ MaxRun \in Nat /\ Index \in Names /\ wanted \subseteq Names
      /\ run \in 0 .. MaxRun /\ WriteTypeOK
  BY <1>p, AtomicWriteAssumption, PipelineAssumption, VolumeNames DEF wanted, TypeOK
<1>s. InRun /\ InRun'
  BY DEF FIndexWritten, FResolveVolumeSizes, FNextVolume, FVolumeWritten, FWrite,
     FWriteFailed, FReturnOk, InRun, GoTo, Return, pipeVars
<1>t. TypeOK /\ UNCHANGED <<runVars, encodeVars, fusedVars>>
      /\ WriteTypeOK' /\ announced' \in SUBSET Names
      /\ stage' \in Stages /\ result' \in {"none", "ok", "error"}
      => TypeOK' /\ FTypeOK'
  BY <1>p DEF TypeOK, FTypeOK, runVars, encodeVars, fusedVars
<1>1. ASSUME UNCHANGED <<disk, tmp, settled>>, NEW n \in wanted, NEW v \in {"create", "done"},
             io' = io \/ io' = [io EXCEPT ![n] = v]
      PROVE  WriteTypeOK' /\ WholeInv'
  BY <1>1, <1>n, <1>p DEF WriteTypeOK, WholeInv, Steps
<1> USE DEF GoTo, Return
<1>2. CASE FIndexWritten
  <2>1. WritersInv' /\ SettledInv'
    BY <1>2, <1>p, <1>s, ReportKeeps DEF FIndexWritten
  <2>2. WriteTypeOK' /\ WholeInv'
    BY <1>2, <1>1, <1>p DEF FIndexWritten, Advance
  <2>3. TypeOK' /\ FTypeOK'
    BY <1>2, <1>p, <1>n, <1>t, <2>2 DEF FIndexWritten, Stages, TypeOK
  <2> QED BY <2>1, <2>2, <2>3 DEF DirectoryInv
<1>3. CASE FResolveVolumeSizes \/ FWriteFailed \/ FReturnOk
  <2>1. UNCHANGED <<writeVars, runVars, announced, encodeVars, fusedVars>>
    BY <1>3 DEF FResolveVolumeSizes, FWriteFailed, FReturnOk
  <2>2. WritersInv' /\ SettledInv'
    BY <2>1, <1>p, <1>s, QuietKeeps
  <2>3. WriteTypeOK' /\ WholeInv'
    BY <2>1, <1>1, <1>p DEF writeVars
  <2>4. stage' \in Stages /\ result' \in {"none", "ok", "error"}
    BY <1>3, <1>p DEF FResolveVolumeSizes, FWriteFailed, FReturnOk, Stages, TypeOK
  <2>5. TypeOK' /\ FTypeOK'
    BY <2>1, <2>3, <2>4, <1>p, <1>t DEF TypeOK
  <2> QED BY <2>2, <2>3, <2>5 DEF DirectoryInv
<1>4. ASSUME NEW i \in DOMAIN layout, FNextVolume(i) PROVE DirectoryInv' /\ FTypeOK'
  <2>1. layout[i] \in wanted /\ Advance(layout[i], "idle", "create")
    BY <1>4 DEF FNextVolume, wanted, Volumes
  <2>2. UNCHANGED <<disk, tmp, settled, pipeVars, fusedVars>>
    BY <1>4 DEF FNextVolume
  <2>3. WritersInv' /\ SettledInv'
    BY <2>1, <2>2, <1>p, <1>s, TakeKeeps DEF pipeVars
  <2>4. WriteTypeOK' /\ WholeInv'
    BY <2>1, <2>2, <1>1 DEF Advance
  <2>5. TypeOK' /\ FTypeOK'
    BY <2>2, <2>4, <1>p, <1>t DEF pipeVars, TypeOK
  <2> QED BY <2>3, <2>4, <2>5 DEF DirectoryInv
<1>5. ASSUME NEW n \in Volumes(layout), FVolumeWritten(n) PROVE DirectoryInv' /\ FTypeOK'
  <2>1. n \in wanted /\ n \in Names /\ Advance(n, "report", "done")
    BY <1>5, <1>p, <1>n DEF FVolumeWritten
  <2>2. /\ UNCHANGED <<disk, tmp, settled, stage, runVars, result, encodeVars, fusedVars>>
        /\ announced' = announced \cup {n}
    BY <1>5 DEF FVolumeWritten
  <2>3. WritersInv' /\ SettledInv'
    BY <2>1, <2>2, <1>p, <1>s, ReportKeeps
  <2>4. WriteTypeOK' /\ WholeInv'
    BY <2>1, <2>2, <1>1 DEF Advance
  <2>5. TypeOK' /\ FTypeOK'
    BY <2>1, <2>2, <2>4, <1>p, <1>t DEF TypeOK
  <2> QED BY <2>3, <2>4, <2>5 DEF DirectoryInv
<1>6. ASSUME NEW n \in wanted, FWrite(n) PROVE DirectoryInv' /\ FTypeOK'
  <2>1. n \in Names /\ WriteStep(n, run) /\ UNCHANGED <<pipeVars, fusedVars>>
    BY <1>6, <1>n DEF FWrite
  <2>2. WritersInv' /\ SettledInv'
    BY <2>1, <1>p, <1>s, WriteStepKeeps
  <2>3. WriteTypeOK' /\ WholeInv'
    BY <2>1, <1>n, <1>p, WriteStepType, WriteStepWhole
  <2>4. TypeOK' /\ FTypeOK'
    BY <2>1, <2>3, <1>p, <1>t DEF pipeVars, TypeOK
  <2> QED BY <2>2, <2>3, <2>4 DEF DirectoryInv
<1> QED BY <1>2, <1>3, <1>4, <1>5, <1>6

\* They keep the rest of the invariant as well: the volumes are written one
\* after the other, over the index, and Ok waits for the last.
LEMMA OutputKeeps ==
  ASSUME FInv, OutputSteps
  PROVE  FInv'
<1> USE DEF OutputSteps
<1>d. DirectoryInv' /\ FTypeOK'
  BY OutputDirectory
<1>p. /\ TypeOK /\ FStageInv /\ ScanInv /\ WritersInv /\ WriteTypeOK
  BY DEF FInv, DirectoryInv, TypeOK
<1>n. /\ MaxRun \in Nat /\ Index \in Names /\ run \in 0 .. MaxRun
      /\ Volumes(layout) \subseteq Names \ {Index}
      /\ io \in [Names -> {"idle", "report", "done", "failed"} \cup Steps]
  BY <1>p, AtomicWriteAssumption, VolumeNames DEF TypeOK, WriteTypeOK
<1>l. /\ \A i \in DOMAIN layout : layout[i] \in Volumes(layout)
      /\ \A i, j \in DOMAIN layout : layout[i] = layout[j] => i = j
      /\ DOMAIN layout \subseteq Int
  <2>1. CASE layout \in Layouts
    BY <2>1, PipelineAssumption DEF Volumes
  <2>2. CASE layout = <<>>
    BY <2>2 DEF Volumes
  <2> QED BY <2>1, <2>2, <1>p DEF TypeOK
<1>u. layout' = layout => wanted' = wanted
  BY DEF wanted, Volumes
<1>c. ScanInv'
  BY <1>p DEF FIndexWritten, FResolveVolumeSizes, FNextVolume, FVolumeWritten, FWrite,
     FWriteFailed, FReturnOk, ScanInv, GoTo, Return, pipeVars, runVars, encodeVars,
     fusedVars, recovering, Quiet
<1> USE DEF GoTo, Return, Quiet, Legacy
<1>1. CASE FIndexWritten
  <2>1. /\ stage = "fusedIndex" /\ layout' = layout
        /\ \A m \in Names : io'[m] = IF m = Index THEN "done" ELSE io[m]
    BY <1>1, <1>n DEF FIndexWritten, Advance, runVars
  <2>2. AllIdle(Names \ {Index})
    BY <2>1, <1>p DEF FStageInv
  <2>3. \/ stage' = "fusedResolve"
        \/ stage' = "returned" /\ layout = <<>>
    BY <1>1 DEF FIndexWritten, recovering
  <2>4. layout = <<>> => wanted = {Index}
    BY DEF wanted, Volumes
  <2>5. FStageInv'
    BY <2>1, <2>2, <2>3, <2>4, <1>n, <1>u DEF FStageInv, AllIdle
  <2> QED BY <2>5, <1>d, <1>c DEF FInv
<1>2. CASE FResolveVolumeSizes
  <2>1. /\ stage = "fusedResolve" /\ UNCHANGED <<io, layout>>
        /\ stage' = "fusedVolumes" \/ (stage' = "returned" /\ result' = "error")
    BY <1>2 DEF FResolveVolumeSizes, writeVars, runVars
  <2>2. AllIdle(Names \ {Index}) /\ io[Index] = "done"
    BY <2>1, <1>p DEF FStageInv
  <2>3. \A i \in DOMAIN layout : io[layout[i]] = "idle"
    BY <2>2, <1>l, <1>n DEF AllIdle
  <2>4. FStageInv'
    BY <2>1, <2>2, <2>3, <1>n DEF FStageInv, AllIdle
  <2> QED BY <2>4, <1>d, <1>c DEF FInv
<1>3. CASE FWriteFailed
  <2>1. /\ UNCHANGED <<io, layout>> /\ stage' = "returned" /\ result' = "error"
        /\ stage \in {"fusedIndex", "fusedVolumes"}
    BY <1>3 DEF FWriteFailed, writeVars, runVars
  <2>2. PICK n \in wanted : io[n] = "failed"
    BY <1>3 DEF FWriteFailed
  <2>3. \A m \in Names : io[m] \in {"idle", "done", "failed"}
    <3>1. CASE stage = "fusedIndex"
      BY <3>1, <2>2, <1>p, <1>n DEF FStageInv, AllIdle, wanted
    <3>2. CASE stage = "fusedVolumes"
      <4>1. io[Index] = "done" /\ n \in Volumes(layout)
        BY <3>2, <2>2, <1>p DEF FStageInv, wanted
      <4>2. PICK k \in DOMAIN layout : n = layout[k]
        BY <4>1 DEF Volumes
      <4>3. \A i \in DOMAIN layout : io[layout[i]] \in {"idle", "done", "failed"}
        BY <4>2, <3>2, <2>2, <1>p, <1>l DEF FStageInv
      <4>4. \A m \in Names : m \notin wanted => io[m] = "idle"
        BY <3>2, <1>p DEF WritersInv
      <4> QED BY <4>1, <4>3, <4>4 DEF wanted, Volumes
    <3> QED BY <2>1, <3>1, <3>2
  <2>4. FStageInv'
    BY <2>1, <2>3 DEF FStageInv
  <2> QED BY <2>4, <1>d, <1>c DEF FInv
<1>4. CASE FReturnOk
  <2>1. /\ UNCHANGED <<io, layout>> /\ stage' = "returned" /\ stage = "fusedVolumes"
        /\ \A n \in Volumes(layout) : io[n] = "done"
    BY <1>4 DEF FReturnOk, writeVars, runVars
  <2>2. \A n \in wanted : io[n] = "done"
    BY <2>1, <1>p DEF FStageInv, wanted
  <2>3. \A n \in Names : io[n] \in {"idle", "done", "failed"}
    BY <2>1, <2>2, <1>p DEF WritersInv
  <2>4. FStageInv'
    BY <2>1, <2>2, <2>3, <1>u DEF FStageInv
  <2> QED BY <2>4, <1>d, <1>c DEF FInv
<1>5. ASSUME NEW k \in DOMAIN layout, UNCHANGED <<stage, layout>>, stage = "fusedVolumes",
             \A m \in Names \ {layout[k]} : io'[m] = io[m],
             io[layout[k]] # "idle" \/ \A j \in 1 .. k - 1 : io[layout[j]] = "done",
             io[layout[k]] # "done"
      PROVE  FInv'
  <2>1. \A i \in DOMAIN layout : i # k => io'[layout[i]] = io[layout[i]]
    BY <1>5, <1>l, <1>n
  <2>2. \A i \in DOMAIN layout : i < k => io[layout[i]] = "done"
    <3>1. DOMAIN layout = 1 .. Len(layout)
      BY <1>p, PipelineAssumption DEF TypeOK
    <3>2. ASSUME NEW i \in DOMAIN layout, i < k PROVE i \in 1 .. k - 1
      BY <3>1, <3>2
    <3> QED BY <3>2, <1>5, <1>p, <1>l DEF FStageInv
  <2>3. \A j \in DOMAIN layout : k < j => io[layout[j]] = "idle"
    BY <1>5, <1>p DEF FStageInv
  <2>4. \A i, j \in DOMAIN layout :
          i < j /\ io'[layout[j]] # "idle" => io'[layout[i]] = "done"
    BY <2>1, <2>2, <2>3, <1>5, <1>p, <1>l DEF FStageInv
  <2>5. io'[Index] = "done"
    BY <1>5, <1>p, <1>n, <1>l DEF FStageInv
  <2>6. FStageInv'
    BY <2>4, <2>5, <1>5 DEF FStageInv
  <2> QED BY <2>6, <1>d, <1>c DEF FInv
<1>6. ASSUME NEW i \in DOMAIN layout, FNextVolume(i) PROVE FInv'
  BY <1>6, <1>5, <1>l, <1>n DEF FNextVolume, Advance, pipeVars, runVars
<1>7. ASSUME NEW n \in Volumes(layout), FVolumeWritten(n) PROVE FInv'
  <2>1. PICK k \in DOMAIN layout : n = layout[k]
    BY DEF Volumes
  <2> QED BY <1>7, <2>1, <1>5, <1>n DEF FVolumeWritten, Advance, runVars
<1>8. ASSUME NEW n \in wanted, FWrite(n) PROVE FInv'
  <2>1. n \in Names /\ UNCHANGED <<stage, layout>>
    BY <1>8, <1>n DEF FWrite, wanted, pipeVars, runVars
  <2>2. io[n] \in Steps /\ \A m \in Names \ {n} : io'[m] = io[m]
    BY <1>8, <2>1, <1>p, <1>n, WriteStepWriters DEF FWrite
  <2>3. CASE n = Index
    <3>1. stage = "fusedIndex" /\ AllIdle(Names \ {Index})
      BY <1>8, <2>3, <1>p DEF FWrite, FStageInv
    <3>2. FStageInv'
      BY <3>1, <2>1, <2>2, <2>3 DEF FStageInv, AllIdle
    <3> QED BY <3>2, <1>d, <1>c DEF FInv
  <2>4. CASE n # Index
    <3>1. PICK k \in DOMAIN layout : n = layout[k]
      BY <2>4 DEF wanted, Volumes
    <3> QED BY <1>8, <2>1, <2>2, <2>4, <3>1, <1>5 DEF FWrite, Steps
  <2> QED BY <2>3, <2>4
<1> QED BY <1>1, <1>2, <1>3, <1>4, <1>6, <1>7, <1>8

-----------------------------------------------------------------------------

\* Every action keeps the invariant.
LEMMA FNextInv == FInv /\ [FNext]_fVars => FInv'
<1> SUFFICES ASSUME FInv, [FNext]_fVars PROVE FInv'
  OBVIOUS
<1>1. CASE ScanSteps
  BY <1>1, ScanKeeps
<1>2. CASE OutputSteps
  BY <1>2, OutputKeeps
<1>3. CASE Step /\ UNCHANGED fusedVars
  BY <1>3, StepKeeps
<1>4. CASE FBegin \/ (Begin /\ file' = 1 /\ arms' = {})
  BY <1>4, CallKeepsAll
<1>5. CASE (Kill \/ PowerFailure) /\ UNCHANGED file /\ arms' = {}
  BY <1>5, CrashKeepsAll
<1>6. CASE UNCHANGED fVars
  <2>1. TypeOK' /\ FTypeOK'
    BY <1>6 DEF fVars, vars, writeVars, pipeVars, runVars, encodeVars, fusedVars, FInv,
       FTypeOK, TypeOK, WriteTypeOK
  <2>2. WholeInv' /\ WritersInv' /\ SettledInv'
    BY <1>6 DEF fVars, vars, writeVars, pipeVars, runVars, FInv, DirectoryInv, WholeInv,
       WritersInv, SettledInv, wanted, Volumes
  <2>3. StageInv' <=> StageInv
    BY <1>6 DEF fVars, vars, writeVars, pipeVars, runVars, encodeVars, StageInv, AllIdle,
       VolumesFinished, Volumes
  <2>4. FStageInv'
    BY <1>6, <2>3 DEF fVars, vars, writeVars, pipeVars, runVars, FInv, FStageInv,
       AllIdle, wanted, Volumes
  <2>5. ScanInv'
    BY <1>6 DEF fVars, vars, pipeVars, runVars, encodeVars, fusedVars, FInv, ScanInv,
       recovering
  <2> QED BY <2>1, <2>2, <2>4, <2>5 DEF FInv, DirectoryInv
<1> QED
  BY <1>1, <1>2, <1>3, <1>4, <1>5, <1>6 DEF FNext, FStep, ScanSteps, OutputSteps

\* It holds of every reachable state.
LEMMA FInvariant == FSpec => []FInv
BY FInitInv, FNextInv, PTL DEF FSpec

\* Every variable of both entry points always has its type; in particular no
\* more slices are encoded than the run has.
THEOREM FusedTypeCorrect == FSpec => []FTypeOK
<1>1. FInv => FTypeOK
  BY DEF FInv
<1> QED BY <1>1, FInvariant, PTL

\* Whatever sequence of calls of both entry points fails or is cut short, a
\* final name holds nothing or a whole PAR2 file.
THEOREM FusedFinalFilesWhole == FSpec => []FinalWhole
<1>1. FInv => FinalWhole
  BY DEF FInv, DirectoryInv, WholeInv, FinalWhole
<1> QED BY <1>1, FInvariant, PTL

\* What a returned call has left, by the state of its writers.
LEMMA FOkComplete == FInv => OkMeansComplete
<1> SUFFICES ASSUME FInv, stage = "returned", result = "ok", NEW n \in wanted
             PROVE  disk[n].run = run /\ n \in announced /\ tmp[n] = NoFile
  BY DEF OkMeansComplete
<1>1. n \in Names
  BY VolumeNames DEF wanted, FInv, DirectoryInv
<1>2. io[n] = "done"
  BY DEF FInv, FStageInv
<1> QED BY <1>1, <1>2 DEF FInv, DirectoryInv, WritersInv

\* Ok from either entry point means that every file is in place, told of, and
\* without a tmp file.
THEOREM FusedOkIsComplete == FSpec => []OkMeansComplete
BY FOkComplete, FInvariant, PTL

\* The reporter of either entry point only hears of files that are in place.
THEOREM FusedEventsAreTrue == FSpec => []AnnouncedInPlace
<1>1. FInv => AnnouncedInPlace
  BY DEF FInv, DirectoryInv, TypeOK, WritersInv, AnnouncedInPlace
<1> QED BY <1>1, FInvariant, PTL

\* Neither entry point returns while a writer is at work.
THEOREM NothingOutlivesEitherCall == FSpec => []NoWriterOutlivesTheCall
<1>1. FInv => NoWriterOutlivesTheCall
  BY DEF FInv, FStageInv, NoWriterOutlivesTheCall
<1> QED BY <1>1, FInvariant, PTL

\* A fused create leaves no trace, under final names or tmp names, before the
\* last slice of the last file is encoded; and when its index is begun the
\* reporter has heard of one encode begun and one completed.
THEOREM NothingWrittenBeforeScan == FSpec => []NoOutputBeforeAllScanned
<1>1. FInv => NoOutputBeforeAllScanned
  <2> SUFFICES ASSUME FInv PROVE NoOutputBeforeAllScanned
    OBVIOUS
  <2>1. ASSUME stage \in Quiet, NEW n \in Names
        PROVE  disk[n].run # run /\ tmp[n].run # run
    <3>1. disk[n].run \in Int /\ tmp[n].run \in Int /\ run \in Int
      BY AtomicWriteAssumption DEF FInv, DirectoryInv, TypeOK, WriteTypeOK, Content
    <3> QED BY <2>1, <3>1 DEF FInv, FStageInv
  <2> QED BY <2>1 DEF FInv, ScanInv, Quiet, NoOutputBeforeAllScanned
<1> QED BY <1>1, FInvariant, PTL

-----------------------------------------------------------------------------
(* The refinement                                                          *)

\* Every step of either entry point is a step of RecoverySet, or is not seen.
LEMMA FNextRefines ==
  FInv /\ FInv' /\ OkMeansComplete' /\ [FNext]_fVars => [RS!Next]_RS!vars
<1> SUFFICES ASSUME FInv, FInv', OkMeansComplete', [FNext]_fVars
             PROVE  [RS!Next]_RS!vars
  OBVIOUS
<1>p. DirectoryInv /\ DirectoryInv' /\ TypeOK /\ TypeOK' /\ FStageInv
  BY DEF FInv, DirectoryInv
<1>1. CASE ScanSteps
  <2>1. /\ Working /\ UNCHANGED <<disk, runVars>>
        /\ Working' \/ (stage' = "returned" /\ result' \in {"ok", "error"})
    BY <1>1 DEF ScanSteps, Stat, MapFile, OpenFails, MapFails, ScanArm, EncodeArm,
       FilesDone, Rescan, Working, GoTo, Return, vars, pipeVars, writeVars
  <2> QED BY <2>1, <1>p, QuietRefines
<1>2. ASSUME NEW n \in wanted, FWrite(n) PROVE [RS!Next]_RS!vars
  <2>1. Working /\ WriteStep(n, run) /\ UNCHANGED pipeVars
    BY <1>2 DEF FWrite, Working
  <2>2. n # Index => io[Index] = "done"
    BY <1>2, <1>p DEF FWrite, FStageInv
  <2> QED BY <2>1, <2>2, <1>p, WriteStepRefines
<1>3. CASE OutputSteps /\ ~ \E n \in wanted : FWrite(n)
  <2>1. /\ Working /\ UNCHANGED <<disk, runVars>>
        /\ Working' \/ (stage' = "returned" /\ result' \in {"ok", "error"})
    BY <1>3 DEF OutputSteps, FIndexWritten, FResolveVolumeSizes, FNextVolume,
       FVolumeWritten, FWriteFailed, FReturnOk, Working, GoTo, Return, pipeVars, writeVars
  <2> QED BY <2>1, <1>p, QuietRefines
<1>4. CASE Step
  <2>1. /\ SafeInv
    <3>1. PipeInv
      BY <1>4, LegacyStep
    <3> QED BY <3>1, FOkComplete DEF SafeInv, FInv, DirectoryInv
  <2>2. StageInv'
    BY <1>4, <2>1, NextStage DEF SafeInv, Next
  <2>3. SafeInv'
    BY <1>p, <2>2 DEF SafeInv, PipeInv, DirectoryInv
  <2> QED BY <1>4, <2>1, <2>3, StepRefines
<1>5. CASE FBegin \/ Begin
  <2>1. PICK first \in {"stat", "validate"} : Call(first)
    BY <1>5 DEF FBegin, Begin
  <2>2. first \in Stages \ {"idle", "returned", "crashed"}
    BY DEF Stages
  <2>3. RS!Begin
    BY <1>p, <2>1, <2>2, CallRefines
  <2> QED BY <2>3 DEF RS!Next
<1>6. CASE Kill \/ PowerFailure
  <2>1. RS!Crash
    BY <1>6, <1>p, CrashRefines
  <2> QED BY <2>1 DEF RS!Next
<1>7. CASE UNCHANGED fVars
  BY <1>7, StutterRefines DEF fVars
<1> QED
  BY <1>1, <1>2, <1>3, <1>4, <1>5, <1>6, <1>7 DEF FNext, FStep, ScanSteps, OutputSteps

\* Either entry point, called in any order over one directory, keeps the
\* promise of RecoverySet.
THEOREM FusedKeepsPromise == FSpec => KeepsPromise
<1>1. FInit => RS!Init
  BY InitRefines DEF FInit
<1> QED
  BY <1>1, FNextRefines, FInvariant, FusedOkIsComplete, PTL DEF FSpec, KeepsPromise, RS!Spec

=============================================================================
