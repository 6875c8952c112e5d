----------------------------- MODULE AtomicWrite -----------------------------
(***************************************************************************)
(* write_atomic (creator.rs) and the directory it writes to.  Every output *)
(* file is first written under <name>.par2rust.tmp, synced, and renamed    *)
(* over its final name.  io[n] says which call of write_atomic the writer  *)
(* of n is about to make; several writers may be under way, each on a name *)
(* of its own.                                                             *)
(*                                                                         *)
(* What is on disk is abstracted to the create run that produced it and    *)
(* whether it is whole and synced.  The file system is external: a synced  *)
(* file survives a power failure, an unsynced one may come back torn, and  *)
(* a rename may be undone, for write_atomic never syncs the directory.     *)
(***************************************************************************)
EXTENDS Integers

CONSTANTS
  Names,  \* output files of all layouts: the index and the volumes
  MaxRun  \* bound: number of create runs

ASSUME AtomicWriteAssumption == MaxRun \in Nat

Content == [run : 0 .. MaxRun, whole : BOOLEAN, synced : BOOLEAN]

NoFile == [run |-> 0, whole |-> FALSE, synced |-> FALSE]

VARIABLES
  disk,    \* what each final name holds
  tmp,     \* what each <name>.par2rust.tmp holds
  settled, \* what each final name falls back to if its rename is undone
  io       \* the next call of the writer of each name

writeVars == <<disk, tmp, settled, io>>

Steps == {"create", "write", "sync", "rename"} \* calls that can fail

WriteInit ==
  /\ disk = [n \in Names |-> NoFile]
  /\ tmp = disk
  /\ settled = disk
  /\ io = [n \in Names |-> "idle"]

Advance(n, from, to) == io[n] = from /\ io' = [io EXCEPT ![n] = to]

\* File::create truncates whatever an earlier run left under the tmp name.
CreateTmp(n, run) ==
  /\ Advance(n, "create", "write")
  /\ tmp' = [tmp EXCEPT ![n] = [run |-> run, whole |-> FALSE, synced |-> FALSE]]
  /\ UNCHANGED <<disk, settled>>

WriteAll(n) ==
  /\ Advance(n, "write", "sync")
  /\ tmp' = [tmp EXCEPT ![n].whole = TRUE]
  /\ UNCHANGED <<disk, settled>>

\* Mutant: sync_all is not called.
MutNoSync(n) == Advance(n, "sync", "rename") /\ UNCHANGED <<disk, tmp, settled>>

SyncAll(n) ==
  /\ Advance(n, "sync", "rename")
  /\ tmp' = [tmp EXCEPT ![n].synced = TRUE]
  /\ UNCHANGED <<disk, settled>>

Rename(n) ==
  /\ Advance(n, "rename", "report")
  /\ disk' = [disk EXCEPT ![n] = tmp[n]]
  /\ tmp' = [tmp EXCEPT ![n] = NoFile]
  /\ UNCHANGED settled

\* Any of the calls returns an error: `?` returns at once and the tmp file,
\* if there is one, stays behind.
WriteFails(n) ==
  /\ io[n] \in Steps
  /\ io' = [io EXCEPT ![n] = "failed"]
  /\ UNCHANGED <<disk, tmp, settled>>

WriteStep(n, run) ==
  CreateTmp(n, run) \/ WriteAll(n) \/ SyncAll(n) \/ Rename(n) \/ WriteFails(n)

-----------------------------------------------------------------------------
(* The end of the process: no writer goes on.                              *)

NoWriters == io' = [n \in Names |-> "idle"]

WritersKilled == NoWriters /\ UNCHANGED <<disk, tmp, settled>>

\* External: what of a file is still there after a power failure.
Survives(c) == [c EXCEPT !.whole = c.whole /\ c.synced]

\* External: the renames of the names in kept reached the disk, the others of
\* this boot are undone.
PowerFails(kept) ==
  /\ NoWriters
  /\ disk' = [n \in Names |-> Survives(IF n \in kept THEN disk[n] ELSE settled[n])]
  /\ settled' = disk'
  /\ tmp' = [n \in Names |-> Survives(tmp[n])]

-----------------------------------------------------------------------------

\* Files have the shape above and a writer is at one of the calls.
WriteTypeOK ==
  /\ disk \in [Names -> Content]
  /\ tmp \in [Names -> Content]
  /\ settled \in [Names -> Content]
  /\ io \in [Names -> {"idle", "report", "done", "failed"} \cup Steps]

Intact(c) == c = NoFile \/ (c.whole /\ c.synced)

\* No reader of the directory ever sees half a PAR2 file under a final name,
\* whatever fails and whenever the power goes.
FinalWhole == \A n \in Names : Intact(disk[n])
=============================================================================
