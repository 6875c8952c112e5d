----------------------------- MODULE RecoverySet -----------------------------
(***************************************************************************)
(* What a caller of run_create may rely on, without tmp files, writers or  *)
(* threads: output files appear one at a time and whole, the index before  *)
(* the volumes; Ok means all of them are there; an error or a crash leaves *)
(* some of them; a power failure can only bring back older whole versions. *)
(* A name that was not published yet keeps what an earlier run left there, *)
(* so volumes of earlier runs may stand next to a newer index, and after a *)
(* power failure next to an older one.                                     *)
(***************************************************************************)
EXTENDS Integers

CONSTANTS
  Names,   \* every output file name
  Index,   \* the index .par2
  MaxRun   \* bound: number of create runs

VARIABLES
  files,   \* the run whose bytes each name holds, 0 for none
  wanted,  \* the names the current run has to produce
  run,
  outcome  \* of the current run

vars == <<files, wanted, run, outcome>>

Outcomes == {"none", "running", "ok", "error", "crashed"}

Init ==
  /\ files = [n \in Names |-> 0]
  /\ wanted = {} /\ run = 0
  /\ outcome = "none"

Begin ==
  /\ outcome # "running"
  /\ run < MaxRun
  /\ run' = run + 1
  /\ wanted' \in {W \in SUBSET Names : Index \in W}
  /\ outcome' = "running"
  /\ UNCHANGED files

Publish(n) ==
  /\ outcome = "running"
  /\ n \in wanted
  /\ files[n] # run
  /\ n # Index => files[Index] = run
  /\ files' = [files EXCEPT ![n] = run]
  /\ UNCHANGED <<wanted, run, outcome>>

Succeed ==
  /\ outcome = "running"
  /\ \A n \in wanted : files[n] = run
  /\ outcome' = "ok"
  /\ UNCHANGED <<files, wanted, run>>

Fail ==
  /\ outcome = "running"
  /\ outcome' = "error"
  /\ UNCHANGED <<files, wanted, run>>

Crash ==
  /\ outcome' = "crashed"
  /\ files' \in [Names -> 0 .. MaxRun]
  /\ \A n \in Names : files'[n] <= files[n]
  /\ UNCHANGED <<wanted, run>>

Next == Begin \/ (\E n \in Names : Publish(n)) \/ Succeed \/ Fail \/ Crash

Spec == Init /\ [][Next]_vars
=============================================================================
