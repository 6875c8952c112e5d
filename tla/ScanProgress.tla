---------------------------- MODULE ScanProgress ----------------------------
(***************************************************************************)
(* The progress ticks of scan_via_mmap (source.rs).  The rayon workers     *)
(* that hash the slices of a file share two relaxed atomics: done counts   *)
(* hashed slices, last_emitted is raised by a compare-exchange loop before *)
(* the reporter is called, so that the ticks it hears grow.                *)
(*                                                                         *)
(* Which slice a worker hashes does not matter to the ticks; done is the   *)
(* number of slices taken.  A relaxed load may return an old value of      *)
(* last_emitted, though never one older than the thread has already seen;  *)
(* compare_exchange_weak may fail for no reason.                           *)
(***************************************************************************)
EXTENDS Integers, Sequences

CONSTANTS
  Workers, \* the threads of the rayon pool
  Slices,  \* total_slices of the file
  Stride   \* tick_stride(total_slices)

ASSUME ScanAssumption == Slices \in Nat \ {0} /\ Stride \in Nat \ {0}

VARIABLES
  pc,          \* what each worker does next
  done,        \* AtomicU64
  lastEmitted, \* AtomicU64
  d,           \* the worker's own count, from fetch_add
  prev,        \* the newest value of last_emitted the worker has seen
  past,        \* ghost: the values last_emitted has had
  log          \* the slices_done of the ScanProgress events, as heard

vars == <<pc, done, lastEmitted, d, prev, past, log>>

Init ==
  /\ pc = [w \in Workers |-> "hash"]
  /\ done = 0 /\ lastEmitted = 0
  /\ d = [w \in Workers |-> 0]
  /\ prev = [w \in Workers |-> 0]
  /\ past = {0}
  /\ log = <<>>

Goto(w, from, to) == pc[w] = from /\ pc' = [pc EXCEPT ![w] = to]

\* Mutant: the last slice is nothing special.
MutStrideOnly(n) == n % Stride = 0

Tick(n) == n = Slices \/ n % Stride = 0

\* A slice is hashed and counted; only some counts are worth an event.
FetchAdd(w) ==
  /\ done < Slices
  /\ done' = done + 1
  /\ d' = [d EXCEPT ![w] = done + 1]
  /\ Goto(w, "hash", IF Tick(done + 1) THEN "load" ELSE "hash")
  /\ UNCHANGED <<lastEmitted, prev, past, log>>

Load(w) ==
  /\ Goto(w, "load", "cas")
  /\ \E v \in past : v >= prev[w] /\ prev' = [prev EXCEPT ![w] = v]
  /\ UNCHANGED <<done, lastEmitted, d, past, log>>

\* A sibling published as much or more: this tick is dropped.
Superseded(w) ==
  /\ d[w] <= prev[w]
  /\ Goto(w, "cas", "hash")
  /\ UNCHANGED <<done, lastEmitted, d, prev, past, log>>

ExchangeOk(w) ==
  /\ d[w] > prev[w]
  /\ lastEmitted = prev[w]
  /\ Goto(w, "cas", "emit")
  /\ lastEmitted' = d[w]
  /\ past' = past \cup {d[w]}
  /\ prev' = [prev EXCEPT ![w] = d[w]]
  /\ UNCHANGED <<done, d, log>>

\* Mutant: the actual value is not taken over.
MutKeepPrev(w) == d[w] > prev[w] /\ pc[w] = "cas" /\ UNCHANGED vars

\* The exchange fails and hands back what it read, as a relaxed load would;
\* this is prev itself when the failure is spurious.
ExchangeFails(w) ==
  /\ d[w] > prev[w]
  /\ pc[w] = "cas"
  /\ \E v \in past : v >= prev[w] /\ prev' = [prev EXCEPT ![w] = v]
  /\ UNCHANGED <<pc, done, lastEmitted, d, past, log>>

\* Mutant: the shared value is told in place of the worker's own.
MutTellShared(w) ==
  /\ Goto(w, "emit", "hash")
  /\ log' = Append(log, lastEmitted)
  /\ UNCHANGED <<done, lastEmitted, d, prev, past>>

\* reporter.on_event, after the exchange and under no lock.
Emit(w) ==
  /\ Goto(w, "emit", "hash")
  /\ log' = Append(log, d[w])
  /\ UNCHANGED <<done, lastEmitted, d, prev, past>>

Quiet(w) ==
  FetchAdd(w) \/ Load(w) \/ Superseded(w) \/ ExchangeOk(w) \/ ExchangeFails(w)

Worker(w) == Quiet(w) \/ Emit(w)

Next == \E w \in Workers : Worker(w)

Spec == Init /\ [][Next]_vars

\* The collect() of par_chunks, that is, the end of the scan.
Finished == done = Slices /\ \A w \in Workers : pc[w] = "hash"

-----------------------------------------------------------------------------
(* Properties                                                              *)

Heard == {log[i] : i \in DOMAIN log}

\* Every variable keeps its type.
TypeOK ==
  /\ pc \in [Workers -> {"hash", "load", "cas", "emit"}]
  /\ done \in 0 .. Slices
  /\ lastEmitted \in 0 .. Slices
  /\ d \in [Workers -> 0 .. Slices]
  /\ prev \in [Workers -> 0 .. Slices]
  /\ past \subseteq 0 .. Slices
  /\ log \in Seq(1 .. Slices)

\* No count is told twice, however the workers interleave.
ToldOnce == \A i, j \in DOMAIN log : log[i] = log[j] => i = j

\* The reporter hears the last count of every file, so that a bar fills up: no
\* sibling can supersede it and no lost exchange can drop it.
TotalIsTold == Finished => Slices \in Heard /\ lastEmitted = Slices

\* What last_emitted is for: it never goes down, as long as done does not go
\* back to 0 for another file.
LastEmittedGrows == [][done' >= done => lastEmitted' >= lastEmitted]_vars

\* source.rs:159: "`last_emitted` gates reporter callbacks so they remain
\* monotonic even though `done` is incremented out-of-order across threads".
CallbacksMonotonic == \A i, j \in DOMAIN log : i < j => log[i] < log[j]
=============================================================================
