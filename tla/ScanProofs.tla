----------------------------- MODULE ScanProofs -----------------------------
(***************************************************************************)
(* Theorems about the scan.  First the ticks of one mapped file            *)
(* (ScanProgress), for any number of workers and slices and every stride;  *)
(* then ScanBar: a scan of any number of files of any length, over a       *)
(* mapping or through a BufReader, and the bars that show it, where what   *)
(* holds of the ticks of one mapped file is kept from file to file and the *)
(* reader has an invariant of its own.                                     *)
(***************************************************************************)
EXTENDS ScanBar, NatFacts

-----------------------------------------------------------------------------
(* The ticks of one mapped file                                            *)

Active(w) == pc[w] \in {"load", "cas", "emit"}

\* fetch_add gives every count to one worker, which tells it at most once.
CountInv ==
  /\ \A w \in Workers : Active(w) => d[w] \in 1 .. done
  /\ \A w, v \in Workers : Active(w) /\ Active(v) /\ w # v => d[w] # d[v]
  /\ \A w \in Workers, i \in DOMAIN log : Active(w) => log[i] # d[w]
  /\ \A i \in DOMAIN log : log[i] \in 1 .. done

\* A value of last_emitted is a count whose worker has won its exchange; all
\* that a load can return is older.
PastInv ==
  /\ \A v \in past : v <= lastEmitted
  /\ lastEmitted <= done
  /\ \A w \in Workers : prev[w] \in past
  /\ \A w \in Workers : pc[w] \in {"load", "cas"} => d[w] \notin past

\* The last count is held by a worker until it has been told, and whoever is
\* to tell it has published it.
LastInv ==
  /\ done = Slices => Slices \in Heard \/ \E w \in Workers : Active(w) /\ d[w] = Slices
  /\ Slices \in Heard => lastEmitted = Slices
  /\ \A w \in Workers : pc[w] = "emit" /\ d[w] = Slices => lastEmitted = Slices

TickInv == CountInv /\ ToldOnce /\ PastInv /\ LastInv

\* Every step of a worker keeps the types; a tick is told of a positive count.
LEMMA WorkerType ==
  ASSUME TypeOK, CountInv, NEW w \in Workers, Worker(w)
  PROVE  TypeOK'
<1> USE ScanAssumption DEF TypeOK, Goto
<1>1. CASE FetchAdd(w) BY <1>1 DEF FetchAdd
<1>2. CASE Load(w) BY <1>2 DEF Load
<1>3. CASE Superseded(w) BY <1>3 DEF Superseded
<1>4. CASE ExchangeOk(w) BY <1>4 DEF ExchangeOk
<1>5. CASE ExchangeFails(w) BY <1>5 DEF ExchangeFails
<1>6. CASE Emit(w)
  <2>1. d[w] \in 1 .. Slices
    BY <1>6 DEF Emit, CountInv, Active
  <2> QED BY <1>6, <2>1 DEF Emit
<1> QED BY <1>1, <1>2, <1>3, <1>4, <1>5, <1>6 DEF Worker, Quiet

\* Every step of a worker keeps the counts apart.
LEMMA WorkerCount ==
  ASSUME TypeOK, CountInv, ToldOnce, NEW w \in Workers, Worker(w)
  PROVE  CountInv' /\ ToldOnce'
<1> USE ScanAssumption DEF TypeOK, Goto, CountInv, ToldOnce, Active
<1>1. CASE FetchAdd(w) BY <1>1 DEF FetchAdd
<1>2. CASE Load(w) BY <1>2 DEF Load
<1>3. CASE Superseded(w) BY <1>3 DEF Superseded
<1>4. CASE ExchangeOk(w) BY <1>4 DEF ExchangeOk
<1>5. CASE ExchangeFails(w) BY <1>5 DEF ExchangeFails
<1>6. CASE Emit(w)
  <2>1. /\ Len(log') = Len(log) + 1
        /\ \A i \in DOMAIN log : log'[i] = log[i]
        /\ log'[Len(log) + 1] = d[w]
        /\ DOMAIN log' = 1 .. Len(log) + 1 /\ DOMAIN log = 1 .. Len(log)
    BY <1>6 DEF Emit
  <2>2. d[w] \in 1 .. done /\ \A i \in DOMAIN log : log[i] # d[w]
    BY <1>6 DEF Emit
  <2>3. ToldOnce'
    BY <2>1, <2>2
  <2>4. \A v \in Workers : Active(v)' => v # w /\ Active(v) /\ d'[v] = d[v]
    BY <1>6 DEF Emit
  <2>5. done' = done
    BY <1>6 DEF Emit
  <2>6. CountInv'
    BY <1>6, <2>1, <2>2, <2>4, <2>5 DEF Emit
  <2> QED BY <2>3, <2>6
<1> QED BY <1>1, <1>2, <1>3, <1>4, <1>5, <1>6 DEF Worker, Quiet

\* Every step of a worker keeps what is known of last_emitted.
LEMMA WorkerPast ==
  ASSUME TypeOK, CountInv, PastInv, NEW w \in Workers, Worker(w)
  PROVE  PastInv'
<1> USE ScanAssumption DEF TypeOK, Goto, PastInv
<1>1. CASE FetchAdd(w)
  <2>1. done + 1 \notin past
    BY <1>1 DEF FetchAdd
  <2> QED BY <1>1, <2>1 DEF FetchAdd
<1>2. CASE Load(w) BY <1>2 DEF Load
<1>3. CASE Superseded(w) BY <1>3 DEF Superseded
<1>4. CASE ExchangeOk(w)
  <2>1. d[w] \in 1 .. done /\ d[w] > lastEmitted
    BY <1>4 DEF ExchangeOk, CountInv, Active
  <2>2. \A v \in Workers \ {w} : pc[v] \in {"load", "cas"} => d[v] # d[w]
    BY <1>4 DEF ExchangeOk, CountInv, Active
  <2> QED BY <1>4, <2>1, <2>2 DEF ExchangeOk
<1>5. CASE ExchangeFails(w) BY <1>5 DEF ExchangeFails
<1>6. CASE Emit(w) BY <1>6 DEF Emit
<1> QED BY <1>1, <1>2, <1>3, <1>4, <1>5, <1>6 DEF Worker, Quiet

\* Every step of a worker keeps the last count in somebody's hands.
LEMMA WorkerLast ==
  ASSUME TypeOK, CountInv, PastInv, LastInv, NEW w \in Workers, Worker(w)
  PROVE  LastInv'
<1> USE ScanAssumption DEF TypeOK, Goto, LastInv, Active, Heard
<1>1. CASE FetchAdd(w)
  <2>1. done' = Slices => pc'[w] = "load" /\ d'[w] = Slices
    BY <1>1 DEF FetchAdd, Tick
  <2> QED BY <1>1, <2>1 DEF FetchAdd
<1>2. CASE Load(w) BY <1>2 DEF Load
<1>3. CASE Superseded(w)
  <2>1. d[w] # Slices
    BY <1>3 DEF Superseded, PastInv
  <2> QED BY <1>3, <2>1 DEF Superseded
<1>4. CASE ExchangeOk(w)
  <2>1. d[w] = Slices => lastEmitted' = Slices
    BY <1>4 DEF ExchangeOk
  <2>2. lastEmitted # Slices
    BY <1>4 DEF ExchangeOk
  <2> QED BY <1>4, <2>1, <2>2 DEF ExchangeOk
<1>5. CASE ExchangeFails(w) BY <1>5 DEF ExchangeFails
<1>6. CASE Emit(w)
  <2>1. Heard' = Heard \cup {d[w]}
    <3>1. DOMAIN log' = 1 .. Len(log) + 1 /\ DOMAIN log = 1 .. Len(log)
      BY <1>6 DEF Emit
    <3>2. /\ \A i \in DOMAIN log : log'[i] = log[i]
          /\ log'[Len(log) + 1] = d[w] /\ Len(log) \in Nat
      BY <1>6 DEF Emit
    <3>3. DOMAIN log' = DOMAIN log \cup {Len(log) + 1}
      BY <3>1, <3>2
    <3>4. \A x : x \in Heard' <=> x \in Heard \/ x = d[w]
      <4>1. \A x : x \in Heard' <=> \E i \in DOMAIN log' : x = log'[i]
        OBVIOUS
      <4>2. \A x : x \in Heard <=> \E i \in DOMAIN log : x = log[i]
        OBVIOUS
      <4> QED BY <3>2, <3>3, <4>1, <4>2
    <3> QED BY <3>4, Zenon
  <2>2. \A v \in Workers \ {w} : pc'[v] = pc[v] /\ d'[v] = d[v]
    BY <1>6 DEF Emit
  <2> QED BY <1>6, <2>1, <2>2 DEF Emit
<1> QED BY <1>1, <1>2, <1>3, <1>4, <1>5, <1>6 DEF Worker, Quiet

\* The types and the invariant hold together.
LEMMA TickInvariant == Spec => [](TypeOK /\ TickInv)
<1>1. Init => TypeOK /\ TickInv
  BY ScanAssumption
     DEF Init, TypeOK, TickInv, CountInv, ToldOnce, PastInv, LastInv, Active, Heard
<1>2. TypeOK /\ TickInv /\ [Next]_vars => (TypeOK /\ TickInv)'
  <2>1. ASSUME TypeOK, TickInv, NEW w \in Workers, Worker(w)
        PROVE  (TypeOK /\ TickInv)'
    BY <2>1, WorkerType, WorkerCount, WorkerPast, WorkerLast DEF TickInv
  <2>2. TypeOK /\ TickInv /\ UNCHANGED vars => (TypeOK /\ TickInv)'
    BY DEF vars, TypeOK, TickInv, CountInv, ToldOnce, PastInv, LastInv, Active, Heard
  <2> QED BY <2>1, <2>2 DEF Next
<1> QED BY <1>1, <1>2, PTL DEF Spec

\* Every variable of the scan always has its type.
THEOREM ScanTypeCorrect == Spec => []TypeOK
BY TickInvariant, PTL

\* However the workers interleave and whatever their loads return, no count
\* reaches the reporter twice.
THEOREM NoTickTwice == Spec => []ToldOnce
BY TickInvariant, PTL DEF TickInv

\* When a file is scanned, the reporter has heard its last count.
THEOREM LastTickIsTold == Spec => []TotalIsTold
<1>1. TypeOK /\ TickInv => TotalIsTold
  BY DEF TickInv, LastInv, TotalIsTold, Finished, Active
<1> QED BY <1>1, TickInvariant, PTL

\* The exchange loop never lowers last_emitted.
THEOREM LastEmittedNeverFalls == Spec => LastEmittedGrows
<1>1. TypeOK /\ [Next]_vars => [lastEmitted' >= lastEmitted]_vars
  BY DEF TypeOK, Next, Worker, Quiet, FetchAdd, Load, Superseded, ExchangeOk,
     ExchangeFails, Emit, Goto
<1> QED BY <1>1, ScanTypeCorrect, PTL DEF Spec, LastEmittedGrows

-----------------------------------------------------------------------------
(* The reader.  While a slice is being read, the buffer begins with the    *)
(* bytes of the file that follow the slices hashed so far; every result is *)
(* that of scan_via_mmap for those slices.                                 *)

Numbers(n) == [i \in 1 .. n |-> i]

SlicesRead == Len(checksums)

Base == SlicesRead * sliceSize

ReaderIdle ==
  /\ rpc = "idle" /\ size = 0 /\ sliceSize = 0 /\ filled = 0 /\ pos = 0
  /\ slice = <<>> /\ full = <<>> /\ prefix = <<>> /\ checksums = <<>> /\ ticks = <<>>

BufferInv ==
  /\ size \in Sizes /\ sliceSize \in SliceSizes
  /\ rpc \in {"read", "hash", "done", "error"}
  /\ filled \in 0 .. sliceSize /\ pos \in 0 .. size
  /\ slice \in [1 .. sliceSize -> Nat]
  /\ checksums \in Seq([1 .. sliceSize -> Nat])
  /\ SlicesRead <= TotalSlices
  /\ rpc # "done" =>
       /\ pos = Base + filled
       /\ \A i \in 1 .. filled : slice[i] = Base + i
  /\ rpc = "hash" => filled > 0 /\ (filled = sliceSize \/ pos = size)
  /\ rpc = "done" => pos = size /\ SlicesRead = TotalSlices

ResultsInv ==
  /\ checksums = [c \in 1 .. SlicesRead |-> Chunk(c)]
  /\ full = Numbers(Least(Base, size))
  /\ prefix = Numbers(Least(Least(Base, size), HASH16K_LEN))

TicksInv ==
  /\ ticks \in Seq(1 .. SlicesRead)
  /\ \A i, j \in DOMAIN ticks : i < j => ticks[i] < ticks[j]
  /\ \A n \in 1 .. SlicesRead :
       (n = TotalSlices \/ n % ReaderStride = 0) <=> \E i \in DOMAIN ticks : ticks[i] = n

ReaderInv == BufferInv /\ ResultsInv /\ TicksInv

\* The numbers up to m and the n that follow are those up to m + n.
LEMMA NumbersAppend ==
  ASSUME NEW m \in Nat, NEW n \in Nat
  PROVE  Numbers(m) \o [i \in 1 .. n |-> m + i] = Numbers(m + n)
<1> DEFINE s == Numbers(m)
           t == [i \in 1 .. n |-> m + i]
<1>1. s \in Seq(Nat) /\ t \in Seq(Nat) /\ Len(s) = m /\ Len(t) = n
  BY DEF Numbers
<1>2. s \o t \in Seq(Nat) /\ Len(s \o t) = m + n
  BY <1>1
<1>3. \A i \in 1 .. m + n : (s \o t)[i] = i
  BY <1>1 DEF Numbers
<1> QED BY <1>2, <1>3 DEF Numbers

\* A sequence is a function on its indices.
LEMMA SeqIsFunction ==
  ASSUME NEW S, NEW s \in Seq(S)
  PROVE  /\ Len(s) \in Nat /\ DOMAIN s = 1 .. Len(s)
         /\ s = [i \in 1 .. Len(s) |-> s[i]]
         /\ \A i \in DOMAIN s : s[i] \in S
OBVIOUS

\* And one over any larger set.
LEMMA SeqOfMore ==
  ASSUME NEW S, NEW T, S \subseteq T, NEW s \in Seq(S)
  PROVE  s \in Seq(T)
OBVIOUS

\* A file of size bytes has TotalSlices slices.
LEMMA TotalSlicesIs ==
  ASSUME BufferInv
  PROVE  /\ size \in Nat \ {0} /\ sliceSize \in Nat \ {0} /\ TotalSlices \in Nat
         /\ SlicesRead \in Nat /\ Base \in Nat
         /\ \A k \in Nat : size <= k * sliceSize <=> TotalSlices <= k
<1>1. size \in Nat \ {0} /\ sliceSize \in Nat \ {0} /\ SlicesRead \in Nat
  BY ReaderAssumption DEF BufferInv, SlicesRead
<1>2. Base \in Nat
  BY <1>1 DEF Base
<1>3. TotalSlices \in Nat /\ \A k \in Nat : size <= sliceSize * k <=> TotalSlices <= k
  BY <1>1, RoundingUp DEF TotalSlices
<1>4. \A k \in Nat : sliceSize * k = k * sliceSize
  BY <1>1
<1> QED BY <1>1, <1>2, <1>3, <1>4

\* A reader starts with nothing read.
LEMMA ReaderStarts ==
  ASSUME ReaderIdle, size' \in Sizes, sliceSize' \in SliceSizes, rpc' = "read",
         slice' = Zeros(sliceSize'), UNCHANGED <<filled, pos, readerResults>>
  PROVE  ReaderInv'
<1>1. size' \in Nat \ {0} /\ sliceSize' \in Nat \ {0} /\ HASH16K_LEN \in Nat
  BY ReaderAssumption
<1>2. TotalSlices' \in Nat
  BY <1>1, RoundingUp DEF TotalSlices
<1>3. /\ checksums' = <<>> /\ filled' = 0 /\ pos' = 0
      /\ full' = <<>> /\ prefix' = <<>> /\ ticks' = <<>>
  BY DEF ReaderIdle, readerResults
<1>s. SlicesRead' = 0
  BY <1>3 DEF SlicesRead
<1>b. Base' = 0
  <2>1. \A x \in Nat : 0 * x = 0
    OBVIOUS
  <2> QED BY <1>1, <1>s, <2>1 DEF Base
<1>4. BufferInv'
  BY <1>1, <1>2, <1>3, <1>s, <1>b DEF BufferInv, Zeros
<1>5. ResultsInv'
  BY <1>1, <1>3, <1>s, <1>b DEF ResultsInv, Numbers, Least
<1>6. TicksInv'
  BY <1>3, <1>s DEF TicksInv
<1> QED BY <1>4, <1>5, <1>6 DEF ReaderInv

\* A read, however short, fills the buffer with the bytes that follow.
LEMMA ReadKeeps ==
  ASSUME ReaderInv, NEW n \in 1 .. Least(sliceSize - filled, size - pos), Read(n)
  PROVE  ReaderInv'
<1>t. /\ size \in Nat /\ sliceSize \in Nat /\ Base \in Nat /\ filled \in Nat /\ pos \in Nat
      /\ n \in Nat /\ filled + n <= sliceSize /\ pos + n <= size /\ BufferInv
  <2>1. BufferInv /\ size \in Nat /\ sliceSize \in Nat /\ Base \in Nat
    BY TotalSlicesIs DEF ReaderInv
  <2>2. filled \in 0 .. sliceSize /\ pos \in 0 .. size
    BY <2>1 DEF BufferInv
  <2> QED BY <2>1, <2>2 DEF Least
<1>1. /\ UNCHANGED <<SlicesRead, Base, TotalSlices, size, sliceSize, rpc, checksums, full,
                     prefix, ticks>>
      /\ \A c \in 1 .. SlicesRead : Chunk(c)' = Chunk(c)
  BY DEF Read, readerGiven, readerResults, SlicesRead, Base, TotalSlices, Chunk
<1>2. slice' \in [1 .. sliceSize -> Nat]
  <2>1. \A i \in 1 .. sliceSize : i \in filled + 1 .. filled + n => pos + i - filled \in Nat
    BY <1>t
  <2> QED BY <1>t, <2>1 DEF Read, BufferInv
<1>3. filled' = filled + n /\ pos' = pos + n /\ rpc = "read"
  BY DEF Read
<1>4. pos = Base + filled /\ \A i \in 1 .. filled : slice[i] = Base + i
  BY <1>t, <1>3 DEF BufferInv
<1>5. \A i \in 1 .. filled + n : slice'[i] = Base + i
  <2> SUFFICES ASSUME NEW i \in 1 .. filled + n PROVE slice'[i] = Base + i
    OBVIOUS
  <2>1. i \in 1 .. sliceSize
    BY <1>t
  <2>2. CASE i \in filled + 1 .. filled + n
    BY <2>1, <2>2, <1>t, <1>4 DEF Read
  <2>3. CASE i \in 1 .. filled
    BY <2>1, <2>3, <1>t, <1>4 DEF Read
  <2> QED BY <2>2, <2>3, <1>t
<1>6. BufferInv'
  BY <1>t, <1>1, <1>2, <1>3, <1>4, <1>5 DEF BufferInv
<1>7. ResultsInv' /\ TicksInv'
  BY <1>1 DEF ReaderInv, ResultsInv, TicksInv
<1> QED BY <1>6, <1>7 DEF ReaderInv

\* The end of a read changes nothing of it; with nothing read every slice of
\* the file has been hashed.
LEMMA ReadEndKeeps ==
  ASSUME ReaderInv, ReadDone \/ ReadFails
  PROVE  ReaderInv'
<1>t. /\ size \in Nat /\ sliceSize \in Nat \ {0} /\ TotalSlices \in Nat /\ SlicesRead \in Nat
      /\ \A k \in Nat : size <= k * sliceSize <=> TotalSlices <= k
      /\ BufferInv
  BY TotalSlicesIs DEF ReaderInv
<1>1. /\ UNCHANGED <<SlicesRead, Base, TotalSlices, size, sliceSize, filled, slice, pos,
                     checksums, full, prefix, ticks>>
      /\ \A c \in 1 .. SlicesRead : Chunk(c)' = Chunk(c)
  BY DEF ReadDone, ReadFails, readerGiven, readerResults, SlicesRead, Base, TotalSlices, Chunk
<1>2. rpc = "read" /\ rpc' \in {"done", "hash", "error"}
  BY DEF ReadDone, ReadFails
<1>3. pos = Base + filled /\ filled \in Nat /\ Base \in Nat
  BY <1>2, <1>t DEF BufferInv, Base
<1>4. rpc' = "done" => pos = size /\ SlicesRead = TotalSlices
  <2> SUFFICES ASSUME rpc' = "done" PROVE pos = size /\ SlicesRead = TotalSlices
    OBVIOUS
  <2>1. filled = 0 /\ pos = size
    BY <1>t DEF ReadDone, ReadFails
  <2>2. size <= SlicesRead * sliceSize
    BY <2>1, <1>3, <1>t DEF Base
  <2> QED BY <2>1, <2>2, <1>t DEF BufferInv
<1>5. rpc' = "hash" => filled > 0 /\ (filled = sliceSize \/ pos = size)
  BY <1>3 DEF ReadDone, ReadFails
<1>6. BufferInv'
  BY <1>t, <1>1, <1>2, <1>3, <1>4, <1>5 DEF BufferInv
<1>7. ResultsInv' /\ TicksInv'
  BY <1>1 DEF ReaderInv, ResultsInv, TicksInv
<1> QED BY <1>6, <1>7 DEF ReaderInv

-----------------------------------------------------------------------------
(* The hash of a slice                                                     *)

\* What is added to the results is the next chunk of the file, padded, and the
\* bytes of it that were read.
LEMMA NextChunk ==
  ASSUME ReaderInv, rpc = "hash"
  PROVE  /\ PaddedSlice = Chunk(SlicesRead + 1)
         /\ \A m \in 0 .. filled : SubSeq(slice, 1, m) = [i \in 1 .. m |-> Base + i]
<1>t. /\ size \in Nat /\ sliceSize \in Nat /\ Base \in Nat /\ SlicesRead \in Nat /\ BufferInv
  BY TotalSlicesIs DEF ReaderInv
<1>1. /\ filled \in 1 .. sliceSize /\ pos \in 0 .. size /\ pos = Base + filled
      /\ filled = sliceSize \/ pos = size
      /\ slice \in [1 .. sliceSize -> Nat]
      /\ \A i \in 1 .. filled : slice[i] = Base + i
  BY <1>t DEF BufferInv
<1>2. ASSUME NEW m \in 0 .. filled
      PROVE  /\ SubSeq(slice, 1, m) \in Seq(Nat) /\ Len(SubSeq(slice, 1, m)) = m
             /\ \A i \in 1 .. m : SubSeq(slice, 1, m)[i] = Base + i
  <2>1. slice \in Seq(Nat) /\ Len(slice) = sliceSize
    BY <1>t, <1>1
  <2> QED BY <2>1, <1>1, <1>t
<1>3. ASSUME NEW m \in 0 .. filled
      PROVE  SubSeq(slice, 1, m) = [i \in 1 .. m |-> Base + i]
  BY <1>2
<1>4. PaddedSlice = Chunk(SlicesRead + 1)
  <2> DEFINE s == SubSeq(slice, 1, filled)
             z == Zeros(sliceSize - filled)
             c == Chunk(SlicesRead + 1)
  <2>1. /\ s \in Seq(Nat) /\ Len(s) = filled
        /\ \A i \in 1 .. filled : s[i] = Base + i
    BY <1>1, <1>2
  <2>2. /\ z \in Seq(Nat) /\ Len(z) = sliceSize - filled
        /\ \A i \in 1 .. sliceSize - filled : z[i] = 0
    BY <1>1, <1>t DEF Zeros
  <2>3. \A i \in 1 .. sliceSize : c[i] = IF Base + i <= size THEN Base + i ELSE 0
    BY <1>t DEF Chunk, Base
  <2>4. s \o z \in Seq(Nat) /\ Len(s \o z) = sliceSize
    BY <2>1, <2>2, <1>1, <1>t
  <2>5. \A i \in 1 .. sliceSize :
          (s \o z)[i] = IF i <= filled THEN s[i] ELSE z[i - filled]
    BY <2>1, <2>2, <1>1, <1>t
  <2>6. c = [i \in 1 .. sliceSize |-> c[i]]
    BY DEF Chunk
  <2>7. ASSUME NEW i \in 1 .. sliceSize PROVE (s \o z)[i] = c[i]
    <3>1. CASE i <= filled
      BY <3>1, <2>1, <2>3, <2>5, <1>1, <1>t
    <3>2. CASE i > filled
      <4>1. i - filled \in 1 .. sliceSize - filled /\ Base + i > size
        BY <3>2, <1>1, <1>t
      <4>2. (s \o z)[i] = 0
        BY <3>2, <4>1, <2>2, <2>5, <1>1
      <4>3. c[i] = 0
        BY <4>1, <2>3, <1>1, <1>t
      <4> QED BY <4>2, <4>3
    <3>3. i <= filled \/ i > filled
      BY <1>1, <1>t
    <3> QED BY <3>1, <3>2, <3>3, Zenon
  <2>8. s \o z = c
    <3>1. s \o z = [i \in 1 .. sliceSize |-> (s \o z)[i]]
      BY <2>4, SeqIsFunction
    <3> QED BY <3>1, <2>6, <2>7, Zenon
  <2> QED BY <2>8 DEF PaddedSlice
<1> QED BY <1>3, <1>4

\* A slice hashed is a slice more of every result.
LEMMA HashKeeps ==
  ASSUME ReaderInv, HashSlice
  PROVE  ReaderInv'
<1> DEFINE k == SlicesRead
<1>t. /\ size \in Nat \ {0} /\ sliceSize \in Nat \ {0} /\ TotalSlices \in Nat
      /\ k \in Nat /\ Base \in Nat
      /\ \A n \in Nat : size <= n * sliceSize <=> TotalSlices <= n
      /\ BufferInv /\ ResultsInv /\ TicksInv
  BY TotalSlicesIs DEF ReaderInv
<1>h. HASH16K_LEN \in Nat \ {0} /\ ReaderStride \in Nat \ {0}
  BY ReaderAssumption
<1>0. rpc = "hash"
  BY DEF HashSlice
<1>1. /\ filled \in 1 .. sliceSize /\ pos \in 0 .. size /\ pos = Base + filled
      /\ filled = sliceSize \/ pos = size
  BY <1>0, <1>t DEF BufferInv
<1>2. UNCHANGED <<size, sliceSize, pos, TotalSlices>> /\ filled' = 0
  BY DEF HashSlice, readerGiven, TotalSlices
<1>c. /\ \A c : Chunk(c)' = Chunk(c)
      /\ Chunk(k + 1) \in [1 .. sliceSize -> Nat]
  <2>1. \A c : Chunk(c)' = Chunk(c)
    BY <1>2 DEF Chunk
  <2>2. Chunk(k + 1) = [i \in 1 .. sliceSize |-> IF Base + i <= size THEN Base + i ELSE 0]
    BY <1>t DEF Chunk, Base
  <2>3. \A i \in 1 .. sliceSize : Base + i \in Nat
    BY <1>t
  <2> QED BY <2>1, <2>2, <2>3
<1>n. PaddedSlice = Chunk(k + 1)
  BY <1>0, NextChunk
<1>r. \A m \in 0 .. filled : SubSeq(slice, 1, m) = [i \in 1 .. m |-> Base + i]
  BY <1>0, NextChunk
<1>3. k' = k + 1 /\ checksums' = Append(checksums, Chunk(k + 1))
  <2>1. checksums' = Append(checksums, PaddedSlice)
    BY DEF HashSlice
  <2>2. checksums \in Seq([1 .. sliceSize -> Nat])
    BY <1>t DEF BufferInv
  <2> QED BY <2>1, <2>2, <1>n DEF SlicesRead
<1>4. Base' = Base + sliceSize
  BY <1>2, <1>3, <1>t DEF Base
<1>5. size <= Base => TotalSlices <= k
  BY <1>t DEF Base
<1>6. k + 1 <= TotalSlices
  <2>1. Base < size
    BY <1>1, <1>t
  <2>2. TotalSlices <= k => size <= Base
    BY <1>t DEF Base
  <2> QED BY <2>1, <2>2, <1>t
<1>7. size <= Base + sliceSize => TotalSlices = k + 1
  <2>1. (k + 1) * sliceSize = Base + sliceSize
    BY <1>t DEF Base
  <2> QED BY <2>1, <1>6, <1>t
<1>8. filled < sliceSize => pos = size /\ TotalSlices = k + 1
  BY <1>1, <1>7, <1>t
<1>9. rpc' = IF filled < sliceSize THEN "done" ELSE "read"
  BY DEF HashSlice
<1>10. slice' \in [1 .. sliceSize -> Nat]
  BY <1>n, <1>c DEF HashSlice
<1>11. checksums' \in Seq([1 .. sliceSize -> Nat])
  <2>1. checksums \in Seq([1 .. sliceSize -> Nat]) /\ Chunk(k + 1) \in [1 .. sliceSize -> Nat]
    BY <1>t, <1>c DEF BufferInv
  <2> QED BY <2>1, <1>3
<1>12. BufferInv'
  <2>1. size' \in Sizes /\ sliceSize' \in SliceSizes /\ pos' \in 0 .. size'
    BY <1>t, <1>1, <1>2 DEF BufferInv
  <2>2. rpc' # "done" => pos = Base + sliceSize
    BY <1>1, <1>9, <1>t
  <2>3. rpc' = "done" => pos = size /\ k' = TotalSlices
    BY <1>3, <1>8, <1>9
  <2>4. /\ rpc' \in {"read", "done"}
        /\ slice' \in [1 .. sliceSize' -> Nat] /\ checksums' \in Seq([1 .. sliceSize' -> Nat])
        /\ SlicesRead' <= TotalSlices'
    BY <1>2, <1>3, <1>6, <1>9, <1>10, <1>11
  <2>5. filled' \in 0 .. sliceSize' /\ \A i \in 1 .. filled' : FALSE
    BY <1>2, <1>t
  <2>6. rpc' # "done" => pos' = Base' + filled'
    BY <2>2, <1>2, <1>4, <1>t
  <2>7. rpc' = "done" => pos' = size' /\ SlicesRead' = TotalSlices'
    BY <2>3, <1>2
  <2> QED BY <2>1, <2>4, <2>5, <2>6, <2>7 DEF BufferInv
<1>13. checksums' = [c \in 1 .. k' |-> Chunk(c)']
  <2>1. checksums = [c \in 1 .. k |-> Chunk(c)]
    BY <1>t DEF ResultsInv
  <2>2. checksums \in Seq([1 .. sliceSize -> Nat]) /\ Len(checksums) = k
    BY <1>t DEF BufferInv, SlicesRead
  <2>3. /\ Len(checksums') = k + 1 /\ checksums' \in Seq([1 .. sliceSize -> Nat])
        /\ \A c \in 1 .. k + 1 : checksums'[c] = IF c <= k THEN checksums[c] ELSE Chunk(k + 1)
    BY <2>2, <1>3, <1>11, <1>t
  <2>4. \A c \in 1 .. k + 1 : checksums'[c] = Chunk(c)
    BY <2>1, <2>3, <1>t
  <2>5. checksums' = [c \in 1 .. k + 1 |-> Chunk(c)]
    BY <2>3, <2>4
  <2> QED BY <2>5, <1>3, <1>c, <1>t
<1>14. Least(Base, size) = Base /\ Least(Base', size') = Base + filled
  BY <1>1, <1>2, <1>4, <1>t DEF Least
<1>15. full' = Numbers(Least(Base', size'))
  <2>1. full' = Numbers(Base) \o [i \in 1 .. filled |-> Base + i]
    <3>1. full' = full \o SubSeq(slice, 1, filled) /\ full = Numbers(Base)
      BY <1>14, <1>t DEF HashSlice, ResultsInv
    <3>2. SubSeq(slice, 1, filled) = [i \in 1 .. filled |-> Base + i]
      BY <1>r, <1>1
    <3> QED BY <3>1, <3>2
  <2>2. Base \in Nat /\ filled \in Nat
    BY <1>1, <1>t
  <2> QED BY <2>1, <2>2, <1>14, NumbersAppend
<1>16. prefix' = Numbers(Least(Least(Base', size'), HASH16K_LEN))
  <2> DEFINE p == Least(Base, HASH16K_LEN)
             take == Least(HASH16K_LEN - p, filled)
  <2>1. p \in Nat /\ take \in 0 .. filled /\ take \in Nat
        /\ p + take = Least(Base + filled, HASH16K_LEN) /\ (take = 0 \/ p = Base)
    BY <1>1, <1>h, <1>t DEF Least
  <2>2. prefix = Numbers(p)
    BY <1>14, <1>t DEF ResultsInv
  <2>3. Len(prefix) = p
    BY <2>1, <2>2 DEF Numbers
  <2>4. prefix' = Numbers(p) \o SubSeq(slice, 1, take)
    BY <2>2, <2>3 DEF HashSlice
  <2>5. SubSeq(slice, 1, take) = [i \in 1 .. take |-> Base + i]
    BY <2>1, <1>r
  <2>6. SubSeq(slice, 1, take) = [i \in 1 .. take |-> p + i]
    BY <2>1, <2>5
  <2> HIDE DEF p, take
  <2>7. prefix' = Numbers(p + take)
    BY <2>1, <2>4, <2>6, NumbersAppend
  <2> QED BY <2>1, <2>7, <1>14
<1>17. ResultsInv'
  BY <1>13, <1>15, <1>16 DEF ResultsInv
<1>18. TicksInv'
  <2>1. TickWorth(k + 1) <=> k + 1 = TotalSlices \/ (k + 1) % ReaderStride = 0
    BY <1>8 DEF TickWorth
  <2>2. /\ ticks \in Seq(1 .. k)
        /\ \A i, j \in DOMAIN ticks : i < j => ticks[i] < ticks[j]
        /\ \A n \in 1 .. k :
             (n = TotalSlices \/ n % ReaderStride = 0) <=> \E i \in DOMAIN ticks : ticks[i] = n
    BY <1>t DEF TicksInv
  <2>3. ticks' = IF TickWorth(k + 1) THEN Append(ticks, k + 1) ELSE ticks
    BY DEF HashSlice, SlicesRead
  <2>d. DOMAIN ticks = 1 .. Len(ticks) /\ Len(ticks) \in Nat /\ \A i \in DOMAIN ticks : ticks[i] \in 1 .. k
    BY <2>2, SeqIsFunction
  <2>4. CASE TickWorth(k + 1)
    <3>1. ticks' = Append(ticks, k + 1)
      BY <2>3, <2>4
    <3>2. /\ ticks' \in Seq(1 .. k + 1)
          /\ DOMAIN ticks' = 1 .. Len(ticks) + 1
          /\ ticks'[Len(ticks) + 1] = k + 1
          /\ \A i \in DOMAIN ticks : ticks'[i] = ticks[i]
      <4>1. ticks \in Seq(1 .. k + 1)
        <5>1. 1 .. k \subseteq 1 .. k + 1
          BY <1>t
        <5> QED BY <5>1, <2>2, SeqOfMore
      <4> QED BY <4>1, <3>1, <1>t
    <3>3. \A i, j \in DOMAIN ticks' : i < j => ticks'[i] < ticks'[j]
      <4> SUFFICES ASSUME NEW i \in DOMAIN ticks', NEW j \in DOMAIN ticks', i < j
                   PROVE  ticks'[i] < ticks'[j]
        OBVIOUS
      <4>1. i \in DOMAIN ticks /\ ticks[i] \in 1 .. k /\ ticks'[i] = ticks[i]
        BY <3>2, <2>d
      <4>2. CASE j \in DOMAIN ticks
        BY <4>1, <4>2, <3>2, <2>2
      <4>3. CASE j = Len(ticks) + 1
        BY <4>1, <4>3, <3>2, <1>t
      <4> QED BY <4>2, <4>3, <3>2, <2>d
    <3>4. \A n \in 1 .. k + 1 :
            (n = TotalSlices \/ n % ReaderStride = 0) <=> \E i \in DOMAIN ticks' : ticks'[i] = n
      <4> SUFFICES ASSUME NEW n \in 1 .. k + 1
                   PROVE  (n = TotalSlices \/ n % ReaderStride = 0)
                             <=> \E i \in DOMAIN ticks' : ticks'[i] = n
        OBVIOUS
      <4>1. CASE n = k + 1
        <5>1. Len(ticks) + 1 \in DOMAIN ticks' /\ ticks'[Len(ticks) + 1] = n
          BY <4>1, <3>2, <2>d
        <5> QED BY <5>1, <4>1, <2>1, <2>4
      <4>2. CASE n # k + 1
        <5>1. n \in 1 .. k
          BY <4>2, <1>t
        <5>2. \A i \in DOMAIN ticks' : ticks'[i] = n => i \in DOMAIN ticks
          BY <4>2, <3>2, <2>d
        <5>3. DOMAIN ticks \subseteq DOMAIN ticks'
          BY <3>2, <2>d
        <5>4. (\E i \in DOMAIN ticks' : ticks'[i] = n) <=> \E i \in DOMAIN ticks : ticks[i] = n
          BY <5>2, <5>3, <3>2
        <5> QED BY <5>1, <5>4, <2>2
      <4> QED BY <4>1, <4>2
    <3> QED BY <3>2, <3>3, <3>4, <1>2, <1>3 DEF TicksInv
  <2>5. CASE ~TickWorth(k + 1)
    <3>1. ticks' = ticks
      BY <2>3, <2>5
    <3>2. ticks \in Seq(1 .. k + 1)
      <4>1. 1 .. k \subseteq 1 .. k + 1
        BY <1>t
      <4> QED BY <4>1, <2>2, SeqOfMore
    <3>3. ~\E i \in DOMAIN ticks : ticks[i] = k + 1
      BY <2>d, <1>t
    <3>4. \A n \in 1 .. k + 1 :
            (n = TotalSlices \/ n % ReaderStride = 0) <=> \E i \in DOMAIN ticks : ticks[i] = n
      <4>1. \A n \in 1 .. k + 1 : n = k + 1 \/ n \in 1 .. k
        BY <1>t
      <4> QED BY <4>1, <3>3, <2>1, <2>2, <2>5
    <3> QED BY <3>1, <3>2, <3>4, <2>2, <1>2, <1>3 DEF TicksInv
  <2> QED BY <2>4, <2>5
<1> QED BY <1>12, <1>17, <1>18 DEF ReaderInv

-----------------------------------------------------------------------------
(* The scan and the bars                                                   *)

BarTypeOK ==
  /\ file \in 0 .. FileCount /\ scanning \in {"no", "mmap", "reader"}
  /\ length \in Nat /\ position \in Nat /\ scanBase \in Nat
  /\ encode \in [length : Nat, position : Nat, done : Nat]

\* The locals of a scan are there while it runs.
ScanInv ==
  /\ TypeOK /\ TickInv
  /\ scanning # "mmap" => Init
  /\ IF scanning = "reader" THEN ReaderInv ELSE ReaderIdle

\* The bar has room for the file being scanned.
RoomInv ==
  /\ scanning = "mmap" => scanBase + Slices <= length
  /\ scanning = "reader" => scanBase + TotalSlices <= length
  /\ encode.done <= encode.length

BarInv == BarTypeOK /\ ScanInv /\ RoomInv /\ BarInBounds

\* A scan that is about to start has no ticks and no counts.
LEMMA InitIsIdle == Init => TypeOK /\ TickInv
BY ScanAssumption
   DEF Init, TypeOK, TickInv, CountInv, ToldOnce, PastInv, LastInv, Active, Heard

\* What a step leaves alone stays as it was.
LEMMA TicksStutter ==
  ASSUME UNCHANGED vars
  PROVE  /\ TypeOK /\ TickInv => (TypeOK /\ TickInv)'
         /\ Init => Init'
BY DEF vars, Init, TypeOK, TickInv, CountInv, ToldOnce, PastInv, LastInv, Active, Heard

\* Likewise of the reader.
LEMMA ReaderStutter ==
  ASSUME UNCHANGED readerVars
  PROVE  /\ ReaderInv => ReaderInv'
         /\ ReaderIdle => ReaderIdle'
         /\ TotalSlices' = TotalSlices
BY DEF readerVars, ReaderInv, BufferInv, ResultsInv, TicksInv, ReaderIdle, TotalSlices,
       SlicesRead, Base, Chunk

\* A step of the workers keeps what is shown above of one scan.
LEMMA WorkerKeeps ==
  ASSUME TypeOK, TickInv, NEW w \in Workers, Worker(w)
  PROVE  TypeOK' /\ TickInv'
BY WorkerType, WorkerCount, WorkerPast, WorkerLast DEF TickInv

\* A step of the reader keeps its invariant and the file it scans; a tick it
\* adds is a count of the file.
LEMMA ReaderKeeps ==
  ASSUME ReaderInv, ReaderNext
  PROVE  /\ ReaderInv'
         /\ TotalSlices' = TotalSlices /\ TotalSlices \in Nat
         /\ ticks' # ticks => ticks'[Len(ticks')] \in 0 .. TotalSlices
<1>1. ReaderInv'
  BY ReadKeeps, ReadEndKeeps, HashKeeps DEF ReaderNext
<1>2. size' = size /\ sliceSize' = sliceSize
  BY DEF ReaderNext, Read, ReadDone, ReadFails, HashSlice, readerGiven
<1>3. TotalSlices' = TotalSlices
  BY <1>2 DEF TotalSlices
<1>4. TotalSlices \in Nat
  BY TotalSlicesIs DEF ReaderInv
<1>5. ASSUME ticks' # ticks PROVE ticks'[Len(ticks')] \in 0 .. TotalSlices
  <2>1. HashSlice
    BY <1>5 DEF ReaderNext, Read, ReadDone, ReadFails, readerResults
  <2>2. ticks \in Seq(1 .. SlicesRead)
    BY DEF ReaderInv, TicksInv
  <2>3. ticks' = Append(ticks, SlicesRead + 1) /\ Len(checksums') = SlicesRead + 1
    BY <1>5, <2>1 DEF HashSlice, SlicesRead, ReaderInv, BufferInv
  <2>4. ticks'[Len(ticks')] = SlicesRead'
    BY <2>2, <2>3 DEF SlicesRead
  <2>5. SlicesRead' <= TotalSlices' /\ SlicesRead' \in Nat
    <3>1. BufferInv'
      BY <1>1 DEF ReaderInv
    <3>2. checksums' \in Seq([1 .. sliceSize' -> Nat]) /\ SlicesRead' <= TotalSlices'
      BY <3>1 DEF BufferInv
    <3> QED BY <3>2 DEF SlicesRead
  <2> QED BY <2>4, <2>5, <1>3, <1>4
<1> QED BY <1>1, <1>3, <1>4, <1>5

\* The start of a file makes room for it.
LEMMA StartKeeps ==
  ASSUME BarInv, MmapStarted \/ ReaderStarted
  PROVE  BarInv'
<1>t. BarTypeOK /\ ScanInv /\ RoomInv /\ BarInBounds
  BY DEF BarInv
<1>1. CASE MmapStarted
  <2>1. /\ scanning = "no" /\ scanning' = "mmap" /\ file < FileCount /\ file' = file + 1
        /\ length' = length + Slices /\ UNCHANGED <<position, scanBase, encode>>
        /\ UNCHANGED vars /\ UNCHANGED readerVars
    BY <1>1 DEF MmapStarted, ScanStarted
  <2>2. ReaderIdle' /\ TypeOK' /\ TickInv'
    BY <2>1, <1>t, TicksStutter, ReaderStutter DEF ScanInv
  <2>3. BarTypeOK' /\ RoomInv' /\ BarInBounds'
    BY <2>1, <1>t, ScanAssumption, BarAssumption DEF BarTypeOK, RoomInv, BarInBounds
  <2> QED BY <2>1, <2>2, <2>3 DEF BarInv, ScanInv
<1>2. CASE ReaderStarted
  <2>1. /\ scanning = "no" /\ scanning' = "reader" /\ file < FileCount /\ file' = file + 1
        /\ length' = length + TotalSlices' /\ UNCHANGED <<position, scanBase, encode>>
        /\ UNCHANGED vars
    BY <1>2 DEF ReaderStarted, ScanStarted
  <2>2. ReaderInv'
    BY <2>1, <1>2, <1>t, ReaderStarts DEF ScanInv, ReaderStarted
  <2>3. Init' /\ TypeOK' /\ TickInv'
    BY <2>1, <1>t, TicksStutter DEF ScanInv
  <2>4. TotalSlices' \in Nat
    <3>1. size' \in Nat \ {0} /\ sliceSize' \in Nat \ {0}
      BY <1>2, ReaderAssumption DEF ReaderStarted
    <3> QED BY <3>1, RoundingUp DEF TotalSlices
  <2>a. PICK n \in Nat : n = TotalSlices'
    BY <2>4
  <2>b. length' = length + n
    BY <2>1, <2>a
  <2>5. BarTypeOK'
    BY <2>1, <2>b, <1>t, BarAssumption DEF BarTypeOK
  <2>6. RoomInv'
    <3>1. scanBase' + TotalSlices' <= length'
      <4>1. scanBase \in Nat /\ length \in Nat /\ scanBase <= length
        BY <1>t DEF BarTypeOK, BarInBounds
      <4>2. scanBase + n <= length'
        BY <4>1, <2>b
      <4>3. scanBase' = scanBase
        BY <2>1
      <4> QED BY <4>2, <4>3, <2>a
    <3> QED BY <3>1, <2>1, <1>t DEF RoomInv
  <2>7. BarInBounds'
    BY <2>1, <2>b, <1>t DEF BarTypeOK, BarInBounds
  <2> QED BY <2>1, <2>2, <2>3, <2>5, <2>6, <2>7 DEF BarInv, ScanInv
<1> QED BY <1>1, <1>2

\* A worker counts or tells a tick of the mapped file.
LEMMA MmapStepKeeps ==
  ASSUME BarInv, NEW w \in Workers, ShowTick(w) \/ HashAndCount(w)
  PROVE  BarInv'
<1>t. BarTypeOK /\ ScanInv /\ RoomInv /\ BarInBounds
  BY DEF BarInv
<1>1. scanning = "mmap" /\ Worker(w) /\ UNCHANGED readerVars
  BY DEF ShowTick, HashAndCount, Worker
<1>2. UNCHANGED <<file, scanning, length, scanBase, encode>>
  BY DEF ShowTick, HashAndCount, MoveBar, barVars
<1>3. TypeOK' /\ TickInv' /\ ReaderIdle'
  BY <1>1, <1>t, WorkerKeeps, ReaderStutter DEF ScanInv
<1>4. position' = position \/ position' \in scanBase .. scanBase + Slices
  <2>1. d[w] \in 0 .. Slices /\ scanBase \in Nat
    BY <1>t DEF ScanInv, TypeOK, BarTypeOK
  <2> QED BY <2>1, ScanAssumption DEF ShowTick, HashAndCount, MoveBar, barVars
<1>5. BarTypeOK' /\ RoomInv' /\ BarInBounds'
  BY <1>1, <1>2, <1>4, <1>t, ScanAssumption DEF BarTypeOK, RoomInv, BarInBounds
<1> QED BY <1>1, <1>2, <1>3, <1>5 DEF BarInv, ScanInv

\* The reader reads, hashes a slice or tells a tick of its file.
LEMMA ReaderStepKeeps ==
  ASSUME BarInv, ReaderStep
  PROVE  BarInv'
<1>t. BarTypeOK /\ ScanInv /\ RoomInv /\ BarInBounds
  BY DEF BarInv
<1>1. scanning = "reader" /\ ReaderNext /\ UNCHANGED vars /\ ReaderInv
  BY <1>t DEF ReaderStep, ScanInv
<1>2. UNCHANGED <<file, scanning, length, scanBase, encode>>
  BY DEF ReaderStep, MoveBar, barVars
<1>3. /\ ReaderInv' /\ TotalSlices' = TotalSlices /\ TotalSlices \in Nat
      /\ ticks' # ticks => ticks'[Len(ticks')] \in 0 .. TotalSlices
  BY <1>1, ReaderKeeps
<1>4. Init' /\ TypeOK' /\ TickInv'
  BY <1>1, <1>t, TicksStutter DEF ScanInv
<1>5. position' = position \/ position' \in scanBase .. scanBase + TotalSlices
  <2>1. scanBase \in Nat
    BY <1>t DEF BarTypeOK
  <2> QED BY <2>1, <1>3 DEF ReaderStep, MoveBar, barVars
<1>6. BarTypeOK' /\ RoomInv' /\ BarInBounds'
  BY <1>1, <1>2, <1>3, <1>5, <1>t DEF BarTypeOK, RoomInv, BarInBounds
<1> QED BY <1>1, <1>2, <1>3, <1>4, <1>6 DEF BarInv, ScanInv

\* A file is completed and the locals of its scan are gone; or the encode goes
\* on.
LEMMA EndKeeps ==
  ASSUME BarInv, ScanCompleted \/ EncodeStarted \/ EncodeSlice
  PROVE  BarInv'
<1>t. BarTypeOK /\ ScanInv /\ RoomInv /\ BarInBounds
  BY DEF BarInv
<1>1. CASE ScanCompleted
  <2>1. Init' /\ ReaderIdle'
    BY <1>1 DEF ScanCompleted, Init, ReaderIdle
  <2>2. TypeOK' /\ TickInv'
    <3>1. Init => TypeOK /\ TickInv
      BY InitIsIdle
    <3>2. Init' => (TypeOK /\ TickInv)'
      BY InitIsIdle, PTL
    <3> QED BY <2>1, <3>2
  <2>3. BarTypeOK' /\ RoomInv' /\ BarInBounds'
    BY <1>1, <1>t DEF ScanCompleted, BarTypeOK, RoomInv, BarInBounds
  <2> QED BY <1>1, <2>1, <2>2, <2>3 DEF ScanCompleted, BarInv, ScanInv
<1>2. CASE EncodeStarted \/ EncodeSlice
  <2>1. /\ UNCHANGED vars /\ UNCHANGED readerVars
        /\ UNCHANGED <<file, scanning, length, position, scanBase>>
    BY <1>2 DEF EncodeStarted, EncodeSlice
  <2>2. ScanInv'
    BY <2>1, <1>t, TicksStutter, ReaderStutter DEF ScanInv
  <2>3. /\ encode' \in [length : Nat, position : Nat, done : Nat]
        /\ encode'.position <= encode'.done /\ encode'.done <= encode'.length
        /\ encode'.done = encode'.length => encode'.position = encode'.length
    <3>1. CASE EncodeStarted
      BY <3>1, <1>t DEF EncodeStarted, NoBar, BarTypeOK
    <3>2. CASE EncodeSlice
      <4>1. /\ encode.length \in Nat /\ encode.position \in Nat /\ encode.done \in Nat
            /\ encode.position <= encode.done /\ encode.done < encode.length
        BY <3>2, <1>t DEF EncodeSlice, BarTypeOK, BarInBounds
      <4>2. encode' = [length |-> encode.length, done |-> encode.done + 1,
                       position |-> IF EncodeTick(encode.done + 1)
                                    THEN encode.done + 1 ELSE encode.position]
        BY <3>2, <1>t DEF EncodeSlice, BarTypeOK
      <4> QED BY <4>1, <4>2 DEF EncodeTick
    <3> QED BY <1>2, <3>1, <3>2
  <2>4. BarTypeOK' /\ RoomInv' /\ BarInBounds'
    BY <2>1, <2>3, <1>t, ReaderStutter DEF BarTypeOK, RoomInv, BarInBounds
  <2> QED BY <2>2, <2>4 DEF BarInv
<1> QED BY <1>1, <1>2

\* The invariant holds of every scan.
LEMMA BarInvariant == BarSpec => []BarInv
<1>1. BarInit => BarInv
  <2> SUFFICES ASSUME BarInit PROVE BarInv
    OBVIOUS
  <2>1. Init /\ ReaderIdle /\ scanning = "no"
    BY DEF BarInit, ReaderIdle
  <2>2. ScanInv
    BY <2>1, InitIsIdle DEF ScanInv
  <2> QED BY <2>1, <2>2, BarAssumption
          DEF BarInit, BarInv, BarTypeOK, RoomInv, BarInBounds, NoBar
<1>2. BarInv /\ [BarNext]_allVars => BarInv'
  <2> SUFFICES ASSUME BarInv, [BarNext]_allVars PROVE BarInv'
    OBVIOUS
  <2>1. CASE BarNext
    BY <2>1, StartKeeps, MmapStepKeeps, ReaderStepKeeps, EndKeeps DEF BarNext
  <2>2. CASE UNCHANGED allVars
    <3>1. UNCHANGED vars /\ UNCHANGED readerVars /\ UNCHANGED barVars
      BY <2>2 DEF allVars
    <3>2. ScanInv'
      BY <3>1, TicksStutter, ReaderStutter DEF BarInv, ScanInv, barVars
    <3> QED BY <3>1, <3>2, ReaderStutter DEF BarInv, BarTypeOK, RoomInv, BarInBounds, barVars
  <2> QED BY <2>1, <2>2
<1> QED BY <1>1, <1>2, PTL DEF BarSpec

-----------------------------------------------------------------------------
(* The properties of the run scan_bar                                      *)

\* However many files are scanned one after the other, no count of a file
\* reaches the reporter twice.
THEOREM NoTickTwiceInAnyFile == BarSpec => []ToldOnce
<1>1. BarInv => ToldOnce
  BY DEF BarInv, ScanInv, TickInv
<1> QED BY <1>1, BarInvariant, PTL

\* The last count of every mapped file is heard.
THEOREM LastTickOfEveryFile == BarSpec => []TotalIsTold
<1>1. BarInv => TotalIsTold
  BY DEF BarInv, ScanInv, TickInv, LastInv, TotalIsTold, Finished, Active
<1> QED BY <1>1, BarInvariant, PTL

\* The exchange loop never lowers last_emitted within a file.
THEOREM LastEmittedNeverFallsInAFile == BarSpec => LastEmittedGrows
<1>1. BarInv /\ [BarNext]_allVars => [done' >= done => lastEmitted' >= lastEmitted]_vars
  <2> SUFFICES ASSUME BarInv, [BarNext]_allVars, ~UNCHANGED vars, done' >= done
               PROVE  lastEmitted' >= lastEmitted
    OBVIOUS
  <2>1. lastEmitted \in Nat /\ done \in Nat /\ TypeOK
    BY ScanAssumption DEF BarInv, ScanInv, TypeOK
  <2>2. CASE \E w \in Workers : ShowTick(w) \/ HashAndCount(w)
    BY <2>1, <2>2 DEF ShowTick, HashAndCount, Quiet, FetchAdd, Load, Superseded, ExchangeOk,
       ExchangeFails, Emit, Goto, TypeOK
  <2>3. CASE ScanCompleted
    BY <2>1, <2>3, ScanAssumption DEF ScanCompleted, Finished, BarInv, ScanInv, Init
  <2> QED BY <2>2, <2>3 DEF BarNext, MmapStarted, ReaderStarted, ReaderStep, EncodeStarted,
             EncodeSlice, allVars
<1> QED BY <1>1, BarInvariant, PTL DEF BarSpec, LastEmittedGrows

\* The bars stay within what was started and never fall behind what was done.
THEOREM BarsStayInBounds == BarSpec => []BarInBounds
<1>1. BarInv => BarInBounds
  BY DEF BarInv
<1> QED BY <1>1, BarInvariant, PTL

\* Of a scan that is done, ReaderInv says all that is to be said.
LEMMA ReaderDone ==
  ASSUME BarInv, rpc = "done"
  PROVE  /\ ReaderInv /\ pos = size /\ SlicesRead = TotalSlices
         /\ Least(Base, size) = size
<1>1. ReaderInv
  BY DEF BarInv, ScanInv, ReaderIdle
<1>2. BufferInv /\ pos = size /\ SlicesRead = TotalSlices
  BY <1>1 DEF ReaderInv, BufferInv
<1>3. size \in Nat /\ Base \in Nat /\ TotalSlices \in Nat
      /\ \A k \in Nat : size <= k * sliceSize <=> TotalSlices <= k
  BY <1>2, TotalSlicesIs
<1>4. size <= Base
  BY <1>2, <1>3 DEF Base
<1> QED BY <1>1, <1>2, <1>3, <1>4 DEF Least

\* However its reads are cut, the reader computes what a mapping would give.
THEOREM ReaderComputesTheSame == BarSpec => []ReaderMatchesMmap
<1>1. BarInv => ReaderMatchesMmap
  <2> SUFFICES ASSUME BarInv, rpc = "done"
               PROVE  /\ checksums = MmapSlices
                      /\ full = FileBytes
                      /\ prefix = SubSeq(FileBytes, 1, Least(size, HASH16K_LEN))
    BY DEF ReaderMatchesMmap
  <2>1. ReaderInv /\ SlicesRead = TotalSlices /\ Least(Base, size) = size
    BY ReaderDone
  <2>2. size \in Nat /\ HASH16K_LEN \in Nat
    BY <2>1, TotalSlicesIs, ReaderAssumption DEF ReaderInv
  <2>3. checksums = MmapSlices /\ full = FileBytes /\ prefix = Numbers(Least(size, HASH16K_LEN))
    BY <2>1 DEF ReaderInv, ResultsInv, MmapSlices, FileBytes, Numbers
  <2>4. ASSUME NEW m \in 0 .. size PROVE SubSeq(FileBytes, 1, m) = Numbers(m)
    <3>1. FileBytes \in Seq(Nat) /\ Len(FileBytes) = size /\ \A i \in 1 .. size : FileBytes[i] = i
      BY <2>2 DEF FileBytes
    <3>2. /\ SubSeq(FileBytes, 1, m) \in Seq(Nat) /\ Len(SubSeq(FileBytes, 1, m)) = m
          /\ \A i \in 1 .. m : SubSeq(FileBytes, 1, m)[i] = i
      BY <3>1, <2>2
    <3>3. SubSeq(FileBytes, 1, m) = [i \in 1 .. m |-> SubSeq(FileBytes, 1, m)[i]]
      BY <3>2, SeqIsFunction
    <3> QED BY <3>2, <3>3 DEF Numbers
  <2>5. Least(size, HASH16K_LEN) \in 0 .. size
    BY <2>2 DEF Least
  <2> QED BY <2>3, <2>4, <2>5
<1> QED BY <1>1, BarInvariant, PTL

\* The reader tells the counts worth a tick in order, once each, and the total.
THEOREM ReaderTicksAreTold == BarSpec => []TicksAreTold
<1>1. BarInv => TicksAreTold
  <2> SUFFICES ASSUME BarInv, rpc = "done"
               PROVE  /\ \A i, j \in DOMAIN ticks : i < j => ticks[i] < ticks[j]
                      /\ Range(ticks) = {n \in 1 .. TotalSlices :
                                           n = TotalSlices \/ n % ReaderStride = 0}
    BY DEF TicksAreTold
  <2>1. TicksInv /\ SlicesRead = TotalSlices
    BY ReaderDone DEF ReaderInv
  <2>2. \A i \in DOMAIN ticks : ticks[i] \in 1 .. TotalSlices
    BY <2>1, SeqIsFunction DEF TicksInv
  <2> QED BY <2>1, <2>2 DEF TicksInv, Range
<1> QED BY <1>1, BarInvariant, PTL
=============================================================================
