------------------------ MODULE RecoveryFilesProofs ------------------------
(***************************************************************************)
(* Theorems about the encode loops and the files that a create leaves.     *)
(***************************************************************************)
EXTENDS RecoveryFiles, NatFacts, FiniteSetTheorems

-----------------------------------------------------------------------------
(* Sequences, one after the other                                          *)

\* The recursion of FlattenSeq has a solution.
LEMMA FlattenExists ==
  ASSUME NEW seqs, NEW n \in Nat \ {0}
  PROVE  \E f : f = [i \in 1 .. n |-> IF i = 1 THEN seqs[i] ELSE f[i - 1] \o seqs[i]]
<1> DEFINE S == {m \in Nat :
             \E f : f = [i \in 1 .. m + 1 |-> IF i = 1 THEN seqs[i] ELSE f[i - 1] \o seqs[i]]}
<1>1. 0 \in S
  <2> DEFINE f == [i \in 1 .. 1 |-> seqs[i]]
  <2>1. f = [i \in 1 .. 0 + 1 |-> IF i = 1 THEN seqs[i] ELSE f[i - 1] \o seqs[i]]
    OBVIOUS
  <2> QED BY <2>1
<1>2. ASSUME NEW m \in Nat, m \in S PROVE m + 1 \in S
  <2>1. PICK f : f = [i \in 1 .. m + 1 |-> IF i = 1 THEN seqs[i] ELSE f[i - 1] \o seqs[i]]
    BY <1>2
  <2> DEFINE last == f[m + 1] \o seqs[m + 2]
             h == [i \in 1 .. m + 2 |-> IF i = m + 2 THEN last ELSE f[i]]
  <2>2. \A i \in 1 .. m + 2 : h[i] = IF i = 1 THEN seqs[i] ELSE h[i - 1] \o seqs[i]
    <3> SUFFICES ASSUME NEW i \in 1 .. m + 2
                 PROVE  h[i] = IF i = 1 THEN seqs[i] ELSE h[i - 1] \o seqs[i]
      OBVIOUS
    <3>1. CASE i = m + 2
      <4>1. h[m + 2] = last /\ h[m + 1] = f[m + 1]
        <5> HIDE DEF last
        <5> QED OBVIOUS
      <4>2. i - 1 = m + 1 /\ i # 1
        BY <3>1
      <4> QED BY <3>1, <4>1, <4>2, Zenon
    <3>2. CASE i \in 1 .. m + 1
      <4>1. h[i] = f[i] /\ (i # 1 => h[i - 1] = f[i - 1])
        BY <3>2
      <4>2. f[i] = IF i = 1 THEN seqs[i] ELSE f[i - 1] \o seqs[i]
        BY <2>1, <3>2
      <4> QED BY <4>1, <4>2
    <3> QED BY <3>1, <3>2
  <2>3. h = [i \in 1 .. m + 2 |-> h[i]]
    OBVIOUS
  <2> HIDE DEF h
  <2>4. h = [i \in 1 .. m + 2 |-> IF i = 1 THEN seqs[i] ELSE h[i - 1] \o seqs[i]]
    BY <2>2, <2>3
  <2>5. (m + 1) + 1 = m + 2 /\ m + 1 \in Nat
    OBVIOUS
  <2>6. h = [i \in 1 .. (m + 1) + 1 |-> IF i = 1 THEN seqs[i] ELSE h[i - 1] \o seqs[i]]
    BY <2>4, <2>5
  <2> QED BY <2>5, <2>6
<1>3. n - 1 \in S
  <2> HIDE DEF S
  <2> QED BY <1>1, <1>2, NatInSet
<1>4. (n - 1) + 1 = n
  OBVIOUS
<1> QED BY <1>3, <1>4

\* The entries of two sequences, one after the other.
LEMMA Concatenated ==
  ASSUME NEW T, NEW p \in Seq(T), NEW q \in Seq(T)
  PROVE  /\ p \o q \in Seq(T) /\ Len(p) \in Nat /\ Len(q) \in Nat
         /\ Len(p \o q) = Len(p) + Len(q)
         /\ \A i \in 1 .. Len(p) : (p \o q)[i] = p[i]
         /\ \A i \in 1 .. Len(q) : (p \o q)[Len(p) + i] = q[i]
OBVIOUS

\* begins tells the place at which each of the n sequences begins.
Begins(T, n, seqs, begins) ==
  /\ \A i \in 1 .. n : seqs[i] \in Seq(T)
  /\ \A i \in 1 .. n + 1 : begins[i] \in Nat
  /\ begins[1] = 0
  /\ \A i \in 1 .. n : begins[i + 1] = begins[i] + Len(seqs[i])

\* The first sequences, one after the other.
Joins(n, seqs, flatten) ==
  /\ flatten[1] = seqs[1]
  /\ \A i \in 1 .. n - 1 : flatten[i + 1] = flatten[i] \o seqs[i + 1]

\* out is all of them, one after the other.
Follows(T, n, seqs, begins, out) ==
  /\ out \in Seq(T)
  /\ Len(out) = begins[n + 1]
  /\ \A i \in 1 .. n : begins[i + 1] <= begins[n + 1]
  /\ \A i \in 1 .. n : \A s \in 1 .. Len(seqs[i]) : out[begins[i] + s] = seqs[i][s]

\* Sequences put one after the other, told by the place at which each begins.
LEMMA FlattenedUpTo ==
  ASSUME NEW T, NEW n, n \in Nat \ {0}, NEW seqs, NEW begins, NEW flatten,
         Begins(T, n, seqs, begins), Joins(n, seqs, flatten)
  PROVE  Follows(T, n, seqs, begins, flatten[n])
<1>b. /\ \A i \in 1 .. n : seqs[i] \in Seq(T)
      /\ \A i \in 1 .. n + 1 : begins[i] \in Nat
      /\ begins[1] = 0
      /\ \A i \in 1 .. n : begins[i + 1] = begins[i] + Len(seqs[i])
  BY DEF Begins
<1>j. flatten[1] = seqs[1] /\ \A i \in 1 .. n - 1 : flatten[i + 1] = flatten[i] \o seqs[i + 1]
  BY DEF Joins
<1> DEFINE Good(m) ==
      /\ flatten[m] \in Seq(T)
      /\ Len(flatten[m]) = begins[m + 1]
      /\ \A i \in 1 .. m : begins[i + 1] <= begins[m + 1]
      /\ \A i \in 1 .. m : \A s \in 1 .. Len(seqs[i]) : flatten[m][begins[i] + s] = seqs[i][s]
<1>n. \A i \in 1 .. n : Len(seqs[i]) \in Nat
  BY <1>b
<1>1. Good(1)
  <2>1. begins[1 + 1] = Len(seqs[1]) /\ seqs[1] \in Seq(T) /\ flatten[1] = seqs[1] /\ begins[1] = 0
    BY <1>n, <1>b, <1>j
  <2>2. \A i \in 1 .. 1 : i = 1
    OBVIOUS
  <2>3. \A s \in 1 .. Len(seqs[1]) : begins[1] + s = s
    BY <1>n, <1>b
  <2>4. \A i \in 1 .. 1 : begins[i + 1] <= begins[1 + 1]
    BY <2>1, <2>2, <1>n, <1>b
  <2> QED BY <2>1, <2>2, <2>3, <2>4
<1>2. ASSUME NEW m \in 1 .. n - 1, Good(m) PROVE Good(m + 1)
  <2> DEFINE p == flatten[m]
             q == seqs[m + 1]
             r == flatten[m + 1]
  <2>1. m \in 1 .. n /\ m + 1 \in 1 .. n /\ (m + 1) + 1 \in 1 .. n + 1
    OBVIOUS
  <2>2. /\ begins[m + 1] \in Nat /\ begins[(m + 1) + 1] \in Nat
        /\ begins[(m + 1) + 1] = begins[m + 1] + Len(q)
        /\ p \in Seq(T) /\ q \in Seq(T) /\ Len(p) = begins[m + 1] /\ r = p \o q
    <3>1. begins[m + 1] \in Nat /\ begins[(m + 1) + 1] \in Nat
      BY <2>1, <1>b
    <3>2. begins[(m + 1) + 1] = begins[m + 1] + Len(seqs[m + 1])
      BY <2>1, <1>b, Zenon
    <3>3. p \in Seq(T) /\ Len(p) = begins[m + 1]
      BY <1>2, Zenon
    <3>4. q \in Seq(T) /\ r = p \o q
      BY <2>1, <1>b, <1>j, Zenon
    <3> QED BY <3>1, <3>2, <3>3, <3>4, Zenon
  <2> HIDE DEF p, q, r
  <2>3. /\ r \in Seq(T) /\ Len(p) \in Nat /\ Len(q) \in Nat /\ Len(r) = Len(p) + Len(q)
        /\ \A i \in 1 .. Len(p) : r[i] = p[i]
        /\ \A i \in 1 .. Len(q) : r[Len(p) + i] = q[i]
    <3>1. p \in Seq(T) /\ q \in Seq(T) /\ r = p \o q
      BY <2>2, Zenon
    <3>2. /\ p \o q \in Seq(T) /\ Len(p) \in Nat /\ Len(q) \in Nat
          /\ Len(p \o q) = Len(p) + Len(q)
          /\ \A i \in 1 .. Len(p) : (p \o q)[i] = p[i]
          /\ \A i \in 1 .. Len(q) : (p \o q)[Len(p) + i] = q[i]
      BY <3>1, Concatenated
    <3> QED BY <3>1, <3>2, Zenon
  <2>4. \A i \in 1 .. m + 1 : i = m + 1 \/ i \in 1 .. m
    BY <2>1
  <2>5. \A i \in 1 .. m : i \in 1 .. n /\ i + 1 \in 1 .. n + 1
    BY <2>1
  <2>6. \A i \in 1 .. m + 1 : begins[i + 1] <= begins[(m + 1) + 1]
    <3>1. ASSUME NEW i \in 1 .. m PROVE begins[i + 1] <= begins[(m + 1) + 1]
      <4>1. begins[i + 1] \in Nat /\ begins[i + 1] <= begins[m + 1]
        BY <1>2, <1>b, <2>5
      <4> QED BY <4>1, <2>2, <2>3
    <3> QED BY <3>1, <2>2, <2>4
  <2>7. ASSUME NEW i \in 1 .. m + 1, NEW s \in 1 .. Len(seqs[i])
        PROVE  r[begins[i] + s] = seqs[i][s]
    <3>1. CASE i = m + 1
      <4>1. s \in 1 .. Len(q)
        BY <3>1 DEF q
      <4>2. r[Len(p) + s] = q[s]
        BY <4>1, <2>3
      <4> QED BY <3>1, <4>2, <2>2 DEF q
    <3>2. CASE i \in 1 .. m
      <4>1. /\ begins[i] \in Nat /\ begins[i + 1] = begins[i] + Len(seqs[i])
            /\ Len(seqs[i]) \in Nat /\ i \in 1 .. n /\ i \in 1 .. n + 1
        BY <3>2, <1>n, <1>b, <2>5, <2>1
      <4>2. begins[i + 1] <= Len(p) /\ p[begins[i] + s] = seqs[i][s]
        BY <3>2, <1>2, <2>2 DEF p
      <4>3. begins[i] + s \in 1 .. Len(p)
        <5>1. s \in Nat /\ 1 <= s /\ s <= Len(seqs[i])
          BY <4>1
        <5> DEFINE b == begins[i]
                   c == begins[i + 1]
                   l == Len(seqs[i])
        <5>2. b \in Nat /\ l \in Nat /\ c = b + l /\ c <= Len(p) /\ Len(p) \in Nat
          BY <4>1, <4>2, <2>3
        <5>3. s <= l
          BY <5>1
        <5> HIDE DEF b, c, l
        <5>4. b + s \in 1 .. Len(p)
          BY <5>1, <5>2, <5>3
        <5> QED BY <5>4 DEF b
      <4> QED BY <4>2, <4>3, <2>3
    <3> QED BY <3>1, <3>2, <2>4
  <2>8. Len(r) = begins[(m + 1) + 1]
    BY <2>2, <2>3
  <2> QED BY <2>3, <2>6, <2>7, <2>8 DEF r
<1>3. Good(n)
  <2> DEFINE S == {m \in Nat : m + 1 \in 1 .. n => Good(m + 1)}
  <2> HIDE DEF Good
  <2>1. 0 \in S
    BY <1>1
  <2>2. ASSUME NEW m \in Nat, m \in S PROVE m + 1 \in S
    <3>1. CASE (m + 1) + 1 \in 1 .. n
      <4>1. m + 1 \in 1 .. n - 1 /\ m + 1 \in 1 .. n
        BY <3>1
      <4>2. Good(m + 1)
        BY <2>2, <4>1
      <4>3. Good((m + 1) + 1)
        BY <4>1, <4>2, <1>2
      <4> QED BY <4>3
    <3> QED BY <3>1
  <2>3. Nat \subseteq S
    <3> HIDE DEF S
    <3> QED BY <2>1, <2>2, NatInSet
  <2>4. n - 1 \in Nat /\ (n - 1) + 1 = n /\ n \in 1 .. n
    OBVIOUS
  <2> QED BY <2>3, <2>4
<1> QED BY <1>3 DEF Follows

\* What FlattenSeq does.
LEMMA Flattened ==
  ASSUME NEW T, NEW n \in Nat, NEW seqs, NEW begins,
         seqs \in [1 .. n -> Seq(T)], Begins(T, n, seqs, begins)
  PROVE  Follows(T, n, seqs, begins, FlattenSeq(seqs))
<1>0. Len(seqs) = n
  OBVIOUS
<1>1. CASE n = 0
  <2>1. FlattenSeq(seqs) = seqs
    BY <1>0, <1>1 DEF FlattenSeq
  <2>2. seqs = <<>>
    BY <1>1
  <2> QED BY <1>1, <2>1, <2>2 DEF Begins, Follows
<1>2. CASE n # 0
  <2>n. n \in Nat \ {0}
    BY <1>2
  <2> DEFINE flatten == CHOOSE f : f = [i \in 1 .. n |-> IF i = 1 THEN seqs[i]
                                                         ELSE f[i - 1] \o seqs[i]]
  <2>1. flatten = [i \in 1 .. n |-> IF i = 1 THEN seqs[i] ELSE flatten[i - 1] \o seqs[i]]
    <3>1. \E f : f = [i \in 1 .. n |-> IF i = 1 THEN seqs[i] ELSE f[i - 1] \o seqs[i]]
      BY <2>n, FlattenExists
    <3> QED BY <3>1
  <2>2. FlattenSeq(seqs) = flatten[n]
    BY <1>0, <1>2 DEF FlattenSeq
  <2> HIDE DEF flatten
  <2>3. flatten[1] = seqs[1]
    BY <2>1, <2>n
  <2>4. ASSUME NEW i \in 1 .. n - 1 PROVE flatten[i + 1] = flatten[i] \o seqs[i + 1]
    <3>1. i + 1 \in 1 .. n /\ i + 1 # 1 /\ (i + 1) - 1 = i
      OBVIOUS
    <3> QED BY <3>1, <2>1
  <2>5. Follows(T, n, seqs, begins, flatten[n])
    <3>1. Joins(n, seqs, flatten)
      BY <2>3, <2>4 DEF Joins
    <3> QED BY <3>1, <2>n, FlattenedUpTo
  <2> QED BY <2>2, <2>5
<1> QED BY <1>1, <1>2

-----------------------------------------------------------------------------
(* The encode loop                                                         *)

\* The slices that come before the i-th file.
Before[i \in 1 .. Len(sources) + 1] ==
  IF i = 1 THEN 0 ELSE Before[i - 1] + SlicesOf(sources[i - 1])

SourceSlices == [i \in DOMAIN sources |-> [s \in 1 .. SlicesOf(sources[i]) |-> <<sources[i], s - 1>>]]

EncodeTypeOK ==
  /\ mode \in {"legacy", "fused"}
  /\ sources \in SetToSeqs(Files)
  /\ scanned \in Scanned /\ window \in Windows
  /\ pc \in {"file", "load", "accumulate", "done"}
  /\ nth \in 1 .. Len(sources) + 1
  /\ sliceIdx \in Nat /\ counter \in Nat /\ offset \in Nat
  /\ at \in [Chunks -> Nat \X Nat]

\* Where the loop is among the slices; the columns of both modes are the count.
PlaceInv ==
  /\ pc = "file" => counter = Before[nth]
  /\ pc = "done" => counter = Before[Len(sources) + 1]
  /\ pc \in {"load", "accumulate"} =>
       /\ nth \in 1 .. Len(sources)
       /\ sliceIdx < SlicesOf(sources[nth])
       /\ offset = Before[nth] /\ counter = offset + sliceIdx
  /\ pc = "accumulate" => slice = Padded(sources[nth], sliceIdx)

\* Every chunk is somewhere in a window of one of its buffers, or at its end.
ChunkInv ==
  \A c \in Chunks :
    /\ at[c][2] \in 0 .. ChunkSize(c) - 1
    /\ at[c][1] >= SliceWords => at[c][2] = 0

\* The slice at hand has been added to word k of buffer r: its chunk is past
\* the window of k, or past r in that window.
Added(r, k) ==
  LET c == r \div ChunkLen
      j == r - c * ChunkLen
  IN  pc = "accumulate" /\ (k < at[c][1] \/ (k < at[c][1] + window /\ j < at[c][2]))

BufInv ==
  buf = [r \in 0 .. Recovery - 1 |-> [k \in Words |->
           Reference(SliceList(sources), IF Added(r, k) THEN counter + 1 ELSE counter, r, k)]]

EncodeInv == EncodeTypeOK /\ PlaceInv /\ ChunkInv /\ BufInv

\* par_chunks_mut cuts the buffers into chunks that are not empty.
LEMMA ChunkLenIs ==
  /\ ChunkLen \in Nat \ {0}
  /\ \A c \in Nat : c \in Chunks <=> c * ChunkLen < Recovery
<1> USE EncodeAssumption
<1>1. ChunkLen \in Nat /\ (Recovery <= Threads * 0 <=> ChunkLen <= 0)
  BY RoundingUp DEF ChunkLen, DivCeil
<1>2. ChunkLen \in Nat \ {0}
  BY <1>1
<1>3. /\ DivCeil(Recovery, ChunkLen) \in Nat
      /\ \A c \in Nat : Recovery <= ChunkLen * c <=> DivCeil(Recovery, ChunkLen) <= c
  BY <1>2, RoundingUp DEF DivCeil
<1>4. ASSUME NEW c \in Nat PROVE c \in Chunks <=> c * ChunkLen < Recovery
  <2>1. c \in Chunks <=> ~(DivCeil(Recovery, ChunkLen) <= c)
    BY <1>3 DEF Chunks
  <2>2. ChunkLen * c = c * ChunkLen /\ c * ChunkLen \in Nat
    BY <1>2
  <2> QED BY <2>1, <2>2, <1>3
<1> QED BY <1>2, <1>4

\* Every buffer of a chunk is a recovery buffer, and of this chunk alone.
LEMMA ChunkBuffers ==
  ASSUME NEW c \in Chunks
  PROVE  /\ ChunkSize(c) \in 1 .. ChunkLen
         /\ \A j \in 0 .. ChunkSize(c) - 1 :
              /\ c * ChunkLen + j \in 0 .. Recovery - 1
              /\ (c * ChunkLen + j) \div ChunkLen = c
<1> DEFINE b == c * ChunkLen
<1>0. Recovery \in Nat \ {0}
  BY EncodeAssumption
<1>1. c \in Nat /\ ChunkLen \in Nat \ {0} /\ b \in Nat /\ b < Recovery
  <2>1. c \in Nat
    BY DEF Chunks
  <2> QED BY <2>1, ChunkLenIs
<1>2. (c + 1) * ChunkLen = b + ChunkLen /\ ChunkLen * c = b
  BY <1>1
<1>3. ChunkSize(c) = IF b + ChunkLen <= Recovery THEN ChunkLen ELSE Recovery - b
  BY <1>2 DEF ChunkSize
<1> HIDE DEF b
<1>4. ChunkSize(c) \in 1 .. ChunkLen /\ b + ChunkSize(c) <= Recovery
  BY <1>0, <1>1, <1>3
<1>5. ASSUME NEW j \in 0 .. ChunkSize(c) - 1
      PROVE  b + j \in 0 .. Recovery - 1 /\ (b + j) \div ChunkLen = c
  <2>1. b + j \in Nat /\ b + j < Recovery /\ b <= b + j /\ b + j < b + ChunkLen
    BY <1>0, <1>1, <1>4
  <2> QED BY <2>1, <1>0, <1>1, <1>2, QuotientIs
<1> QED BY <1>4, <1>5 DEF b

\* And every recovery buffer is in a chunk.
LEMMA ChunkOfBuffer ==
  ASSUME NEW r \in 0 .. Recovery - 1
  PROVE  /\ r \div ChunkLen \in Chunks
         /\ r - (r \div ChunkLen) * ChunkLen \in 0 .. ChunkSize(r \div ChunkLen) - 1
<1> USE EncodeAssumption
<1> DEFINE c == r \div ChunkLen
           b == c * ChunkLen
<1>1. ChunkLen \in Nat \ {0} /\ r \in Nat
  BY ChunkLenIs
<1>2. c \in Nat /\ ChunkLen * c <= r /\ r < ChunkLen * c + ChunkLen
  BY <1>1, Quotient
<1> HIDE DEF c
<1>3. b \in Nat /\ b = ChunkLen * c /\ (c + 1) * ChunkLen = b + ChunkLen
  BY <1>1, <1>2
<1>4. ChunkSize(c) = IF b + ChunkLen <= Recovery THEN ChunkLen ELSE Recovery - b
  BY <1>3 DEF ChunkSize
<1> HIDE DEF b
<1>5. b < Recovery /\ r - b \in 0 .. ChunkSize(c) - 1
  BY <1>1, <1>2, <1>3, <1>4
<1>6. c \in Chunks
  BY <1>2, <1>5, ChunkLenIs DEF b
<1> QED BY <1>5, <1>6 DEF b, c

\* Every file is a number, has words and is cut into at least one slice.
LEMMA SourceIs ==
  ASSUME EncodeTypeOK
  PROVE  /\ Len(sources) \in Nat
         /\ sources \in [1 .. Len(sources) -> Files]
         /\ \A f \in Files : f \in Nat \ {0} /\ FileWords[f] \in Nat \ {0}
                             /\ SlicesOf(f) \in Nat \ {0}
<1> USE EncodeAssumption
<1>1. IsFiniteSet(Files)
  <2>1. Files = 1 .. Len(FileWords) /\ Len(FileWords) \in Nat
    BY DEF Files
  <2> QED BY <2>1, FS_Interval
<1>2. Cardinality(Files) \in Nat
  BY <1>1, FS_CardinalityType
<1>3. sources \in [1 .. Cardinality(Files) -> Files]
  BY DEF EncodeTypeOK, SetToSeqs
<1>4. Len(sources) = Cardinality(Files)
  BY <1>2, <1>3
<1>5. ASSUME NEW f \in Files
      PROVE  f \in Nat \ {0} /\ FileWords[f] \in Nat \ {0} /\ SlicesOf(f) \in Nat \ {0}
  <2>1. f \in Nat \ {0} /\ FileWords[f] \in Nat \ {0}
    BY DEF Files
  <2>2. scanned \in Nat \ {0}
    BY DEF EncodeTypeOK
  <2>3. SlicesOf(f) \in Nat /\ (FileWords[f] <= scanned * 0 <=> SlicesOf(f) <= 0)
    BY <2>1, <2>2, RoundingUp DEF SlicesOf, DivCeil
  <2> QED BY <2>1, <2>2, <2>3
<1> QED BY <1>2, <1>3, <1>4, <1>5

\* The recursion that defines Before has a solution.
LEMMA BeforeUnfolds ==
  ASSUME EncodeTypeOK
  PROVE  Before = [i \in 1 .. Len(sources) + 1 |->
                     IF i = 1 THEN 0 ELSE Before[i - 1] + SlicesOf(sources[i - 1])]
<1> DEFINE n == Len(sources)
           g == [i \in 1 .. n |-> SlicesOf(sources[i])]
<1>1. n \in Nat
  BY SourceIs
<1> HIDE DEF n
<1>2. PICK f : f = [i \in 1 .. n + 1 |-> IF i = 1 THEN 0 ELSE f[i - 1] + g[i - 1]]
  BY <1>1, RunningSumsExist
<1>3. f = [i \in 1 .. n + 1 |-> IF i = 1 THEN 0 ELSE f[i - 1] + SlicesOf(sources[i - 1])]
  <2>1. \A i \in 1 .. n + 1 : i # 1 => g[i - 1] = SlicesOf(sources[i - 1])
    BY <1>1
  <2> HIDE DEF g
  <2> QED BY <1>2, <2>1
<1> QED BY <1>3 DEF Before, n

\* Every file begins where the one before it ends.
LEMMA BeforeNext ==
  ASSUME EncodeTypeOK
  PROVE  /\ Before[1] = 0
         /\ \A i \in 1 .. Len(sources) : Before[i + 1] = Before[i] + SlicesOf(sources[i])
         /\ \A i \in 1 .. Len(sources) + 1 : Before[i] \in Nat
<1> DEFINE n == Len(sources)
           S == {m \in Nat : m + 1 \in 1 .. n + 1 => Before[m + 1] \in Nat}
<1>1. n \in Nat /\ \A i \in 1 .. n : SlicesOf(sources[i]) \in Nat
  BY SourceIs
<1>2. Before = [i \in 1 .. n + 1 |-> IF i = 1 THEN 0 ELSE Before[i - 1] + SlicesOf(sources[i - 1])]
  BY BeforeUnfolds
<1> HIDE DEF n
<1>3. Before[1] = 0
  BY <1>1, <1>2
<1>4. ASSUME NEW i \in 1 .. n PROVE Before[i + 1] = Before[i] + SlicesOf(sources[i])
  <2>1. i + 1 \in 1 .. n + 1 /\ i + 1 # 1 /\ (i + 1) - 1 = i
    BY <1>1
  <2> QED BY <2>1, <1>2
<1>5. 0 \in S
  BY <1>3
<1>6. ASSUME NEW m \in Nat, m \in S PROVE m + 1 \in S
  <2>1. CASE (m + 1) + 1 \in 1 .. n + 1
    <3>1. m + 1 \in 1 .. n /\ m + 1 \in 1 .. n + 1
      BY <2>1, <1>1
    <3>2. Before[m + 1] \in Nat /\ SlicesOf(sources[m + 1]) \in Nat
      BY <3>1, <1>6, <1>1
    <3>3. Before[(m + 1) + 1] = Before[m + 1] + SlicesOf(sources[m + 1])
      BY <3>1, <1>4
    <3> QED BY <3>2, <3>3
  <2> QED BY <2>1
<1>7. Nat \subseteq S
  <2> HIDE DEF S
  <2> QED BY <1>5, <1>6, NatInSet
<1>8. ASSUME NEW i \in 1 .. n + 1 PROVE Before[i] \in Nat
  <2>1. i - 1 \in Nat /\ (i - 1) + 1 = i
    BY <1>1
  <2> QED BY <2>1, <1>7
<1> QED BY <1>3, <1>4, <1>8 DEF n

\* Where a slice is in the list of all slices.
LEMMA SliceIsAt ==
  ASSUME EncodeTypeOK
  PROVE  /\ SliceList(sources) \in Seq(Files \X Nat)
         /\ Len(SliceList(sources)) = Before[Len(sources) + 1]
         /\ \A i \in 1 .. Len(sources) : Before[i + 1] <= Before[Len(sources) + 1]
         /\ \A i \in 1 .. Len(sources) : \A s \in 0 .. SlicesOf(sources[i]) - 1 :
              SliceList(sources)[Before[i] + s + 1] = <<sources[i], s>>
<1> DEFINE n == Len(sources)
           T == Files \X Nat
<1>1. /\ n \in Nat /\ sources \in [1 .. n -> Files]
      /\ \A i \in 1 .. n : sources[i] \in Files /\ SlicesOf(sources[i]) \in Nat
      /\ \A i \in 1 .. n + 1 : Before[i] \in Nat
      /\ Before[1] = 0
      /\ \A i \in 1 .. n : Before[i + 1] = Before[i] + SlicesOf(sources[i])
  BY SourceIs, BeforeNext
<1> HIDE DEF n
<1>2. ASSUME NEW i \in 1 .. n
      PROVE  /\ SourceSlices[i] \in Seq(T) /\ Len(SourceSlices[i]) = SlicesOf(sources[i])
             /\ \A s \in 1 .. SlicesOf(sources[i]) : SourceSlices[i][s] = <<sources[i], s - 1>>
  <2> DEFINE m == SlicesOf(sources[i])
  <2>1. SourceSlices[i] = [s \in 1 .. m |-> <<sources[i], s - 1>>]
    BY <1>1 DEF SourceSlices
  <2>2. m \in Nat /\ \A s \in 1 .. m : <<sources[i], s - 1>> \in T
    BY <1>1
  <2> HIDE DEF m, T
  <2>3. SourceSlices[i] \in Seq(T) /\ Len(SourceSlices[i]) = m
    BY <2>1, <2>2
  <2> QED BY <2>1, <2>3 DEF m
<1>3. SourceSlices \in [1 .. n -> Seq(T)]
  <2>1. DOMAIN sources = 1 .. n
    BY <1>1
  <2>2. SourceSlices = [i \in 1 .. n |-> SourceSlices[i]]
    BY <2>1 DEF SourceSlices
  <2> QED BY <1>2, <2>2
<1>4. Begins(T, n, SourceSlices, Before)
  BY <1>1, <1>2 DEF Begins
<1>5. SliceList(sources) = FlattenSeq(SourceSlices)
  BY DEF SliceList, SourceSlices
<1>6. Follows(T, n, SourceSlices, Before, SliceList(sources))
  BY <1>1, <1>3, <1>4, <1>5, Flattened
<1>7. ASSUME NEW i \in 1 .. n, NEW s \in 0 .. SlicesOf(sources[i]) - 1
      PROVE  SliceList(sources)[Before[i] + s + 1] = <<sources[i], s>>
  <2>1. s + 1 \in 1 .. SlicesOf(sources[i]) /\ (s + 1) - 1 = s
    BY <1>1
  <2>2. SliceList(sources)[Before[i] + (s + 1)] = SourceSlices[i][s + 1]
    BY <2>1, <1>2, <1>6 DEF Follows
  <2>3. i \in 1 .. n + 1
    BY <1>1
  <2>4. Before[i] + (s + 1) = Before[i] + s + 1
    BY <2>3, <1>1
  <2> QED BY <2>1, <2>2, <2>4, <1>2
<1>8. /\ SliceList(sources) \in Seq(T) /\ Len(SliceList(sources)) = Before[n + 1]
      /\ \A i \in 1 .. n : Before[i + 1] <= Before[n + 1]
  BY <1>6 DEF Follows
<1> QED BY <1>7, <1>8 DEF n

\* Slice n of the list adds x, unless it is zero, to the terms of those before.
AddsTerm(list, n, r, k, x) ==
  /\ <<r, n, x>> \notin Reference(list, n, r, k)
  /\ Reference(list, n + 1, r, k) =
       IF x # Zero THEN Reference(list, n, r, k) \cup {<<r, n, x>>}
       ELSE Reference(list, n, r, k)

\* A slice more in the list is a term more in every word that it reaches, and
\* a term that was not there.
LEMMA ReferenceNext ==
  ASSUME NEW list, NEW n \in Nat, NEW f \in Nat \ {0}, NEW s \in Nat, list[n + 1] = <<f, s>>,
         NEW r, NEW k \in Words
  PROVE  AddsTerm(list, n, r, k, Padded(f, s)[k])
<1> DEFINE in(j) == list[j][2] * SliceWords + k < FileWords[list[j][1]]
           term(j) == <<r, j - 1, <<list[j][1], list[j][2] * SliceWords + k>>>>
<1>1. \A m : Reference(list, m, r, k) = {term(i) : i \in {j \in 1 .. m : in(j)}}
  BY DEF Reference
<1>2. Padded(f, s)[k] = IF in(n + 1) THEN <<f, s * SliceWords + k>> ELSE Zero
  BY DEF Padded
<1>3. <<f, s * SliceWords + k>> # Zero
  BY DEF Zero
<1>4. in(n + 1) => term(n + 1) = <<r, n, Padded(f, s)[k]>>
  BY <1>2
<1>5. \A j \in 1 .. n : term(j)[2] = j - 1 /\ j - 1 # n
  OBVIOUS
<1>6. 1 .. n + 1 = (1 .. n) \cup {n + 1}
  OBVIOUS
<1> HIDE DEF in, term
<1>7. <<r, n, Padded(f, s)[k]>> \notin Reference(list, n, r, k)
  <2>1. <<r, n, Padded(f, s)[k]>>[2] = n
    OBVIOUS
  <2> QED BY <2>1, <1>1, <1>5
<1>8. Reference(list, n + 1, r, k) =
        IF in(n + 1) THEN Reference(list, n, r, k) \cup {term(n + 1)}
        ELSE Reference(list, n, r, k)
  <2> DEFINE old == Reference(list, n, r, k)
             new == Reference(list, n + 1, r, k)
  <2>1. /\ \A x : x \in old <=> \E i \in 1 .. n : in(i) /\ x = term(i)
        /\ \A x : x \in new <=> \E i \in 1 .. n + 1 : in(i) /\ x = term(i)
    BY <1>1
  <2> HIDE DEF old, new
  <2>2. \A x : x \in new <=> x \in old \/ (in(n + 1) /\ x = term(n + 1))
    BY <2>1, <1>6
  <2>3. CASE in(n + 1)
    <3>1. new = old \cup {term(n + 1)}
      BY <2>2, <2>3
    <3> QED BY <2>3, <3>1 DEF old, new
  <2>4. CASE ~in(n + 1)
    <3>1. new = old
      BY <2>2, <2>4
    <3> QED BY <2>4, <3>1 DEF old, new
  <2> QED BY <2>3, <2>4
<1>9. in(n + 1) <=> Padded(f, s)[k] # Zero
  BY <1>2, <1>3
<1> QED BY <1>4, <1>7, <1>8, <1>9 DEF AddsTerm

\* Where nothing is being accumulated, the buffers are those of the slices done.
LEMMA BufAtRest ==
  ASSUME pc # "accumulate"
  PROVE  BufInv <=>
           buf = [r \in 0 .. Recovery - 1 |-> [k \in Words |->
                    Reference(SliceList(sources), counter, r, k)]]
BY DEF BufInv, Added

\* What the loop is given stays, and so do the places of the slices.
LEMMA GivenStays ==
  ASSUME UNCHANGED given
  PROVE  UNCHANGED <<mode, sources, scanned, window, Before, SliceList(sources)>>
         /\ \A f : SlicesOf(f)' = SlicesOf(f)
<1>1. UNCHANGED <<mode, sources, scanned, window>>
  BY DEF given
<1>2. \A f : SlicesOf(f)' = SlicesOf(f)
  BY <1>1 DEF SlicesOf
<1>3. Before' = Before
  BY <1>1, <1>2 DEF Before
<1>4. SliceList(sources)' = SliceList(sources)
  BY <1>1, <1>2 DEF SliceList
<1> QED BY <1>1, <1>2, <1>3, <1>4

\* A file is opened: its slices come after those of the files before.
LEMMA OpenKeeps ==
  ASSUME EncodeInv, OpenFile
  PROVE  EncodeInv'
<1>t. EncodeTypeOK /\ PlaceInv /\ ChunkInv /\ BufInv
  BY DEF EncodeInv
<1>1. /\ pc = "file" /\ pc' = "load" /\ nth <= Len(sources) /\ sliceIdx' = 0 /\ offset' = counter
      /\ UNCHANGED <<nth, counter, slice, at, buf>> /\ UNCHANGED given
  BY DEF OpenFile
<1>g. /\ UNCHANGED <<mode, sources, scanned, window, Before, SliceList(sources)>>
      /\ \A f : SlicesOf(f)' = SlicesOf(f)
  BY <1>1, GivenStays
<1>2. nth \in 1 .. Len(sources) /\ SlicesOf(sources[nth]) \in Nat \ {0}
  BY <1>1, <1>t, SourceIs DEF EncodeTypeOK
<1>3. EncodeTypeOK'
  BY <1>1, <1>g, <1>t DEF EncodeTypeOK
<1>4. PlaceInv'
  BY <1>1, <1>2, <1>g, <1>t DEF PlaceInv, EncodeTypeOK
<1>5. ChunkInv'
  BY <1>1, <1>t DEF ChunkInv
<1>6. BufInv'
  BY <1>1, <1>g, <1>t DEF BufInv, Added
<1> QED BY <1>3, <1>4, <1>5, <1>6 DEF EncodeInv

\* A slice is loaded and added to no word yet.
LEMMA LoadKeeps ==
  ASSUME EncodeInv, LoadSlice
  PROVE  EncodeInv'
<1>t. EncodeTypeOK /\ PlaceInv /\ ChunkInv /\ BufInv
  BY DEF EncodeInv
<1>1. /\ pc = "load" /\ pc' = "accumulate" /\ slice' = Padded(sources[nth], sliceIdx)
      /\ at' = [c \in Chunks |-> <<0, 0>>]
      /\ UNCHANGED <<nth, sliceIdx, counter, offset, buf>> /\ UNCHANGED given
  BY DEF LoadSlice
<1>g. /\ UNCHANGED <<mode, sources, scanned, window, Before, SliceList(sources)>>
      /\ \A f : SlicesOf(f)' = SlicesOf(f)
  BY <1>1, GivenStays
<1>2. EncodeTypeOK'
  BY <1>1, <1>g, <1>t DEF EncodeTypeOK
<1>3. PlaceInv'
  BY <1>1, <1>g, <1>t DEF PlaceInv, Padded
<1>4. ChunkInv'
  <2>1. \A c \in Chunks : ChunkSize(c) - 1 \in Nat /\ SliceWords > 0
    BY ChunkBuffers, ChunkLenIs, EncodeAssumption
  <2> QED BY <1>1, <2>1 DEF ChunkInv
<1>5. BufInv'
  <2>1. ASSUME NEW r \in 0 .. Recovery - 1, NEW k \in Words PROVE ~Added(r, k)'
    <3> DEFINE c == r \div ChunkLen
    <3>1. c \in Chunks /\ r - c * ChunkLen \in Nat /\ k \in Nat
      <4>1. c \in Chunks /\ r - c * ChunkLen \in 0 .. ChunkSize(c) - 1
        BY ChunkOfBuffer
      <4> QED BY <4>1 DEF Words
    <3>2. at'[c] = <<0, 0>>
      BY <3>1, <1>1
    <3> QED BY <3>1, <3>2 DEF Added
  <2>2. \A r, k : ~Added(r, k)
    BY <1>1 DEF Added
  <2> QED BY <2>1, <2>2, <1>1, <1>g, <1>t DEF BufInv
<1> QED BY <1>2, <1>3, <1>4, <1>5 DEF EncodeInv

\* The end of the loop changes nothing.
LEMMA EncodedKeeps ==
  ASSUME EncodeInv, Encoded
  PROVE  EncodeInv'
<1>t. EncodeTypeOK /\ PlaceInv /\ ChunkInv /\ BufInv
  BY DEF EncodeInv
<1>1. /\ pc = "file" /\ pc' = "done" /\ nth > Len(sources)
      /\ UNCHANGED <<nth, sliceIdx, counter, offset, slice, at, buf>> /\ UNCHANGED given
  BY DEF Encoded
<1>g. UNCHANGED <<mode, sources, scanned, window, Before, SliceList(sources)>>
  BY <1>1, GivenStays
<1>2. EncodeTypeOK'
  BY <1>1, <1>g, <1>t DEF EncodeTypeOK
<1>3. nth = Len(sources) + 1
  BY <1>1, <1>t, SourceIs DEF EncodeTypeOK
<1>4. PlaceInv'
  BY <1>1, <1>3, <1>g, <1>t DEF PlaceInv
<1>5. ChunkInv'
  BY <1>1, <1>t DEF ChunkInv
<1>6. BufInv'
  BY <1>1, <1>g, <1>t DEF BufInv, Added
<1> QED BY <1>2, <1>4, <1>5, <1>6 DEF EncodeInv

\* When every chunk is at its end, the slice is in every word.
LEMMA SliceDoneKeeps ==
  ASSUME EncodeInv, SliceDone
  PROVE  EncodeInv'
<1> DEFINE more == sliceIdx + 1 < SlicesOf(sources[nth])
<1>t. EncodeTypeOK /\ PlaceInv /\ ChunkInv /\ BufInv
  BY DEF EncodeInv
<1>1. /\ pc = "accumulate" /\ ChunksDone
      /\ pc' = (IF more THEN "load" ELSE "file") /\ nth' = (IF more THEN nth ELSE nth + 1)
      /\ sliceIdx' = sliceIdx + 1 /\ counter' = counter + 1
      /\ UNCHANGED <<offset, slice, at, buf>> /\ UNCHANGED given
  BY DEF SliceDone
<1>g. /\ UNCHANGED <<mode, sources, scanned, window, Before, SliceList(sources)>>
      /\ \A f : SlicesOf(f)' = SlicesOf(f)
  BY <1>1, GivenStays
<1>2. /\ nth \in 1 .. Len(sources) /\ Len(sources) \in Nat
      /\ sliceIdx \in Nat /\ SlicesOf(sources[nth]) \in Nat /\ sliceIdx < SlicesOf(sources[nth])
      /\ offset = Before[nth] /\ counter = offset + sliceIdx /\ Before[nth] \in Nat
      /\ Before[nth + 1] = Before[nth] + SlicesOf(sources[nth])
  <2>1. nth \in 1 .. Len(sources) /\ sliceIdx < SlicesOf(sources[nth])
        /\ offset = Before[nth] /\ counter = offset + sliceIdx
    BY <1>1, <1>t DEF PlaceInv
  <2>2. Len(sources) \in Nat /\ SlicesOf(sources[nth]) \in Nat
    BY <2>1, <1>t, SourceIs
  <2>3. Before[nth + 1] = Before[nth] + SlicesOf(sources[nth])
    BY <2>1, <1>t, BeforeNext
  <2>4. Before[nth] \in Nat
    BY <2>1, <2>2, <1>t, BeforeNext
  <2> QED BY <2>1, <2>2, <2>3, <2>4, <1>t DEF EncodeTypeOK
<1>3. EncodeTypeOK'
  <2>1. nth' \in 1 .. Len(sources) + 1 /\ sliceIdx' \in Nat /\ counter' \in Nat
    <3> HIDE DEF more
    <3>1. nth' = nth \/ nth' = nth + 1
      BY <1>1
    <3>2. sliceIdx' \in Nat /\ counter' \in Nat
      BY <1>1, <1>2
    <3> QED BY <3>1, <3>2, <1>2
  <2>2. pc' \in {"file", "load", "accumulate", "done"}
    BY <1>1
  <2> QED BY <2>1, <2>2, <1>1, <1>g, <1>t DEF EncodeTypeOK
<1>4. PlaceInv'
  <2>1. CASE more
    <3>1. pc' = "load" /\ nth' = nth /\ offset' = Before[nth] /\ nth \in 1 .. Len(sources)
      BY <2>1, <1>1, <1>2
    <3>2. counter' = offset' + sliceIdx'
      BY <1>1, <1>2
    <3>3. sliceIdx' < SlicesOf(sources[nth])
      BY <2>1, <1>1
    <3> HIDE DEF more
    <3> QED BY <3>1, <3>2, <3>3, <1>g DEF PlaceInv
  <2>2. CASE ~more
    <3>1. counter' = Before[nth + 1]
      BY <2>2, <1>1, <1>2
    <3> QED BY <2>2, <3>1, <1>1, <1>g DEF PlaceInv
  <2> QED BY <2>1, <2>2
<1>5. ChunkInv'
  BY <1>1, <1>t DEF ChunkInv
<1>6. BufInv'
  <2>1. ASSUME NEW r \in 0 .. Recovery - 1, NEW k \in Words PROVE Added(r, k)
    <3> DEFINE c == r \div ChunkLen
    <3>1. c \in Chunks /\ k \in Nat /\ k < SliceWords
      BY ChunkOfBuffer, EncodeAssumption DEF Words
    <3>2. at[c][1] >= SliceWords /\ at[c][1] \in Nat
      BY <3>1, <1>1, <1>t DEF ChunksDone, EncodeTypeOK
    <3> HIDE DEF c
    <3>3. k < at[c][1]
      BY <3>1, <3>2, EncodeAssumption
    <3> QED BY <3>3, <1>1 DEF Added, c
  <2>2. \A r, k : ~Added(r, k)'
    BY <1>1 DEF Added
  <2> QED BY <2>1, <2>2, <1>1, <1>g, <1>t DEF BufInv
<1> QED BY <1>3, <1>4, <1>5, <1>6 DEF EncodeInv

\* The slice at hand is the next of the list, in both modes its column is the
\* count of the slices done.
LEMMA SliceAtHand ==
  ASSUME EncodeInv, pc = "accumulate"
  PROVE  /\ Column = counter /\ counter \in Nat
         /\ \A r : \A k \in Words : AddsTerm(SliceList(sources), counter, r, k, slice[k])
<1>t. EncodeTypeOK /\ PlaceInv
  BY DEF EncodeInv
<1> DEFINE f == sources[nth]
           list == SliceList(sources)
<1>1. /\ nth \in 1 .. Len(sources) /\ sliceIdx \in Nat /\ sliceIdx < SlicesOf(f)
      /\ offset = Before[nth] /\ counter = offset + sliceIdx
      /\ slice = Padded(f, sliceIdx) /\ counter \in Nat
  BY <1>t DEF PlaceInv, EncodeTypeOK
<1>2. f \in Nat \ {0} /\ SlicesOf(f) \in Nat
  BY <1>1, <1>t, SourceIs
<1>3. sliceIdx \in 0 .. SlicesOf(f) - 1
  BY <1>1, <1>2
<1>4. list[Before[nth] + sliceIdx + 1] = <<f, sliceIdx>>
  BY <1>1, <1>3, <1>t, SliceIsAt
<1>5. list[counter + 1] = <<f, sliceIdx>>
  BY <1>1, <1>4
<1>6. Column = counter
  BY <1>1 DEF Column
<1> HIDE DEF f, list
<1>7. ASSUME NEW r, NEW k \in Words
      PROVE  AddsTerm(list, counter, r, k, slice[k])
  BY <1>1, <1>2, <1>5, ReferenceNext
<1> QED BY <1>1, <1>6, <1>7 DEF list

\* A window is added to one buffer of a chunk.
LEMMA AccumulateKeeps ==
  ASSUME EncodeInv, NEW c \in Chunks, Accumulate(c)
  PROVE  EncodeInv'
<1> DEFINE start == at[c][1]
           j == at[c][2]
           end == Least(start + window, SliceWords)
           list == SliceList(sources)
<1>t. EncodeTypeOK /\ PlaceInv /\ ChunkInv /\ BufInv
  BY DEF EncodeInv
<1>r. PICK r0 : r0 = c * ChunkLen + j
  OBVIOUS
<1>0. /\ pc = "accumulate" /\ pc' = "accumulate" /\ start < SliceWords
      /\ UNCHANGED <<nth, sliceIdx, counter, offset, slice>> /\ UNCHANGED given
      /\ buf' = [buf EXCEPT ![r0] = MulXor(@, r0, start, end)]
      /\ at' = [at EXCEPT ![c] = IF j + 1 < ChunkSize(c) THEN <<start, j + 1>> ELSE <<end, 0>>]
  BY <1>r DEF Accumulate
<1>g. /\ UNCHANGED <<mode, sources, scanned, window, Before, SliceList(sources)>>
      /\ \A f : SlicesOf(f)' = SlicesOf(f)
  BY <1>0, GivenStays
<1>1. /\ start \in Nat /\ window \in Nat \ {0} /\ SliceWords \in Nat \ {0}
      /\ j \in 0 .. ChunkSize(c) - 1 /\ ChunkSize(c) \in Nat /\ ChunkLen \in Nat
      /\ c \in Nat
  <2>1. start \in Nat /\ window \in Nat \ {0} /\ SliceWords \in Nat \ {0}
    BY <1>t, EncodeAssumption DEF EncodeTypeOK
  <2>2. j \in 0 .. ChunkSize(c) - 1
    BY <1>t DEF ChunkInv
  <2>3. ChunkSize(c) \in Nat /\ ChunkLen \in Nat /\ c \in Nat
    BY ChunkBuffers, ChunkLenIs DEF Chunks
  <2> QED BY <2>1, <2>2, <2>3
<1>2. end \in Nat /\ \A k \in Words : k < end <=> k < start + window
  BY <1>1 DEF Least, Words
<1>3. r0 \in 0 .. Recovery - 1 /\ r0 \div ChunkLen = c /\ r0 - c * ChunkLen = j
  BY <1>1, <1>r, ChunkBuffers
<1>4. /\ at'[c] = IF j + 1 < ChunkSize(c) THEN <<start, j + 1>> ELSE <<end, 0>>
      /\ \A e \in Chunks : e # c => at'[e] = at[e]
      /\ at' \in [Chunks -> Nat \X Nat]
  BY <1>0, <1>1, <1>2, <1>t DEF EncodeTypeOK
<1>5. EncodeTypeOK'
  BY <1>0, <1>4, <1>g, <1>t DEF EncodeTypeOK
<1>6. PlaceInv'
  BY <1>0, <1>g, <1>t DEF PlaceInv, Padded
<1>7. ChunkInv'
  <2>1. ASSUME NEW e \in Chunks, e # c
        PROVE  /\ at'[e][2] \in 0 .. ChunkSize(e) - 1
               /\ at'[e][1] >= SliceWords => at'[e][2] = 0
    BY <2>1, <1>4, <1>t DEF ChunkInv
  <2>2. /\ at'[c][2] \in 0 .. ChunkSize(c) - 1
        /\ at'[c][1] >= SliceWords => at'[c][2] = 0
    BY <1>0, <1>1, <1>2, <1>4
  <2> QED BY <2>1, <2>2 DEF ChunkInv
<1>8. ASSUME NEW r \in 0 .. Recovery - 1, NEW k \in Words
      PROVE  /\ Added(r, k)' <=> Added(r, k) \/ (r = r0 /\ k \in start .. end - 1)
             /\ r = r0 /\ k \in start .. end - 1 => ~Added(r, k)
  <2> DEFINE e == r \div ChunkLen
             i == r - e * ChunkLen
  <2>1. e \in Chunks /\ i \in 0 .. ChunkSize(e) - 1 /\ k \in Nat
    BY ChunkOfBuffer DEF Words
  <2>2. /\ Added(r, k) <=> k < at[e][1] \/ (k < at[e][1] + window /\ i < at[e][2])
        /\ Added(r, k)' <=> k < at'[e][1] \/ (k < at'[e][1] + window /\ i < at'[e][2])
    BY <1>0, <1>g DEF Added
  <2>3. e = c => i = r - c * ChunkLen
    OBVIOUS
  <2>4. r = r0 => e = c
    BY <1>3
  <2>5. e = c => (r = r0 <=> i = j)
    <3>1. c * ChunkLen \in Nat /\ j \in Nat
      BY <1>1
    <3> QED BY <3>1, <2>3, <1>r
  <2> HIDE DEF e, i, start, j, end
  <2>6. CASE e # c
    BY <2>6, <2>1, <2>2, <2>4, <1>4
  <2>7. CASE e = c
    <3>1. Added(r, k) <=> k < start \/ (k < start + window /\ i < j)
      BY <2>2, <2>7 DEF start, j
    <3>2. CASE j + 1 < ChunkSize(c)
      <4>1. at'[c] = <<start, j + 1>>
        BY <3>2, <1>4
      <4>2. Added(r, k)' <=> k < start \/ (k < start + window /\ i < j + 1)
        BY <4>1, <2>2, <2>7
      <4> QED BY <3>1, <4>2, <2>1, <2>5, <2>7, <1>1, <1>2
    <3>3. CASE ~(j + 1 < ChunkSize(c))
      <4>1. at'[c] = <<end, 0>>
        BY <3>3, <1>4
      <4>2. Added(r, k)' <=> k < end \/ (k < end + window /\ i < 0)
        BY <4>1, <2>2, <2>7
      <4>3. i <= j
        BY <3>3, <2>1, <2>7, <1>1
      <4> QED BY <3>1, <4>2, <4>3, <2>1, <2>5, <2>7, <1>1, <1>2
    <3> QED BY <3>2, <3>3
  <2> QED BY <2>6, <2>7
<1>9. BufInv'
  <2> DEFINE old(r, k) == Reference(list, IF Added(r, k) THEN counter + 1 ELSE counter, r, k)
             new(r, k) == Reference(list, IF Added(r, k)' THEN counter + 1 ELSE counter, r, k)
  <2>1. buf = [r \in 0 .. Recovery - 1 |-> [k \in Words |-> old(r, k)]]
    BY <1>t DEF BufInv
  <2>2. BufInv' <=> buf' = [r \in 0 .. Recovery - 1 |-> [k \in Words |-> new(r, k)]]
    BY <1>0, <1>g DEF BufInv
  <2>3. ASSUME NEW r \in 0 .. Recovery - 1, r # r0, NEW k \in Words
        PROVE  old(r, k) = new(r, k)
    BY <2>3, <1>8
  <2>4. ASSUME NEW k \in Words
        PROVE  new(r0, k) = IF k \in start .. end - 1 /\ slice[k] # Zero
                            THEN Toggle(old(r0, k), <<r0, Column, slice[k]>>) ELSE old(r0, k)
    <3> HIDE DEF start, end, list
    <3>1. /\ Added(r0, k)' <=> Added(r0, k) \/ k \in start .. end - 1
          /\ k \in start .. end - 1 => ~Added(r0, k)
      BY <1>3, <1>8
    <3>2. /\ Column = counter
          /\ AddsTerm(list, counter, r0, k, slice[k])
      BY <1>0, SliceAtHand DEF list
    <3>3. CASE k \notin start .. end - 1
      BY <3>1, <3>3
    <3>4. CASE k \in start .. end - 1
      <4>1. old(r0, k) = Reference(list, counter, r0, k)
            /\ new(r0, k) = Reference(list, counter + 1, r0, k)
        BY <3>1, <3>4
      <4> QED BY <3>2, <3>4, <4>1 DEF Toggle, AddsTerm
    <3> QED BY <3>3, <3>4
  <2> HIDE DEF start, end, list, old, new
  <2>5. MulXor(buf[r0], r0, start, end) = [k \in Words |-> new(r0, k)]
    <3>1. buf[r0] = [k \in Words |-> old(r0, k)]
      BY <2>1, <1>3
    <3> QED BY <3>1, <2>4 DEF MulXor
  <2>6. ASSUME NEW r \in 0 .. Recovery - 1, r # r0
        PROVE  buf[r] = [k \in Words |-> new(r, k)]
    BY <2>6, <2>1, <2>3
  <2>7. buf' = [r \in 0 .. Recovery - 1 |->
                  IF r = r0 THEN MulXor(buf[r0], r0, start, end) ELSE buf[r]]
    BY <1>0, <2>1
  <2>8. buf' = [r \in 0 .. Recovery - 1 |-> [k \in Words |-> new(r, k)]]
    BY <2>5, <2>6, <2>7
  <2> QED BY <2>2, <2>8
<1> QED BY <1>5, <1>6, <1>7, <1>9 DEF EncodeInv

\* The invariant holds of the loop, and of the create that runs it.
LEMMA EncodeInvariant ==
  /\ Init => EncodeInv
  /\ EncodeInv /\ [Next]_vars => EncodeInv'
<1>1. ASSUME Init PROVE EncodeInv
  <2>1. EncodeTypeOK
    <3>1. sources \in [1 .. Cardinality(Files) -> Files] /\ Cardinality(Files) \in Nat
      <4>1. IsFiniteSet(Files)
        <5>1. Files = 1 .. Len(FileWords) /\ Len(FileWords) \in Nat
          BY EncodeAssumption DEF Files
        <5> QED BY <5>1, FS_Interval
      <4> QED BY <1>1, <4>1, FS_CardinalityType DEF Init, SetToSeqs
    <3>2. 1 \in 1 .. Len(sources) + 1
      BY <3>1
    <3> QED BY <1>1, <3>2 DEF Init, EncodeTypeOK
  <2>2. PlaceInv
    BY <1>1, <2>1, BeforeNext DEF Init, PlaceInv
  <2>3. ChunkInv
    <3>1. \A e \in Chunks : 0 \in 0 .. ChunkSize(e) - 1
      BY ChunkBuffers, ChunkLenIs
    <3> QED BY <1>1, <3>1 DEF Init, ChunkInv
  <2>4. BufInv
    <3>1. \A r, k : Reference(SliceList(sources), 0, r, k) = {}
      BY DEF Reference
    <3>2. counter = 0 /\ pc # "accumulate"
          /\ buf = [r \in 0 .. Recovery - 1 |-> [k \in Words |-> {}]]
      BY <1>1 DEF Init
    <3> QED BY <3>1, <3>2, BufAtRest
  <2> QED BY <2>1, <2>2, <2>3, <2>4 DEF EncodeInv
<1>2. ASSUME EncodeInv, Next PROVE EncodeInv'
  BY <1>2, OpenKeeps, LoadKeeps, AccumulateKeeps, SliceDoneKeeps, EncodedKeeps DEF Next
<1>3. ASSUME EncodeInv, UNCHANGED vars PROVE EncodeInv'
  <2>1. /\ UNCHANGED given
        /\ UNCHANGED <<pc, nth, sliceIdx, counter, offset, slice, at, buf>>
    BY <1>3 DEF vars, given
  <2>2. /\ UNCHANGED <<mode, sources, scanned, window, Before, SliceList(sources)>>
        /\ \A f : SlicesOf(f)' = SlicesOf(f)
    BY <2>1, GivenStays
  <2>3. EncodeTypeOK' /\ PlaceInv' /\ ChunkInv'
    BY <1>3, <2>1, <2>2 DEF EncodeInv, EncodeTypeOK, PlaceInv, ChunkInv, Padded
  <2>4. BufInv'
    BY <1>3, <2>1, <2>2 DEF EncodeInv, BufInv, Added
  <2> QED BY <2>3, <2>4 DEF EncodeInv
<1> QED BY <1>1, <1>2, <1>3

\* What the invariant says when no slice is being accumulated.
LEMMA EncodeInvSays == EncodeInv => SlicesEncodedOnce
<1> SUFFICES ASSUME EncodeInv, pc # "accumulate",
                    NEW r \in DOMAIN buf, NEW k \in Words
             PROVE  buf[r][k] = Reference(SliceList(sources), counter, r, k)
  BY DEF SlicesEncodedOnce
<1>1. buf = [q \in 0 .. Recovery - 1 |-> [l \in Words |->
               Reference(SliceList(sources), counter, q, l)]]
  BY BufAtRest DEF EncodeInv
<1> QED BY <1>1

\* A create takes no step of the loop but the loop's own.
LEMMA FilesFollow == FSpec => []EncodeInv
<1>1. FInit => EncodeInv
  BY EncodeInvariant DEF FInit
<1>2. EncodeInv /\ [FNext]_<<vars, files>> => EncodeInv'
  <2>1. [FNext]_<<vars, files>> => [Next]_vars
    BY DEF FNext, WriteIndex, Encode, ResolveVolumes, WriteVolume
  <2> QED BY <2>1, EncodeInvariant
<1> QED BY <1>1, <1>2, PTL DEF FSpec

\* For any files, slice size, order of the files, number of recovery blocks and
\* of threads and any window: after every slice, each word of each recovery
\* buffer has the terms of the slices done so far, once each, and no other.
THEOREM EverySliceIsEncodedOnce == FSpec => []SlicesEncodedOnce
BY FilesFollow, EncodeInvSays, PTL

AllSlicesEncoded ==
  pc = "done" =>
    /\ counter = Len(SliceList(sources))
    /\ \A r \in 0 .. Recovery - 1, k \in Words :
         buf[r][k] = Reference(SliceList(sources), Len(SliceList(sources)), r, k)

\* When the loop is left, every slice of every file is in: no file and no slice
\* was passed over.
THEOREM EverySliceIsEncoded == FSpec => []AllSlicesEncoded
<1>1. EncodeInv => AllSlicesEncoded
  <2> SUFFICES ASSUME EncodeInv, pc = "done" PROVE AllSlicesEncoded
    BY DEF AllSlicesEncoded
  <2>1. counter = Len(SliceList(sources))
    BY SliceIsAt DEF EncodeInv, PlaceInv
  <2>2. buf = [q \in 0 .. Recovery - 1 |-> [l \in Words |->
                 Reference(SliceList(sources), counter, q, l)]]
    BY BufAtRest DEF EncodeInv
  <2> QED BY <2>1, <2>2 DEF AllSlicesEncoded
<1> QED BY <1>1, FilesFollow, PTL

-----------------------------------------------------------------------------
(* The volumes.  What a reader can rely on is where the packets of a volume *)
(* are: the index, its own recovery packets in turn, and the index again.  *)

\* first_exp of a volume is the number of blocks in those before it.
LEMMA BlocksBeforeIs ==
  ASSUME NEW layout \in Seq(Nat \ {0})
  PROVE  /\ BlocksBefore(layout, 1) = 0
         /\ \A v \in 1 .. Len(layout) :
              BlocksBefore(layout, v + 1) = BlocksBefore(layout, v) + layout[v]
<1> DEFINE n == Len(layout)
           sum == CHOOSE f : f = [u \in 1 .. n + 1 |-> IF u = 1 THEN 0 ELSE f[u - 1] + layout[u - 1]]
<1>1. n \in Nat
  OBVIOUS
<1>2. sum = [u \in 1 .. n + 1 |-> IF u = 1 THEN 0 ELSE sum[u - 1] + layout[u - 1]]
  <2> HIDE DEF n
  <2> QED BY <1>1, RunningSumsExist
<1>3. \A v : BlocksBefore(layout, v) = sum[v]
  BY DEF BlocksBefore
<1> HIDE DEF sum
<1>4. sum[1] = 0
  BY <1>1, <1>2
<1>5. ASSUME NEW v \in 1 .. n PROVE sum[v + 1] = sum[v] + layout[v]
  <2>1. v + 1 \in 1 .. n + 1 /\ v + 1 # 1 /\ (v + 1) - 1 = v
    BY <1>1
  <2> QED BY <2>1, <1>2
<1> QED BY <1>3, <1>4, <1>5

\* So the ranges of exponents of the volumes follow one another.
LEMMA BlocksBeforeGrows ==
  ASSUME NEW layout \in Seq(Nat \ {0})
  PROVE  /\ \A v \in 1 .. Len(layout) + 1 : BlocksBefore(layout, v) \in Nat
         /\ \A v \in 1 .. Len(layout) : \A u \in 1 .. v - 1 :
              BlocksBefore(layout, u) + layout[u] <= BlocksBefore(layout, v)
<1> DEFINE n == Len(layout)
           Good(v) == /\ \A u \in 1 .. v : BlocksBefore(layout, u) \in Nat
                      /\ \A u \in 1 .. v - 1 :
                           BlocksBefore(layout, u) + layout[u] <= BlocksBefore(layout, v)
           S == {k \in Nat : k + 1 <= n + 1 => Good(k + 1)}
<1>1. n \in Nat /\ \A v \in 1 .. n : layout[v] \in Nat \ {0}
  OBVIOUS
<1>2. 0 \in S
  <2>1. Good(1)
    BY BlocksBeforeIs
  <2> QED BY <2>1
<1>3. ASSUME NEW k \in Nat, k \in S PROVE k + 1 \in S
  <2> SUFFICES ASSUME k + 2 <= n + 1 PROVE Good(k + 2)
    OBVIOUS
  <2> DEFINE v == k + 1
             b == BlocksBefore(layout, v)
  <2>1. v \in 1 .. n /\ v + 1 = k + 2 /\ Good(v)
    BY <1>1, <1>3
  <2>2. b \in Nat /\ layout[v] \in Nat \ {0} /\ BlocksBefore(layout, v + 1) = b + layout[v]
    <3>1. b \in Nat
      BY <2>1
    <3> QED BY <1>1, <2>1, <3>1, BlocksBeforeIs
  <2> HIDE DEF v, n
  <2>3. ASSUME NEW u \in 1 .. v PROVE BlocksBefore(layout, u) + layout[u] <= BlocksBefore(layout, v + 1)
    <3>1. CASE u = v
      BY <2>2, <3>1
    <3>2. CASE u # v
      <4>1. u \in 1 .. v - 1 /\ u \in 1 .. n
        BY <1>1, <2>1, <3>2
      <4> DEFINE a == BlocksBefore(layout, u) + layout[u]
      <4>2. a <= b
        BY <2>1, <4>1
      <4>3. a \in Int
        BY <1>1, <2>1, <4>1
      <4> HIDE DEF a, b
      <4>4. a <= b + layout[v]
        BY <2>2, <4>2, <4>3
      <4> QED BY <2>2, <4>4 DEF a, b
    <3> QED BY <3>1, <3>2
  <2>4. \A u \in 1 .. (k + 2) - 1 : u \in 1 .. v
    BY <2>1
  <2>5. \A u \in 1 .. k + 2 : BlocksBefore(layout, u) \in Nat
    <3>1. \A u \in 1 .. k + 2 : u = v + 1 \/ u \in 1 .. v
      BY <2>1
    <3>2. BlocksBefore(layout, v + 1) \in Nat
      BY <2>2
    <3> QED BY <2>1, <3>1, <3>2
  <2> QED BY <2>1, <2>3, <2>4, <2>5
<1>4. Nat \subseteq S
  <2> HIDE DEF S
  <2> QED BY <1>2, <1>3, NatInSet
<1>5. ASSUME NEW v \in 1 .. n + 1 PROVE Good(v)
  <2>1. v - 1 \in Nat /\ (v - 1) + 1 = v
    BY <1>1
  <2> DEFINE k == v - 1
  <2> HIDE DEF Good
  <2> HIDE DEF S
  <2>2. k \in S /\ k + 1 = v /\ v <= n + 1
    BY <1>4, <2>1, <1>1
  <2> HIDE DEF k
  <2> QED BY <2>2 DEF S
<1>6. \A v \in 1 .. n : v \in 1 .. n + 1
  BY <1>1
<1> QED BY <1>5, <1>6

\* A block of the recovery data belongs to one of the volumes of the layout.
LEMMA BlockHasVolume ==
  ASSUME NEW layout \in Seq(Nat \ {0}), NEW e \in Nat,
         e < BlocksBefore(layout, Len(layout) + 1)
  PROVE  \E v \in 1 .. Len(layout) :
           BlocksBefore(layout, v) <= e /\ e < BlocksBefore(layout, v) + layout[v]
<1> DEFINE n == Len(layout)
           Has == \E v \in 1 .. n :
                    BlocksBefore(layout, v) <= e /\ e < BlocksBefore(layout, v) + layout[v]
           S == {k \in Nat : k + 1 <= n + 1 /\ e < BlocksBefore(layout, k + 1) => Has}
<1>1. n \in Nat
  OBVIOUS
<1>2. 0 \in S
  <2>1. BlocksBefore(layout, 1) = 0
    BY BlocksBeforeIs
  <2> QED BY <2>1
<1>3. ASSUME NEW k \in Nat, k \in S PROVE k + 1 \in S
  <2> SUFFICES ASSUME k + 2 <= n + 1, e < BlocksBefore(layout, k + 2) PROVE Has
    OBVIOUS
  <2> DEFINE v == k + 1
             b == BlocksBefore(layout, v)
  <2>1. v \in 1 .. n /\ v \in 1 .. n + 1 /\ v + 1 = k + 2 /\ v <= n + 1
    BY <1>1
  <2>2. b \in Nat /\ BlocksBefore(layout, k + 2) = b + layout[v]
    BY <2>1, BlocksBeforeIs, BlocksBeforeGrows
  <2>3. CASE e < b
    BY <1>3, <2>1, <2>3
  <2>4. CASE b <= e
    <3>1. e < b + layout[v]
      BY <2>2
    <3> HIDE DEF v, b
    <3> QED BY <2>1, <2>4, <3>1 DEF b
  <2> QED BY <2>2, <2>3, <2>4
<1>4. Nat \subseteq S
  <2> HIDE DEF S
  <2> QED BY <1>2, <1>3, NatInSet
<1>5. n \in S
  BY <1>1, <1>4
<1> QED BY <1>1, <1>5

\* A sequence of packets of which none is a recovery packet.
Plain(s) == \E S : s \in Seq(S) /\ \A p \in S : p.type # "RecvSlic"

\* Such sequences can be put together.
LEMMA PlainJoin ==
  ASSUME NEW s, NEW t, Plain(s), Plain(t)
  PROVE  Plain(s \o t)
<1>1. PICK S : s \in Seq(S) /\ \A p \in S : p.type # "RecvSlic"
  BY DEF Plain
<1>2. PICK T : t \in Seq(T) /\ \A p \in T : p.type # "RecvSlic"
  BY DEF Plain
<1>3. s \in Seq(S \cup T) /\ t \in Seq(S \cup T)
  BY <1>1, <1>2
<1>4. s \o t \in Seq(S \cup T)
  BY <1>3
<1> QED BY <1>1, <1>2, <1>4 DEF Plain

\* A single packet is one of them.
LEMMA PlainOne ==
  ASSUME NEW p, p.type # "RecvSlic"
  PROVE  Plain(<<p>>)
<1>1. <<p>> \in Seq({p})
  OBVIOUS
<1>2. \A q \in {p} : q.type # "RecvSlic"
  OBVIOUS
<1> DEFINE S == {p}
<1>3. <<p>> \in Seq(S) /\ \A q \in S : q.type # "RecvSlic"
  BY <1>1, <1>2
<1> HIDE DEF S
<1> QED BY <1>3 DEF Plain

\* Sequences over a set, put one after the other: each begins somewhere.
LEMMA FlattenedPlaces ==
  ASSUME NEW T, NEW n \in Nat, NEW seqs \in [1 .. n -> Seq(T)]
  PROVE  \E b : Begins(T, n, seqs, b) /\ Follows(T, n, seqs, b, FlattenSeq(seqs))
<1> DEFINE g == [i \in 1 .. n |-> Len(seqs[i])]
<1>1. PICK b : b = [k \in 1 .. n + 1 |-> IF k = 1 THEN 0 ELSE b[k - 1] + g[k - 1]]
  BY RunningSumsExist
<1>2. \A i \in 1 .. n : seqs[i] \in Seq(T) /\ g[i] \in Nat /\ g[i] = Len(seqs[i])
  OBVIOUS
<1> HIDE DEF g
<1>3. b[1] = 0
  BY <1>1
<1>4. ASSUME NEW i \in 1 .. n PROVE b[i + 1] = b[i] + g[i]
  <2>1. i + 1 \in 1 .. n + 1 /\ i + 1 # 1 /\ (i + 1) - 1 = i
    OBVIOUS
  <2> QED BY <1>1, <2>1
<1>5. \A i \in 1 .. n + 1 : b[i] \in Nat
  <2> DEFINE S == {k \in Nat : k + 1 <= n + 1 => b[k + 1] \in Nat}
  <2>1. 0 \in S
    BY <1>3
  <2>2. ASSUME NEW k \in Nat, k \in S PROVE k + 1 \in S
    <3> SUFFICES ASSUME k + 2 <= n + 1 PROVE b[k + 2] \in Nat
      OBVIOUS
    <3> DEFINE i == k + 1
    <3>1. i \in 1 .. n /\ i + 1 = k + 2 /\ b[i] \in Nat
      BY <2>2
    <3> HIDE DEF i
    <3>2. b[i + 1] = b[i] + g[i] /\ g[i] \in Nat
      BY <1>2, <1>4, <3>1
    <3>3. \A x, y \in Nat : x + y \in Nat
      OBVIOUS
    <3> QED BY <3>1, <3>2, <3>3
  <2>3. Nat \subseteq S
    <3> HIDE DEF S
    <3> QED BY <2>1, <2>2, NatInSet
  <2>4. ASSUME NEW i \in 1 .. n + 1 PROVE b[i] \in Nat
    <3> DEFINE k == i - 1
    <3>1. k \in Nat /\ k + 1 = i /\ k + 1 <= n + 1
      OBVIOUS
    <3> HIDE DEF k
    <3>2. b[k + 1] \in Nat
      BY <2>3, <3>1
    <3> QED BY <3>1, <3>2
  <2> QED BY <2>4
<1>6. Begins(T, n, seqs, b)
  BY <1>2, <1>3, <1>4, <1>5 DEF Begins
<1>7. Follows(T, n, seqs, b, FlattenSeq(seqs))
  BY <1>6, Flattened
<1> QED BY <1>6, <1>7

\* And together they are a sequence over the set.
LEMMA FlattenedIsSeq ==
  ASSUME NEW T, NEW n \in Nat, NEW seqs \in [1 .. n -> Seq(T)]
  PROVE  FlattenSeq(seqs) \in Seq(T)
BY FlattenedPlaces DEF Follows

\* The index has no recovery packet.
LEMMA CriticalIsPlain ==
  ASSUME NEW size, NEW n \in Nat, NEW srcs, DOMAIN srcs = 1 .. n, NEW comments,
         comments \in Seq(Seq(Nat))
  PROVE  Plain(CriticalPackets(size, srcs, comments))
<1> DEFINE ids == [i \in DOMAIN srcs |-> srcs[i].file_id]
           id == SetIdHash(size, ids)
           pair == [i \in DOMAIN srcs |-> <<BuildFileDescPacket(id, srcs[i]), BuildFileVerifyPacket(id, srcs[i])>>]
<1>1. Plain(<<BuildMainPacket(size, ids)>>)
  <2>1. BuildMainPacket(size, ids).type # "RecvSlic"
    BY DEF BuildMainPacket, BuildPacket
  <2> QED BY <2>1, PlainOne
<1>2. Plain(FlattenSeq(pair))
  <2> DEFINE desc(i) == BuildFileDescPacket(id, srcs[i])
             ifsc(i) == BuildFileVerifyPacket(id, srcs[i])
             S == {desc(i) : i \in DOMAIN srcs} \cup {ifsc(i) : i \in DOMAIN srcs}
  <2>1. \A p \in S : p.type # "RecvSlic"
    <3>1. \A i : desc(i).type = "FileDesc"
      BY DEF BuildFileDescPacket, BuildPacket
    <3>2. \A i : ifsc(i).type = "IFSC"
      BY DEF BuildFileVerifyPacket, BuildPacket
    <3> HIDE DEF desc, ifsc
    <3> QED BY <3>1, <3>2
  <2>2. pair \in [1 .. n -> Seq(S)]
    <3>1. \A i \in DOMAIN srcs : pair[i] \in Seq(S)
      <4> SUFFICES ASSUME NEW i \in DOMAIN srcs
                   PROVE  <<BuildFileDescPacket(id, srcs[i]), BuildFileVerifyPacket(id, srcs[i])>> \in Seq(S)
        OBVIOUS
      <4>1. BuildFileDescPacket(id, srcs[i]) \in S /\ BuildFileVerifyPacket(id, srcs[i]) \in S
        OBVIOUS
      <4> HIDE DEF S
      <4> QED BY <4>1
    <3> HIDE DEF S
    <3>2. \A i \in 1 .. n : pair[i] \in Seq(S)
      BY <3>1
    <3> QED BY <3>2
  <2> HIDE DEF S, pair
  <2>3. FlattenSeq(pair) \in Seq(S)
    BY <2>2, FlattenedIsSeq
  <2> QED BY <2>1, <2>3 DEF Plain
<1>3. Plain(<<BuildCreatorPacket(id)>>)
  <2>1. BuildCreatorPacket(id).type # "RecvSlic"
    BY DEF BuildCreatorPacket, BuildPacket
  <2> QED BY <2>1, PlainOne
<1>4. Plain(BuildCommentPackets(id, comments))
  <2> DEFINE asc(i) == BuildAsciiCommentPacket(id, comments[i])
             uni(i) == BuildUnicodeCommentPacket(id, comments[i], asc(i).hash)
             S == {asc(i) : i \in DOMAIN comments} \cup {uni(i) : i \in DOMAIN comments}
             both == [i \in DOMAIN comments |-> BuildCommentPacketPair(id, comments[i])]
  <2>1. \A p \in S : p.type # "RecvSlic"
    <3>1. \A i : asc(i).type = "CommASCI"
      BY DEF BuildAsciiCommentPacket, BuildPacket
    <3>2. \A i : uni(i).type = "CommUni"
      BY DEF BuildUnicodeCommentPacket, BuildPacket
    <3> HIDE DEF asc, uni
    <3> QED BY <3>1, <3>2
  <2>2. DOMAIN comments = 1 .. Len(comments) /\ Len(comments) \in Nat
    OBVIOUS
  <2>3. ASSUME NEW i \in DOMAIN comments PROVE both[i] \in Seq(S)
    <3>1. both[i] = <<asc(i)>> \o (IF IsAscii(comments[i]) THEN <<>> ELSE <<uni(i)>>)
      BY DEF BuildCommentPacketPair
    <3>2. asc(i) \in S /\ uni(i) \in S
      OBVIOUS
    <3> HIDE DEF S, asc, uni, both
    <3>3. <<asc(i)>> \in Seq(S) /\ <<uni(i)>> \in Seq(S) /\ <<>> \in Seq(S)
      BY <3>2
    <3>4. (IF IsAscii(comments[i]) THEN <<>> ELSE <<uni(i)>>) \in Seq(S)
      BY <3>3
    <3> QED BY <3>1, <3>3, <3>4
  <2>4. both \in [1 .. Len(comments) -> Seq(S)]
    <3> HIDE DEF S
    <3> QED BY <2>2, <2>3
  <2>5. BuildCommentPackets(id, comments) = FlattenSeq(both)
    BY DEF BuildCommentPackets
  <2> HIDE DEF S, both
  <2>6. FlattenSeq(both) \in Seq(S)
    BY <2>2, <2>4, FlattenedIsSeq
  <2> QED BY <2>1, <2>5, <2>6 DEF Plain
<1>5. CriticalPackets(size, srcs, comments)
        = ((<<BuildMainPacket(size, ids)>> \o FlattenSeq(pair)) \o <<BuildCreatorPacket(id)>>)
          \o BuildCommentPackets(id, comments)
  BY DEF CriticalPackets
<1> QED BY <1>1, <1>2, <1>3, <1>4, <1>5, PlainJoin

\* Where the packets of a volume are that has n recovery packets from exponent
\* first on.
CarriesBlocks(idx, file, n, first) ==
  LET l == Len(idx)
  IN  /\ \E S : file \in Seq(S)
      /\ Len(file) = l + n + l
      /\ \A i \in 1 .. l : file[i] = idx[i] /\ file[l + n + i] = idx[i]
      /\ \A i \in 1 .. n : /\ file[l + i].type = "RecvSlic"
                           /\ file[l + i].body[1][1] = first + i - 1

\* build_volume_packet puts them there.
LEMMA VolumeCarries ==
  ASSUME NEW id, NEW slots, NEW n \in Nat, DOMAIN slots = 1 .. n, NEW first,
         NEW S, NEW idx \in Seq(S)
  PROVE  CarriesBlocks(idx, BuildVolumePacket(id, idx, slots, first), n, first)
<1> DEFINE recv(i) == BuildRecoveryPacket(id, first + i - 1, slots[i])
           recvs == [i \in DOMAIN slots |-> recv(i)]
           l == Len(idx)
           file == BuildVolumePacket(id, idx, slots, first)
<1>1. \A i : recv(i).type = "RecvSlic" /\ recv(i).body[1][1] = first + i - 1
  BY DEF BuildRecoveryPacket, BuildPacket
<1> HIDE DEF recv
<1>2. file = (idx \o recvs) \o idx
  BY DEF BuildVolumePacket, recv
<1> DEFINE T == S \cup {recv(i) : i \in 1 .. n}
<1>3. idx \in Seq(T) /\ l \in Nat
  OBVIOUS
<1>4. recvs \in Seq(T) /\ Len(recvs) = n /\ \A i \in 1 .. n : recvs[i] = recv(i)
  <2>1. \A i \in 1 .. n : recv(i) \in T
    OBVIOUS
  <2> HIDE DEF T
  <2> QED BY <2>1
<1> HIDE DEF T, recvs, file
<1>j. \A p, q \in Seq(T) :
        /\ p \o q \in Seq(T) /\ Len(p \o q) = Len(p) + Len(q)
        /\ \A i \in 1 .. Len(p) : (p \o q)[i] = p[i]
        /\ \A i \in 1 .. Len(q) : (p \o q)[Len(p) + i] = q[i]
  BY Concatenated
<1> DEFINE front == idx \o recvs
<1>5. /\ front \in Seq(T) /\ Len(front) = l + n
      /\ \A i \in 1 .. l : front[i] = idx[i]
      /\ \A i \in 1 .. n : front[l + i] = recv(i)
  BY <1>3, <1>4, <1>j
<1> HIDE DEF front
<1>6. /\ file \in Seq(T) /\ Len(file) = l + n + l
      /\ \A i \in 1 .. l + n : file[i] = front[i]
      /\ \A i \in 1 .. l : file[l + n + i] = idx[i]
  <2>1. file = front \o idx
    BY <1>2 DEF front
  <2>2. l \in Nat /\ Len(front) = l + n /\ Len(idx) = l
    BY <1>5, <1>3
  <2>3. /\ file \in Seq(T) /\ Len(file) = Len(front) + Len(idx)
        /\ \A i \in 1 .. Len(front) : file[i] = front[i]
        /\ \A i \in 1 .. Len(idx) : file[Len(front) + i] = idx[i]
    BY <2>1, <1>3, <1>5, <1>j
  <2> HIDE DEF l
  <2> QED BY <2>2, <2>3
<1>7. ASSUME NEW i \in 1 .. l PROVE file[i] = idx[i]
  <2>1. i \in 1 .. l + n
    BY <1>3
  <2> QED BY <2>1, <1>5, <1>6
<1>8. ASSUME NEW i \in 1 .. n PROVE file[l + i] = recv(i)
  <2>1. l + i \in 1 .. l + n
    BY <1>3
  <2> QED BY <2>1, <1>5, <1>6
<1> QED BY <1>1, <1>6, <1>7, <1>8 DEF CarriesBlocks, file

\* What is known of the files that have been written.
WrittenInv ==
  /\ Plain(index)
  /\ sizes # <<>> => index # <<>> /\ sizes \in Layouts
  /\ DOMAIN volumes \subseteq {NameOf(v) : v \in DOMAIN sizes}
  /\ \A v \in DOMAIN sizes :
       NameOf(v) \in DOMAIN volumes =>
         CarriesBlocks(index, volumes[NameOf(v)], sizes[v], FirstExp(v))

\* The layout that has been resolved is one of resolve_volume_sizes.
LEMMA LayoutFacts ==
  ASSUME WrittenInv, sizes # <<>>
  PROVE  /\ sizes \in Seq(Nat \ {0}) /\ DOMAIN sizes = 1 .. Len(sizes) /\ Len(sizes) \in Nat
         /\ BlocksBefore(sizes, Len(sizes) + 1) = Recovery
         /\ \A v \in DOMAIN sizes : sizes[v] \in Nat \ {0} /\ FirstExp(v) \in Nat
<1>1. sizes \in Seq(Nat \ {0}) /\ BlocksBefore(sizes, Len(sizes) + 1) = Recovery
  BY FilesAssumption DEF WrittenInv
<1>2. DOMAIN sizes = 1 .. Len(sizes) /\ Len(sizes) \in Nat
  BY <1>1
<1>3. ASSUME NEW v \in DOMAIN sizes PROVE sizes[v] \in Nat \ {0} /\ FirstExp(v) \in Nat
  <2>1. v \in 1 .. Len(sizes) + 1
    BY <1>2
  <2> QED BY <2>1, <1>1, BlocksBeforeGrows DEF FirstExp
<1> QED BY <1>1, <1>2, <1>3

\* Each step of a create keeps what is known of its files.
LEMMA WrittenStep ==
  ASSUME EncodeInv, WrittenInv, [FNext]_<<vars, files>>
  PROVE  WrittenInv'
<1>1. CASE WriteIndex
  <2>1. index = <<>> /\ index' = Critical /\ sizes' = sizes /\ volumes' = volumes
    BY <1>1 DEF WriteIndex
  <2>2. sizes = <<>>
    BY <2>1 DEF WrittenInv
  <2>3. Plain(Critical)
    <3> DEFINE srcs == [i \in DOMAIN sources |-> Source(sources[i])]
    <3>1. DOMAIN srcs = 1 .. Len(sources) /\ Len(sources) \in Nat
      BY SourceIs DEF EncodeInv
    <3>2. Comments \in Seq(Seq(Nat))
      BY FilesAssumption
    <3> HIDE DEF srcs
    <3>3. Plain(CriticalPackets(4 * SliceWords, srcs, Comments))
      BY <3>1, <3>2, CriticalIsPlain
    <3> QED BY <3>3 DEF Critical, srcs
  <2>4. DOMAIN sizes = {}
    BY <2>2
  <2> QED BY <2>1, <2>2, <2>3, <2>4 DEF WrittenInv, NameOf, FirstExp
<1>2. CASE Encode \/ UNCHANGED <<vars, files>>
  <2>1. UNCHANGED <<fileIds, index, sizes, volumes>>
    BY <1>2 DEF Encode, files
  <2> QED BY <2>1 DEF WrittenInv, NameOf, FirstExp, CarriesBlocks
<1>3. CASE ResolveVolumes
  <2>1. /\ index # <<>> /\ index' = index /\ sizes = <<>> /\ sizes' \in Layouts
        /\ volumes' = volumes
    BY <1>3 DEF ResolveVolumes
  <2>2. DOMAIN volumes = {}
    BY <2>1 DEF WrittenInv
  <2> QED BY <2>1, <2>2 DEF WrittenInv
<1>4. CASE \E v \in DOMAIN sizes : WriteVolume(v)
  <2>1. PICK v \in DOMAIN sizes : WriteVolume(v)
    BY <1>4
  <2> DEFINE written == BuildVolumePacket(index[1].setId, index, Slots(v), FirstExp(v))
  <2>2. /\ sizes' = sizes /\ index' = index /\ \A u : NameOf(u)' = NameOf(u) /\ FirstExp(u)' = FirstExp(u)
        /\ volumes' = [name \in DOMAIN volumes \cup {NameOf(v)} |->
                         IF name = NameOf(v) THEN written ELSE volumes[name]]
    BY <2>1 DEF WriteVolume, NameOf, FirstExp
  <2>3. sizes # <<>>
    OBVIOUS
  <2>4. CarriesBlocks(index, written, sizes[v], FirstExp(v))
    <3>1. DOMAIN Slots(v) = 1 .. sizes[v] /\ sizes[v] \in Nat
      BY <2>3, LayoutFacts DEF Slots
    <3>2. PICK S : index \in Seq(S)
      BY DEF WrittenInv, Plain
    <3> QED BY <3>1, <3>2, VolumeCarries
  <2> HIDE DEF written
  <2>5. ASSUME NEW u \in DOMAIN sizes, NameOf(u) \in DOMAIN volumes'
        PROVE  CarriesBlocks(index, volumes'[NameOf(u)], sizes[u], FirstExp(u))
    <3>1. CASE NameOf(u) = NameOf(v)
      <4>1. sizes[u] = sizes[v] /\ FirstExp(u) = FirstExp(v)
        BY <3>1 DEF NameOf
      <4>2. volumes'[NameOf(u)] = written
        BY <2>2, <3>1
      <4> QED BY <2>4, <4>1, <4>2
    <3>2. CASE NameOf(u) # NameOf(v)
      <4>1. NameOf(u) \in DOMAIN volumes /\ volumes'[NameOf(u)] = volumes[NameOf(u)]
        BY <2>2, <2>5, <3>2
      <4> QED BY <4>1 DEF WrittenInv
    <3> QED BY <3>1, <3>2
  <2>6. (\A u \in DOMAIN sizes :
           NameOf(u) \in DOMAIN volumes =>
             CarriesBlocks(index, volumes[NameOf(u)], sizes[u], FirstExp(u)))'
    BY <2>2, <2>5
  <2>7. DOMAIN volumes' \subseteq {NameOf(u) : u \in DOMAIN sizes}
    BY <2>2 DEF WrittenInv
  <2>8. {NameOf(u) : u \in DOMAIN sizes}' = {NameOf(u) : u \in DOMAIN sizes}
    BY <2>2
  <2>9. Plain(index)' /\ (sizes' # <<>> => index' # <<>> /\ sizes' \in Layouts)
    BY <2>2 DEF WrittenInv, Plain
  <2> QED BY <2>2, <2>6, <2>7, <2>8, <2>9 DEF WrittenInv
<1> QED BY <1>1, <1>2, <1>3, <1>4 DEF FNext

\* Every volume that has been written has its packets in place.
LEMMA WrittenAlways == FSpec => []WrittenInv
<1>1. FInit => WrittenInv
  <2>1. Plain(<<>>)
    <3> DEFINE S == {}
    <3>1. <<>> \in Seq(S) /\ \A p \in S : p.type # "RecvSlic"
      OBVIOUS
    <3> HIDE DEF S
    <3> QED BY <3>1 DEF Plain
  <2> QED BY <2>1 DEF FInit, WrittenInv
<1>2. EncodeInv /\ WrittenInv /\ [FNext]_<<vars, files>> => WrittenInv'
  BY WrittenStep
<1> QED BY <1>1, <1>2, FilesFollow, PTL DEF FSpec

\* An injective function has as many values as arguments.
LEMMA InjectiveImage ==
  ASSUME NEW S, IsFiniteSet(S), NEW f, DOMAIN f = S,
         \A a, b \in S : f[a] = f[b] => a = b
  PROVE  Cardinality({f[x] : x \in S}) = Cardinality(S)
<1> DEFINE T == {f[x] : x \in S}
           g == [x \in S |-> f[x]]
<1>1. g \in Bijection(S, T)
  BY DEF Bijection, Injection, Surjection, IsInjective
<1>2. ExistsBijection(S, T)
  BY <1>1 DEF ExistsBijection
<1> HIDE DEF T
<1>3. Cardinality(T) = Cardinality(S)
  BY <1>2, FS_Bijection
<1> QED BY <1>3 DEF T

\* The recovery packets of a volume stand between its copies of the index.
LEMMA RecoveryPlaces ==
  ASSUME NEW idx, Plain(idx), NEW n \in Nat, NEW first \in Nat, NEW file,
         CarriesBlocks(idx, file, n, first)
  PROVE  /\ Len(idx) \in Nat /\ DOMAIN file = 1 .. Len(idx) + n + Len(idx)
         /\ \A i \in DOMAIN file :
              file[i].type = "RecvSlic" <=> i \in Len(idx) + 1 .. Len(idx) + n
         /\ \A i \in Len(idx) + 1 .. Len(idx) + n : file[i].body[1][1] = first + (i - Len(idx)) - 1
<1> DEFINE l == Len(idx)
<1>1. PICK S : idx \in Seq(S) /\ \A p \in S : p.type # "RecvSlic"
  BY DEF Plain
<1>2. l \in Nat /\ \A i \in 1 .. l : idx[i].type # "RecvSlic"
  BY <1>1
<1>3. PICK T : file \in Seq(T)
  BY DEF CarriesBlocks
<1>4. /\ Len(file) = l + n + l
      /\ \A i \in 1 .. l : file[i] = idx[i] /\ file[l + n + i] = idx[i]
      /\ \A i \in 1 .. n : file[l + i].type = "RecvSlic" /\ file[l + i].body[1][1] = first + i - 1
  BY DEF CarriesBlocks
<1> HIDE DEF l
<1>5. DOMAIN file = 1 .. l + n + l
  BY <1>3, <1>4
<1>6. ASSUME NEW i \in l + 1 .. l + n
      PROVE  file[i].type = "RecvSlic" /\ file[i].body[1][1] = first + (i - l) - 1
  <2> DEFINE j == i - l
  <2>1. j \in 1 .. n /\ l + j = i
    BY <1>2
  <2> HIDE DEF j
  <2>2. file[l + j].type = "RecvSlic" /\ file[l + j].body[1][1] = first + j - 1
    BY <1>4, <2>1
  <2> QED BY <2>1, <2>2 DEF j
<1>7. ASSUME NEW i \in 1 .. l + n + l, i \notin l + 1 .. l + n
      PROVE  file[i].type # "RecvSlic"
  <2>1. CASE i \in 1 .. l
    BY <2>1, <1>2, <1>4
  <2>2. CASE i \notin 1 .. l
    <3> DEFINE j == i - (l + n)
    <3>1. j \in 1 .. l /\ l + n + j = i
      BY <1>2, <1>7, <2>2
    <3> HIDE DEF j
    <3>2. file[l + n + j] = idx[j]
      BY <1>4, <3>1
    <3> QED BY <3>1, <3>2, <1>2
  <2> QED BY <2>1, <2>2
<1> QED BY <1>2, <1>5, <1>6, <1>7 DEF l

\* A volume has as many recovery packets as its layout says.
LEMMA RecoveryCount ==
  ASSUME NEW idx, Plain(idx), NEW n \in Nat, NEW first \in Nat, NEW file,
         CarriesBlocks(idx, file, n, first)
  PROVE  Cardinality(OfType(file, "RecvSlic")) = n
<1> DEFINE l == Len(idx)
           f == [i \in 1 .. n |-> file[l + i]]
<1>1. /\ l \in Nat /\ DOMAIN file = 1 .. l + n + l
      /\ \A i \in DOMAIN file : file[i].type = "RecvSlic" <=> i \in l + 1 .. l + n
  BY RecoveryPlaces
<1>2. \A i \in 1 .. n : file[l + i].body[1][1] = first + i - 1
  BY DEF CarriesBlocks
<1> HIDE DEF l
<1>3. \A i, j \in 1 .. n : f[i] = f[j] => i = j
  <2> SUFFICES ASSUME NEW i \in 1 .. n, NEW j \in 1 .. n, file[l + i] = file[l + j]
               PROVE  i = j
    OBVIOUS
  <2>1. first + i - 1 = first + j - 1
    BY <1>2
  <2> QED BY <2>1
<1>4. OfType(file, "RecvSlic") = {f[i] : i \in 1 .. n}
  <2>1. ASSUME NEW p \in OfType(file, "RecvSlic") PROVE p \in {f[i] : i \in 1 .. n}
    <3>1. PICK i \in DOMAIN file : p = file[i] /\ file[i].type = "RecvSlic"
      BY DEF OfType, Range
    <3> DEFINE j == i - l
    <3>2. j \in 1 .. n /\ l + j = i
      BY <1>1, <3>1
    <3> HIDE DEF j
    <3> QED BY <3>1, <3>2
  <2>2. ASSUME NEW i \in 1 .. n PROVE f[i] \in OfType(file, "RecvSlic")
    <3>1. l + i \in DOMAIN file /\ l + i \in l + 1 .. l + n
      BY <1>1
    <3> QED BY <3>1, <1>1 DEF OfType, Range
  <2> QED BY <2>1, <2>2
<1>5. IsFiniteSet(1 .. n) /\ Cardinality(1 .. n) = n
  BY FS_Interval
<1>6. DOMAIN f = 1 .. n
  OBVIOUS
<1> HIDE DEF f
<1> QED BY <1>3, <1>4, <1>5, <1>6, InjectiveImage

\* What is left of a volume that lost a run of packets.
LEMMA BurstLeaves ==
  ASSUME NEW idx, Plain(idx), NEW n \in Nat, NEW first \in Nat, NEW file,
         CarriesBlocks(idx, file, n, first),
         NEW from \in 1 .. Len(idx) + 1
  PROVE  Range(idx) \subseteq
           Range(SubSeq(file, 1, from - 1) \o SubSeq(file, from + Len(idx) + n, Len(file)))
<1> DEFINE l == Len(idx)
           a == SubSeq(file, 1, from - 1)
           b == SubSeq(file, from + l + n, Len(file))
<1>1. PICK T : file \in Seq(T)
  BY DEF CarriesBlocks
<1>2. l \in Nat /\ DOMAIN idx = 1 .. l
  <2>1. PICK S : idx \in Seq(S)
    BY DEF Plain
  <2> QED BY <2>1
<1>3. /\ Len(file) = l + n + l
      /\ \A i \in 1 .. l : file[i] = idx[i] /\ file[l + n + i] = idx[i]
  BY DEF CarriesBlocks
<1> HIDE DEF l
<1>4. from \in 1 .. l + 1
  BY DEF l
<1>5. a \in Seq(T) /\ Len(a) = from - 1 /\ \A i \in 1 .. from - 1 : a[i] = file[i]
  BY <1>1, <1>2, <1>3, <1>4
<1>6. /\ b \in Seq(T) /\ Len(b) = l + 1 - from
      /\ \A i \in 1 .. l + 1 - from : b[i] = file[from + l + n + i - 1]
  BY <1>1, <1>2, <1>3, <1>4
<1> HIDE DEF a, b
<1>7. /\ DOMAIN (a \o b) = 1 .. l
      /\ \A i \in 1 .. from - 1 : (a \o b)[i] = a[i]
      /\ \A i \in 1 .. l + 1 - from : (a \o b)[from - 1 + i] = b[i]
  <2>1. \A p, q \in Seq(T) :
          /\ p \o q \in Seq(T) /\ Len(p \o q) = Len(p) + Len(q)
          /\ \A i \in 1 .. Len(p) : (p \o q)[i] = p[i]
          /\ \A i \in 1 .. Len(q) : (p \o q)[Len(p) + i] = q[i]
    BY Concatenated
  <2> DEFINE c == a \o b
  <2>2. /\ c \in Seq(T) /\ Len(c) = (from - 1) + (l + 1 - from)
        /\ \A i \in 1 .. from - 1 : c[i] = a[i]
        /\ \A i \in 1 .. l + 1 - from : c[from - 1 + i] = b[i]
    <3>1. a \in Seq(T) /\ b \in Seq(T)
      BY <1>5, <1>6
    <3>2. /\ c \in Seq(T) /\ Len(c) = Len(a) + Len(b)
          /\ \A i \in 1 .. Len(a) : c[i] = a[i]
          /\ \A i \in 1 .. Len(b) : c[Len(a) + i] = b[i]
      BY <2>1, <3>1
    <3>3. Len(a) = from - 1 /\ Len(b) = l + 1 - from
      BY <1>5, <1>6
    <3> HIDE DEF c
    <3> QED BY <3>2, <3>3
  <2> HIDE DEF c
  <2>3. (from - 1) + (l + 1 - from) = l
    BY <1>2, <1>4
  <2>4. DOMAIN c = 1 .. l
    BY <2>2, <2>3
  <2> QED BY <2>2, <2>4 DEF c
<1>8. ASSUME NEW i \in 1 .. l PROVE (a \o b)[i] = idx[i]
  <2>1. CASE i < from
    <3>1. i \in 1 .. from - 1
      BY <1>4, <2>1
    <3> QED BY <3>1, <1>3, <1>5, <1>7
  <2>2. CASE from <= i
    <3> DEFINE j == i - from + 1
    <3>1. /\ j \in 1 .. l + 1 - from /\ from - 1 + j = i
          /\ from + l + n + j - 1 = l + n + i
      BY <1>2, <1>4, <2>2
    <3> HIDE DEF j
    <3>2. (a \o b)[i] = file[l + n + i]
      BY <3>1, <1>6, <1>7
    <3> QED BY <3>2, <1>3
  <2>3. i < from \/ from <= i
    BY <1>2, <1>4
  <2> QED BY <2>1, <2>2, <2>3
<1>9. Range(idx) \subseteq Range(a \o b)
  BY <1>2, <1>7, <1>8 DEF Range
<1> QED BY <1>9 DEF a, b, l

\* For any set and any layout: whatever run of packets a volume loses, as long
\* as it is no longer than one copy of the index and the recovery packets
\* between, everything in the index can be read from the rest.
THEOREM AVolumeSurvivesABurst == FSpec => []SurvivesABurst
<1>1. WrittenInv => SurvivesABurst
  <2> SUFFICES ASSUME WrittenInv, NEW name \in DOMAIN volumes
               PROVE  LET file == volumes[name]
                          burst == Len(index) + Cardinality(OfType(file, "RecvSlic"))
                      IN  \A from \in 1 .. Len(file) - burst + 1 :
                            Range(index) \subseteq
                              Range(SubSeq(file, 1, from - 1) \o SubSeq(file, from + burst, Len(file)))
    BY DEF SurvivesABurst
  <2>1. PICK v \in DOMAIN sizes : name = NameOf(v)
    BY DEF WrittenInv
  <2>2. PICK file : file = volumes[name]
    OBVIOUS
  <2>3. PICK idx : idx = index
    OBVIOUS
  <2>4. PICK n, first : n = sizes[v] /\ first = FirstExp(v)
    OBVIOUS
  <2>5. sizes # <<>>
    OBVIOUS
  <2>6. n \in Nat /\ first \in Nat
    BY <2>4, <2>5, LayoutFacts
  <2>7. Plain(idx) /\ CarriesBlocks(idx, file, n, first)
    BY <2>1, <2>2, <2>3, <2>4 DEF WrittenInv
  <2>8. Cardinality(OfType(file, "RecvSlic")) = n
    BY <2>6, <2>7, RecoveryCount
  <2>9. Len(idx) \in Nat /\ Len(file) - (Len(idx) + n) + 1 = Len(idx) + 1
    <3>1. Len(idx) \in Nat
      BY <2>6, <2>7, RecoveryPlaces
    <3>2. Len(file) = Len(idx) + n + Len(idx)
      BY <2>7 DEF CarriesBlocks
    <3> QED BY <2>6, <3>1, <3>2
  <2>10. ASSUME NEW from \in 1 .. Len(idx) + 1
         PROVE  Range(idx) \subseteq
                  Range(SubSeq(file, 1, from - 1) \o SubSeq(file, from + (Len(idx) + n), Len(file)))
    <3>1. from + (Len(idx) + n) = from + Len(idx) + n
      BY <2>6, <2>9
    <3> QED BY <2>6, <2>7, <3>1, BurstLeaves
  <2> QED BY <2>2, <2>3, <2>8, <2>9, <2>10
<1> QED BY <1>1, WrittenAlways, PTL

\* The volumes of a layout have ranges of exponents that do not meet, so no two
\* of them have the same name.
LEMMA NamesDiffer ==
  ASSUME NEW layout \in Seq(Nat \ {0}),
         NEW u \in 1 .. Len(layout), NEW v \in 1 .. Len(layout), u # v
  PROVE  \/ BlocksBefore(layout, u) + layout[u] <= BlocksBefore(layout, v)
         \/ BlocksBefore(layout, v) + layout[v] <= BlocksBefore(layout, u)
<1>1. u \in 1 .. v - 1 \/ v \in 1 .. u - 1
  OBVIOUS
<1> QED BY <1>1, BlocksBeforeGrows

\* A volume has exactly one packet of each of its exponents.
LEMMA OnePacketEach ==
  ASSUME NEW idx, Plain(idx), NEW n \in Nat, NEW first \in Nat, NEW file,
         CarriesBlocks(idx, file, n, first),
         NEW e \in Nat, first <= e, e < first + n
  PROVE  Cardinality({i \in DOMAIN file :
           file[i].type = "RecvSlic" /\ file[i].body[1][1] = e}) = 1
<1> DEFINE l == Len(idx)
           at1 == l + (e - first) + 1
<1>1. /\ l \in Nat /\ DOMAIN file = 1 .. l + n + l
      /\ \A i \in DOMAIN file : file[i].type = "RecvSlic" <=> i \in l + 1 .. l + n
      /\ \A i \in l + 1 .. l + n : file[i].body[1][1] = first + (i - l) - 1
  BY RecoveryPlaces
<1> HIDE DEF l
<1>2. at1 \in l + 1 .. l + n /\ at1 \in 1 .. l + n + l /\ first + (at1 - l) - 1 = e
  BY <1>1
<1>3. \A i \in l + 1 .. l + n : first + (i - l) - 1 = e => i = at1
  BY <1>1
<1> HIDE DEF at1
<1>4. {i \in DOMAIN file : file[i].type = "RecvSlic" /\ file[i].body[1][1] = e} = {at1}
  BY <1>1, <1>2, <1>3
<1> QED BY <1>4, FS_Singleton

\* The exponents in a volume are those of its range.
LEMMA OnlyItsOwn ==
  ASSUME NEW idx, Plain(idx), NEW n \in Nat, NEW first \in Nat, NEW file,
         CarriesBlocks(idx, file, n, first),
         NEW p \in OfType(file, "RecvSlic")
  PROVE  \E k \in Nat : p.body[1][1] = k /\ first <= k /\ k < first + n
<1> DEFINE l == Len(idx)
<1>1. /\ l \in Nat
      /\ \A i \in DOMAIN file : file[i].type = "RecvSlic" <=> i \in l + 1 .. l + n
      /\ \A i \in l + 1 .. l + n : file[i].body[1][1] = first + (i - l) - 1
  BY RecoveryPlaces
<1> HIDE DEF l
<1>2. PICK i \in DOMAIN file : p = file[i] /\ p.type = "RecvSlic"
  BY DEF OfType, Range
<1> DEFINE k == first + (i - l) - 1
<1>3. i \in l + 1 .. l + n /\ p.body[1][1] = k
  BY <1>1, <1>2
<1>4. k \in Nat /\ first <= k /\ k < first + n
  BY <1>1, <1>3
<1> QED BY <1>3, <1>4

\* For any set and any layout that adds up: when every volume has been written,
\* there are as many files as the layout has volumes, each exponent is in one
\* packet of one of them, and in no other file.
THEOREM EveryBlockIsInOneVolume == FSpec => []BlocksOnce
<1>1. WrittenInv => BlocksOnce
  <2> SUFFICES ASSUME WrittenInv, AllWritten
               PROVE  /\ Cardinality(DOMAIN volumes) = Len(sizes)
                      /\ \A e \in 0 .. Recovery - 1 :
                           \E v \in DOMAIN volumes :
                             /\ Cardinality({i \in DOMAIN volumes[v] :
                                   volumes[v][i].type = "RecvSlic" /\ volumes[v][i].body[1][1] = e}) = 1
                             /\ \A u \in DOMAIN volumes \ {v} :
                                  \A p \in OfType(volumes[u], "RecvSlic") : p.body[1][1] # e
    BY DEF BlocksOnce
  <2>1. sizes # <<>> /\ DOMAIN volumes = {NameOf(v) : v \in DOMAIN sizes}
    BY DEF AllWritten
  <2>2. PICK layout, vols, idx : layout = sizes /\ vols = volumes /\ idx = index
    OBVIOUS
  <2> DEFINE n == Len(layout)
             first(v) == BlocksBefore(layout, v)
             name(v) == <<first(v), layout[v]>>
  <2>3. /\ layout \in Seq(Nat \ {0}) /\ DOMAIN layout = 1 .. n /\ n \in Nat
        /\ BlocksBefore(layout, n + 1) = Recovery
        /\ \A v \in 1 .. n : layout[v] \in Nat \ {0} /\ first(v) \in Nat
    BY <2>1, <2>2, LayoutFacts DEF FirstExp
  <2>4. /\ DOMAIN vols = {name(v) : v \in 1 .. n} /\ Plain(idx)
        /\ \A v \in 1 .. n : CarriesBlocks(idx, vols[name(v)], layout[v], first(v))
    <3>1. \A v : NameOf(v) = name(v) /\ FirstExp(v) = first(v)
      BY <2>2 DEF NameOf, FirstExp
    <3>2. DOMAIN vols = {name(v) : v \in 1 .. n}
      BY <2>1, <2>2, <2>3, <3>1
    <3>3. ASSUME NEW v \in 1 .. n PROVE CarriesBlocks(idx, vols[name(v)], layout[v], first(v))
      <4>1. v \in DOMAIN sizes /\ NameOf(v) \in DOMAIN volumes
        BY <2>1, <2>2, <2>3
      <4>2. CarriesBlocks(index, volumes[NameOf(v)], sizes[v], FirstExp(v))
        BY <4>1 DEF WrittenInv
      <4> QED BY <4>2, <3>1, <2>2
    <3> QED BY <3>2, <3>3, <2>2 DEF WrittenInv
  <2>5. \A u, v \in 1 .. n : u # v => \/ first(u) + layout[u] <= first(v)
                                      \/ first(v) + layout[v] <= first(u)
    BY <2>3, NamesDiffer
  <2> HIDE DEF n, first
  <2>6. \A u, v \in 1 .. n : name(u) = name(v) => u = v
    <3> SUFFICES ASSUME NEW u \in 1 .. n, NEW v \in 1 .. n, u # v PROVE first(u) # first(v)
      OBVIOUS
    <3>1. first(u) \in Nat /\ first(v) \in Nat /\ layout[u] \in Nat \ {0} /\ layout[v] \in Nat \ {0}
      BY <2>3
    <3> QED BY <3>1, <2>5
  <2>7. Cardinality(DOMAIN vols) = n
    <3> DEFINE f == [v \in 1 .. n |-> name(v)]
    <3>1. IsFiniteSet(1 .. n) /\ Cardinality(1 .. n) = n
      BY <2>3, FS_Interval
    <3>2. DOMAIN f = 1 .. n /\ \A u, v \in 1 .. n : f[u] = f[v] => u = v
      BY <2>6
    <3>3. DOMAIN vols = {f[v] : v \in 1 .. n}
      BY <2>4
    <3> HIDE DEF f
    <3>4. PICK S, g : S = 1 .. n /\ g = f
      OBVIOUS
    <3>5. IsFiniteSet(S) /\ DOMAIN g = S /\ \A u, v \in S : g[u] = g[v] => u = v
      BY <3>1, <3>2, <3>4
    <3>6. Cardinality({g[v] : v \in S}) = Cardinality(S)
      BY <3>5, InjectiveImage
    <3> QED BY <3>1, <3>3, <3>4, <3>6
  <2>8. ASSUME NEW e \in 0 .. Recovery - 1
        PROVE  \E v \in DOMAIN vols :
                 /\ Cardinality({i \in DOMAIN vols[v] :
                       vols[v][i].type = "RecvSlic" /\ vols[v][i].body[1][1] = e}) = 1
                 /\ \A u \in DOMAIN vols \ {v} :
                      \A p \in OfType(vols[u], "RecvSlic") : p.body[1][1] # e
    <3>1. e \in Nat /\ e < BlocksBefore(layout, n + 1)
      BY <2>3, EncodeAssumption
    <3>2. PICK v \in 1 .. n : first(v) <= e /\ e < first(v) + layout[v]
      BY <3>1, <2>3, BlockHasVolume DEF n, first
    <3>3. /\ first(v) \in Nat /\ layout[v] \in Nat
          /\ CarriesBlocks(idx, vols[name(v)], layout[v], first(v))
      BY <2>3, <2>4
    <3>4. Cardinality({i \in DOMAIN vols[name(v)] :
             vols[name(v)][i].type = "RecvSlic" /\ vols[name(v)][i].body[1][1] = e}) = 1
      <4>1. PICK file : file = vols[name(v)]
        OBVIOUS
      <4> QED BY <4>1, <3>1, <3>2, <3>3, <2>4, OnePacketEach
    <3>5. ASSUME NEW u \in DOMAIN vols \ {name(v)}, NEW p \in OfType(vols[u], "RecvSlic")
          PROVE  p.body[1][1] # e
      <4>1. PICK w \in 1 .. n : u = name(w)
        BY <2>4
      <4>2. w # v
        BY <4>1
      <4>3. /\ first(w) \in Nat /\ layout[w] \in Nat
            /\ CarriesBlocks(idx, vols[u], layout[w], first(w))
        BY <2>3, <2>4, <4>1
      <4>4. PICK k \in Nat : p.body[1][1] = k /\ first(w) <= k /\ k < first(w) + layout[w]
        BY <2>4, <4>3, OnlyItsOwn
      <4>5. first(w) + layout[w] <= first(v) \/ first(v) + layout[v] <= first(w)
        BY <2>5, <4>2
      <4> QED BY <3>1, <3>2, <3>3, <4>3, <4>4, <4>5
    <3>6. name(v) \in DOMAIN vols
      BY <2>4
    <3> QED BY <3>4, <3>5, <3>6
  <2> QED BY <2>2, <2>7, <2>8 DEF n
<1> QED BY <1>1, WrittenAlways, PTL

-----------------------------------------------------------------------------
(* What a packet is: its length, and the fields of its body                *)

\* The running sum that Bytes is the last entry of.
LEMMA BytesAre ==
  ASSUME NEW n \in Nat, NEW body, Len(body) = n
  PROVE  \E sum : /\ sum[1] = 0
                  /\ \A i \in 1 .. n : sum[i + 1] = sum[i] + body[i][2]
                  /\ Bytes(body) = sum[n + 1]
<1> DEFINE g == [i \in 1 .. n |-> body[i][2]]
           sum == CHOOSE f : f = [i \in 1 .. n + 1 |-> IF i = 1 THEN 0 ELSE f[i - 1] + body[i - 1][2]]
<1>1. PICK f : f = [i \in 1 .. n + 1 |-> IF i = 1 THEN 0 ELSE f[i - 1] + g[i - 1]]
  BY RunningSumsExist
<1>2. f = [i \in 1 .. n + 1 |-> IF i = 1 THEN 0 ELSE f[i - 1] + body[i - 1][2]]
  <2>1. \A i \in 1 .. n + 1 : i # 1 => g[i - 1] = body[i - 1][2]
    OBVIOUS
  <2> HIDE DEF g
  <2> QED BY <1>1, <2>1
<1>3. sum = [i \in 1 .. n + 1 |-> IF i = 1 THEN 0 ELSE sum[i - 1] + body[i - 1][2]]
  BY <1>2
<1>4. Bytes(body) = sum[n + 1]
  BY DEF Bytes
<1> HIDE DEF sum
<1>5. sum[1] = 0
  BY <1>3
<1>6. ASSUME NEW i \in 1 .. n PROVE sum[i + 1] = sum[i] + body[i][2]
  <2>1. i + 1 \in 1 .. n + 1 /\ i + 1 # 1 /\ (i + 1) - 1 = i
    OBVIOUS
  <2> QED BY <1>3, <2>1
<1> QED BY <1>4, <1>5, <1>6

\* A set of numbers with 0 that is closed under addition has the sum of the
\* lengths when it has the lengths.
LEMMA BytesIn ==
  ASSUME NEW S, 0 \in S, \A x, y \in S : x + y \in S,
         NEW n \in Nat, NEW body, Len(body) = n, \A i \in 1 .. n : body[i][2] \in S
  PROVE  Bytes(body) \in S
<1>1. PICK sum : /\ sum[1] = 0
                 /\ \A i \in 1 .. n : sum[i + 1] = sum[i] + body[i][2]
                 /\ Bytes(body) = sum[n + 1]
  BY BytesAre
<1> DEFINE T == {k \in Nat : k <= n => sum[k + 1] \in S}
<1>2. 0 \in T
  BY <1>1
<1>3. ASSUME NEW k \in Nat, k \in T PROVE k + 1 \in T
  <2> SUFFICES ASSUME k + 1 <= n PROVE sum[(k + 1) + 1] \in S
    OBVIOUS
  <2>1. k + 1 \in 1 .. n /\ sum[k + 1] \in S
    BY <1>3
  <2>2. sum[(k + 1) + 1] = sum[k + 1] + body[k + 1][2] /\ body[k + 1][2] \in S
    BY <1>1, <2>1
  <2> QED BY <2>1, <2>2
<1>4. Nat \subseteq T
  <2> HIDE DEF T
  <2> QED BY <1>2, <1>3, NatInSet
<1>5. sum[n + 1] \in S
  BY <1>4
<1> QED BY <1>1, <1>5

\* A body: fields, each with a length.
Fields(body) ==
  /\ \E S : body \in Seq(S)
  /\ \A i \in 1 .. Len(body) : body[i][2] \in Nat

\* The bytes of one are a number.
LEMMA BytesAreNat ==
  ASSUME NEW body, Fields(body)
  PROVE  Bytes(body) \in Nat /\ Len(body) \in Nat
<1>1. Len(body) \in Nat
  BY DEF Fields
<1>2. \A x, y \in Nat : x + y \in Nat
  OBVIOUS
<1> DEFINE S == Nat
<1>3. 0 \in S /\ \A x, y \in S : x + y \in S
  BY <1>2
<1>4. \A i \in 1 .. Len(body) : body[i][2] \in S
  BY DEF Fields
<1> HIDE DEF S
<1>5. Bytes(body) \in S
  BY <1>1, <1>3, <1>4, BytesIn
<1> QED BY <1>1, <1>5 DEF S

\* A field more adds its length.
LEMMA BytesMore ==
  ASSUME NEW body, Fields(body), NEW x
  PROVE  Bytes(body \o <<x>>) = Bytes(body) + x[2]
<1> DEFINE n == Len(body)
           more == body \o <<x>>
<1>1. PICK S : body \in Seq(S)
  BY DEF Fields
<1>2. n \in Nat /\ Len(more) = n + 1 /\ (\A i \in 1 .. n : more[i] = body[i]) /\ more[n + 1] = x
  BY <1>1
<1> HIDE DEF n, more
<1>3. PICK a : /\ a[1] = 0
               /\ \A i \in 1 .. n : a[i + 1] = a[i] + body[i][2]
               /\ Bytes(body) = a[n + 1]
  BY <1>2, BytesAre DEF n
<1>4. PICK b : /\ b[1] = 0
               /\ \A i \in 1 .. n + 1 : b[i + 1] = b[i] + more[i][2]
               /\ Bytes(more) = b[(n + 1) + 1]
  <2>1. n + 1 \in Nat
    BY <1>2
  <2> QED BY <2>1, <1>2, BytesAre
<1> DEFINE T == {k \in Nat : k <= n => a[k + 1] = b[k + 1]}
<1>5. 0 \in T
  BY <1>3, <1>4
<1>6. ASSUME NEW k \in Nat, k \in T PROVE k + 1 \in T
  <2> SUFFICES ASSUME k + 1 <= n PROVE a[(k + 1) + 1] = b[(k + 1) + 1]
    OBVIOUS
  <2>1. k + 1 \in 1 .. n /\ k + 1 \in 1 .. n + 1 /\ a[k + 1] = b[k + 1]
    BY <1>2, <1>6
  <2>2. more[k + 1][2] = body[k + 1][2]
    BY <1>2, <2>1
  <2> QED BY <1>3, <1>4, <2>1, <2>2
<1>7. Nat \subseteq T
  <2> HIDE DEF T
  <2> QED BY <1>5, <1>6, NatInSet
<1>8. a[n + 1] = b[n + 1]
  BY <1>2, <1>7
<1>9. b[(n + 1) + 1] = b[n + 1] + more[n + 1][2]
  <2>1. n + 1 \in 1 .. n + 1
    BY <1>2
  <2> QED BY <2>1, <1>4
<1>10. Bytes(more) = Bytes(body) + x[2]
  BY <1>2, <1>3, <1>4, <1>8, <1>9
<1> QED BY <1>10 DEF more

Fours == {4 * k : k \in Nat}

\* Sums of multiples of 4.
LEMMA FoursAdd ==
  /\ 0 \in Fours
  /\ \A x, y \in Fours : x + y \in Fours
  /\ \A x \in Fours : x \in Nat /\ (HEADER_SIZE + x) % 4 = 0
<1>1. 0 \in Fours
  <2>1. 0 = 4 * 0 /\ 0 \in Nat
    OBVIOUS
  <2> QED BY <2>1 DEF Fours
<1>2. ASSUME NEW x \in Fours, NEW y \in Fours PROVE x + y \in Fours
  <2>1. PICK k \in Nat : x = 4 * k
    BY DEF Fours
  <2>2. PICK m \in Nat : y = 4 * m
    BY DEF Fours
  <2>3. x + y = 4 * (k + m) /\ k + m \in Nat
    BY <2>1, <2>2
  <2> QED BY <2>3 DEF Fours
<1>3. ASSUME NEW x \in Fours PROVE x \in Nat /\ (HEADER_SIZE + x) % 4 = 0
  <2>1. PICK k \in Nat : x = 4 * k
    BY DEF Fours
  <2>2. x \in Nat /\ (64 + x) % 4 = 0
    BY <2>1
  <2> QED BY <2>2 DEF HEADER_SIZE
<1> QED BY <1>1, <1>2, <1>3

\* What Pad adds makes the bytes a multiple of 4 and leaves the fields alone.
LEMMA PaddedBody ==
  ASSUME NEW body, Fields(body)
  PROVE  /\ Bytes(Pad(body)) \in Fours
         /\ \A i \in 1 .. Len(body) : Pad(body)[i] = body[i]
<1> DEFINE b == Bytes(body)
           x == <<"zeros", RoundUp4(b) - b>>
<1>1. b \in Nat
  BY BytesAreNat
<1>2. Pad(body) = body \o <<x>>
  BY DEF Pad
<1>3. x[2] = RoundUp4(b) - b
  OBVIOUS
<1>4. Bytes(Pad(body)) = b + x[2]
  BY <1>2, BytesMore
<1> HIDE DEF b, x
<1>5. RoundUp4(b) \in Fours
  <2>1. (b + 3) \div 4 \in Nat
    BY <1>1
  <2>2. ((b + 3) \div 4) * 4 = 4 * ((b + 3) \div 4)
    BY <2>1
  <2> QED BY <2>1, <2>2 DEF RoundUp4, Fours
<1>6. Bytes(Pad(body)) = RoundUp4(b)
  <2>1. RoundUp4(b) \in Nat
    BY <1>5, FoursAdd
  <2> QED BY <1>1, <1>3, <1>4, <2>1
<1>7. PICK S : body \in Seq(S)
  BY DEF Fields
<1>8. \A i \in 1 .. Len(body) : Pad(body)[i] = body[i]
  BY <1>2, <1>7
<1> QED BY <1>5, <1>6, <1>8

\* A packet of these fields is framed as a reader wants it when their bytes
\* are a multiple of 4.
LEMMA BuiltIsSound ==
  ASSUME NEW setId, NEW type, NEW body, Bytes(body) \in Fours
  PROVE  /\ Sound(BuildPacket(setId, type, body), setId)
         /\ BuildPacket(setId, type, body).type = type
         /\ BuildPacket(setId, type, body).body = body
         /\ BuildPacket(setId, type, body).setId = setId
<1> DEFINE p == BuildPacket(setId, type, body)
<1>1. /\ p.len = HEADER_SIZE + Bytes(body) /\ p.hash = Md5(<<setId, type, body>>)
      /\ p.setId = setId /\ p.type = type /\ p.body = body
  BY DEF BuildPacket
<1> HIDE DEF p
<1>2. (HEADER_SIZE + Bytes(body)) % 4 = 0
  BY FoursAdd
<1>3. Sound(p, setId)
  BY <1>1, <1>2 DEF Sound
<1> QED BY <1>1, <1>3 DEF p

\* What there is to say of a main packet: its set id is the hash of its body,
\* which is the slice size, the number of files and their ids as they are
\* sorted.
IsMain(p, size, ids, n) ==
  /\ p.type = "Main" /\ p.setId = SetIdHash(size, ids)
  /\ p.setId = Md5(p.body) /\ Sound(p, p.setId)
  /\ p.body[1][1] = size /\ p.body[2][1] = n
  /\ \A i \in 1 .. n : p.body[i + 2][1] = Sorted(ids)[i]

\* It is so of the packet of build_main_packet.
LEMMA MainIs ==
  ASSUME NEW n \in Nat, NEW T, NEW ids \in [1 .. n -> T], NEW size
  PROVE  IsMain(BuildMainPacket(size, ids), size, ids, n)
<1> DEFINE body == MainBody(size, ids)
           front == << <<size, 8>>, <<n, 4>> >>
           back == [i \in 1 .. n |-> <<Sorted(ids)[i], 16>>]
           p == BuildMainPacket(size, ids)
<1>1. Len(ids) = n /\ DOMAIN ids = 1 .. n
  OBVIOUS
<1>2. body = front \o back
  BY <1>1 DEF MainBody
<1>3. Len(front) = 2 /\ front[1] = <<size, 8>> /\ front[2] = <<n, 4>>
  OBVIOUS
<1> DEFINE S == {<<size, 8>>, <<n, 4>>} \cup {<<Sorted(ids)[i], 16>> : i \in 1 .. n}
<1>4. front \in Seq(S)
  <2>1. <<size, 8>> \in S /\ <<n, 4>> \in S
    OBVIOUS
  <2> HIDE DEF S
  <2> QED BY <2>1
<1>5. back \in Seq(S) /\ Len(back) = n /\ \A i \in 1 .. n : back[i] = <<Sorted(ids)[i], 16>>
  <2>1. \A i \in 1 .. n : <<Sorted(ids)[i], 16>> \in S
    OBVIOUS
  <2> HIDE DEF S
  <2> QED BY <2>1
<1> HIDE DEF S, front, back, body
<1>6. /\ Len(body) = 2 + n /\ body[1] = front[1] /\ body[2] = front[2]
      /\ \A i \in 1 .. n : body[i + 2] = back[i]
  <2>1. /\ Len(body) = Len(front) + Len(back)
        /\ \A i \in 1 .. Len(front) : body[i] = front[i]
        /\ \A i \in 1 .. Len(back) : body[Len(front) + i] = back[i]
    <3>j. \A u, v \in Seq(S) :
            /\ u \o v \in Seq(S) /\ Len(u \o v) = Len(u) + Len(v)
            /\ \A i \in 1 .. Len(u) : (u \o v)[i] = u[i]
            /\ \A i \in 1 .. Len(v) : (u \o v)[Len(u) + i] = v[i]
      BY Concatenated
    <3> QED BY <1>2, <1>4, <1>5, <3>j
  <2>2. 1 \in 1 .. 2 /\ 2 \in 1 .. 2 /\ \A i \in 1 .. n : 2 + i = i + 2
    OBVIOUS
  <2> QED BY <2>1, <2>2, <1>3, <1>5
<1>7. Bytes(body) \in Fours
  <2>1. ASSUME NEW i \in 1 .. 2 + n PROVE body[i][2] \in Fours
    <3>1. CASE i = 1
      <4>1. body[i][2] = 4 * 2
        BY <3>1, <1>3, <1>6
      <4> QED BY <4>1 DEF Fours
    <3>2. CASE i = 2
      <4>1. body[i][2] = 4 * 1
        BY <3>2, <1>3, <1>6
      <4> QED BY <4>1 DEF Fours
    <3>3. CASE i \notin {1, 2}
      <4>1. i - 2 \in 1 .. n /\ (i - 2) + 2 = i
        BY <3>3
      <4>2. body[i] = <<Sorted(ids)[i - 2], 16>>
        BY <4>1, <1>5, <1>6
      <4>3. body[i][2] = 4 * 4
        BY <4>2
      <4> QED BY <4>3 DEF Fours
    <3> QED BY <3>1, <3>2, <3>3
  <2>2. 2 + n \in Nat
    OBVIOUS
  <2> QED BY <2>1, <2>2, <1>6, FoursAdd, BytesIn
<1>8. p = BuildPacket(SetIdHash(size, ids), "Main", body)
  BY DEF BuildMainPacket, body
<1>9. SetIdHash(size, ids) = Md5(body)
  BY DEF SetIdHash, body
<1> HIDE DEF p
<1>10. p.type = "Main" /\ p.setId = SetIdHash(size, ids) /\ p.body = body /\ Sound(p, SetIdHash(size, ids))
  BY <1>7, <1>8, BuiltIsSound
<1>11. /\ p.body[1][1] = size /\ p.body[2][1] = n
       /\ \A i \in 1 .. n : p.body[i + 2][1] = Sorted(ids)[i]
  BY <1>3, <1>5, <1>6, <1>10
<1>12. IsMain(p, size, ids, n)
  BY <1>9, <1>10, <1>11 DEF IsMain
<1> QED BY <1>12 DEF p

\* The description of a file says its id, its hash and its length.
LEMMA DescIs ==
  ASSUME NEW setId, NEW src, Len(src.name) \in Nat
  PROVE  LET p == BuildFileDescPacket(setId, src)
         IN  /\ p.type = "FileDesc" /\ Sound(p, setId)
             /\ p.body[1][1] = src.file_id /\ p.body[2][1] = src.hash_full
             /\ p.body[4][1] = src.length
<1> DEFINE body == << <<src.file_id, 16>>, <<src.hash_full, 16>>, <<src.hash16k, 16>>,
                      <<src.length, 8>>, <<src.name, Len(src.name)>> >>
           p == BuildFileDescPacket(setId, src)
<1>1. p = BuildPacket(setId, "FileDesc", Pad(body))
  BY DEF BuildFileDescPacket
<1>2. /\ Len(body) = 5
      /\ body[1] = <<src.file_id, 16>> /\ body[2] = <<src.hash_full, 16>>
      /\ body[3] = <<src.hash16k, 16>> /\ body[4] = <<src.length, 8>>
      /\ body[5] = <<src.name, Len(src.name)>>
  OBVIOUS
<1>3. Fields(body)
  <2>1. ASSUME NEW i \in 1 .. Len(body) PROVE body[i][2] \in Nat
    <3>1. i \in {1, 2, 3, 4, 5}
      BY <1>2
    <3>2. body[1][2] \in Nat /\ body[2][2] \in Nat /\ body[3][2] \in Nat /\ body[4][2] \in Nat
      BY <1>2
    <3>3. body[5][2] \in Nat
      BY <1>2
    <3> HIDE DEF body
    <3> QED BY <3>1, <3>2, <3>3
  <2>2. \E S : body \in Seq(S)
    <3> DEFINE S == {<<src.file_id, 16>>, <<src.hash_full, 16>>, <<src.hash16k, 16>>,
                     <<src.length, 8>>, <<src.name, Len(src.name)>>}
    <3>1. /\ <<src.file_id, 16>> \in S /\ <<src.hash_full, 16>> \in S
          /\ <<src.hash16k, 16>> \in S /\ <<src.length, 8>> \in S
          /\ <<src.name, Len(src.name)>> \in S
      OBVIOUS
    <3> HIDE DEF S
    <3>2. body \in Seq(S)
      BY <3>1
    <3> QED BY <3>2
  <2> HIDE DEF body
  <2> QED BY <2>1, <2>2 DEF Fields
<1> HIDE DEF body, p
<1>4. Bytes(Pad(body)) \in Fours /\ \A i \in 1 .. 5 : Pad(body)[i] = body[i]
  BY <1>2, <1>3, PaddedBody
<1>5. p.type = "FileDesc" /\ Sound(p, setId) /\ p.body = Pad(body)
  BY <1>1, <1>4, BuiltIsSound
<1>6. 1 \in 1 .. 5 /\ 2 \in 1 .. 5 /\ 4 \in 1 .. 5
  OBVIOUS
<1>7. p.body[1] = body[1] /\ p.body[2] = body[2] /\ p.body[4] = body[4]
  BY <1>4, <1>5, <1>6
<1>8. /\ p.body[1][1] = src.file_id /\ p.body[2][1] = src.hash_full
      /\ p.body[4][1] = src.length
  BY <1>2, <1>7
<1> QED BY <1>5, <1>8 DEF p

\* The list of checksums names the file and has them in order.
LEMMA VerifyIs ==
  ASSUME NEW setId, NEW src, NEW n \in Nat, DOMAIN src.slice_checksums = 1 .. n
  PROVE  LET p == BuildFileVerifyPacket(setId, src)
         IN  /\ p.type = "IFSC" /\ Sound(p, setId)
             /\ p.body[1][1] = src.file_id
             /\ Tail(p.body) = [s \in 1 .. n |-> <<src.slice_checksums[s], 20>>]
<1> DEFINE front == << <<src.file_id, 16>> >>
           back == [s \in 1 .. n |-> <<src.slice_checksums[s], 20>>]
           body == front \o back
           p == BuildFileVerifyPacket(setId, src)
           S == {<<src.file_id, 16>>} \cup {<<src.slice_checksums[s], 20>> : s \in 1 .. n}
<1>1. p = BuildPacket(setId, "IFSC", body)
  BY DEF BuildFileVerifyPacket
<1>2. front \in Seq(S) /\ Len(front) = 1 /\ front[1] = <<src.file_id, 16>>
  <2>1. <<src.file_id, 16>> \in S
    OBVIOUS
  <2> HIDE DEF S
  <2> QED BY <2>1
<1>3. /\ back \in Seq(S) /\ Len(back) = n
      /\ \A s \in 1 .. n : back[s] = <<src.slice_checksums[s], 20>>
  <2>1. \A s \in 1 .. n : <<src.slice_checksums[s], 20>> \in S
    OBVIOUS
  <2> HIDE DEF S
  <2> QED BY <2>1
<1> HIDE DEF S, front
<1>4. /\ body \in Seq(S) /\ Len(body) = 1 + n /\ body[1] = front[1]
      /\ \A i \in 1 .. n : body[1 + i] = back[i]
  <2> HIDE DEF back
  <2>1. /\ body \in Seq(S) /\ Len(body) = Len(front) + Len(back)
        /\ \A i \in 1 .. Len(front) : body[i] = front[i]
        /\ \A i \in 1 .. Len(back) : body[Len(front) + i] = back[i]
    <3>j. \A u, v \in Seq(S) :
            /\ u \o v \in Seq(S) /\ Len(u \o v) = Len(u) + Len(v)
            /\ \A i \in 1 .. Len(u) : (u \o v)[i] = u[i]
            /\ \A i \in 1 .. Len(v) : (u \o v)[Len(u) + i] = v[i]
      BY Concatenated
    <3> QED BY <1>2, <1>3, <3>j
  <2> HIDE DEF body
  <2> QED BY <2>1, <1>2, <1>3
<1> HIDE DEF body
<1>5. Tail(body) = back
  <2>1. Tail(body) = [i \in 1 .. n |-> body[i + 1]]
    <3>1. body # <<>> /\ Len(body) - 1 = n /\ Len(body) # 0
      BY <1>4
    <3>2. Tail(body) \in Seq(S) /\ Len(Tail(body)) = n
      BY <3>1, <1>4
    <3>3. \A i \in 1 .. n : Tail(body)[i] = body[i + 1]
      BY <3>1, <1>4
    <3>4. \A t \in Seq(S) : t = [i \in 1 .. Len(t) |-> t[i]]
      OBVIOUS
    <3>5. Tail(body) = [i \in 1 .. n |-> Tail(body)[i]]
      BY <3>2, <3>4
    <3> QED BY <3>3, <3>5
  <2>2. \A i \in 1 .. n : body[i + 1] = <<src.slice_checksums[i], 20>>
    <3>1. \A i \in 1 .. n : i + 1 = 1 + i
      OBVIOUS
    <3> HIDE DEF back
    <3> QED BY <3>1, <1>3, <1>4
  <2> QED BY <2>1, <2>2
<1>6. Bytes(body) \in Fours
  <2>1. ASSUME NEW i \in 1 .. 1 + n PROVE body[i][2] \in Fours
    <3>1. CASE i = 1
      <4>1. body[i][2] = 4 * 4
        BY <3>1, <1>2, <1>4
      <4> QED BY <4>1 DEF Fours
    <3>2. CASE i # 1
      <4>1. i - 1 \in 1 .. n /\ 1 + (i - 1) = i
        BY <3>2
      <4>2. body[i] = <<src.slice_checksums[i - 1], 20>>
        BY <4>1, <1>3, <1>4
      <4>3. body[i][2] = 4 * 5
        BY <4>2
      <4> QED BY <4>3 DEF Fours
    <3> QED BY <3>1, <3>2
  <2>2. 1 + n \in Nat
    OBVIOUS
  <2> QED BY <2>1, <2>2, <1>4, FoursAdd, BytesIn
<1> HIDE DEF p, back
<1>7. p.type = "IFSC" /\ Sound(p, setId) /\ p.body = body
  BY <1>1, <1>6, BuiltIsSound
<1>8. p.body[1][1] = src.file_id
  BY <1>2, <1>4, <1>7
<1> QED BY <1>5, <1>7, <1>8 DEF p, back

\* Bodies of one field and of two.
LEMMA FieldsOf ==
  ASSUME NEW x, NEW y, x[2] \in Nat, y[2] \in Nat
  PROVE  Fields(<<x>>) /\ Fields(<<x, y>>)
<1> DEFINE one == <<x>>
           two == <<x, y>>
           S == {x, y}
<1>1. Len(one) = 1 /\ one[1] = x /\ Len(two) = 2 /\ two[1] = x /\ two[2] = y
  OBVIOUS
<1>2. x \in S /\ y \in S
  OBVIOUS
<1> HIDE DEF S
<1>3. one \in Seq(S) /\ two \in Seq(S)
  BY <1>2
<1> HIDE DEF one, two
<1>4. (\A i \in 1 .. Len(one) : one[i][2] \in Nat) /\ (\A i \in 1 .. Len(two) : two[i][2] \in Nat)
  BY <1>1
<1>5. Fields(one) /\ Fields(two)
  BY <1>3, <1>4 DEF Fields
<1> QED BY <1>5 DEF one, two

\* The creator's packet.
LEMMA CreatorIs ==
  ASSUME NEW setId
  PROVE  BuildCreatorPacket(setId).type = "Creator" /\ Sound(BuildCreatorPacket(setId), setId)
<1> DEFINE x == <<"Created by par2rust v0.1.0", 26>>
<1>1. x[2] \in Nat
  OBVIOUS
<1>2. BuildCreatorPacket(setId) = BuildPacket(setId, "Creator", Pad(<<x>>))
  BY DEF BuildCreatorPacket
<1> HIDE DEF x
<1>3. Fields(<<x>>)
  BY <1>1, FieldsOf
<1>4. Bytes(Pad(<<x>>)) \in Fours
  BY <1>3, PaddedBody
<1> QED BY <1>2, <1>4, BuiltIsSound

\* An ASCII comment packet has nothing but ASCII in it, whatever the comment.
LEMMA AsciiIs ==
  ASSUME NEW setId, NEW text \in Seq(Nat)
  PROVE  LET p == BuildAsciiCommentPacket(setId, text)
         IN  p.type = "CommASCI" /\ Sound(p, setId) /\ IsAscii(p.body[1][1])
<1> DEFINE x == <<Transliterated(text), Len(text)>>
           p == BuildAsciiCommentPacket(setId, text)
<1>1. x[2] \in Nat /\ x[1] = Transliterated(text)
  OBVIOUS
<1>2. p = BuildPacket(setId, "CommASCI", Pad(<<x>>))
  BY DEF BuildAsciiCommentPacket
<1> HIDE DEF x, p
<1>3. Fields(<<x>>) /\ Len(<<x>>) = 1 /\ <<x>>[1] = x
  BY <1>1, FieldsOf
<1>4. Bytes(Pad(<<x>>)) \in Fours /\ Pad(<<x>>)[1] = x
  <2>1. 1 \in 1 .. Len(<<x>>)
    BY <1>3
  <2> QED BY <2>1, <1>3, PaddedBody
<1>5. p.type = "CommASCI" /\ Sound(p, setId) /\ p.body = Pad(<<x>>)
  BY <1>2, <1>4, BuiltIsSound
<1>6. IsAscii(Transliterated(text))
  BY DEF IsAscii, Transliterated, QUESTION_MARK
<1>7. p.body[1][1] = Transliterated(text)
  BY <1>1, <1>4, <1>5
<1> QED BY <1>5, <1>6, <1>7 DEF p

\* A Unicode comment packet begins with the hash it is given.
LEMMA UnicodeIs ==
  ASSUME NEW setId, NEW text \in Seq(Nat), NEW link
  PROVE  LET p == BuildUnicodeCommentPacket(setId, text, link)
         IN  p.type = "CommUni" /\ Sound(p, setId) /\ p.body[1][1] = link
<1> DEFINE x == <<link, 16>>
           y == <<Utf16(text), 2 * Len(Utf16(text))>>
           p == BuildUnicodeCommentPacket(setId, text, link)
<1>1. Len(Utf16(text)) \in Nat
  <2> DEFINE units == [i \in DOMAIN text |->
                         IF text[i] < 65536 THEN <<text[i]>>
                         ELSE LET c == text[i] - 65536
                              IN  <<55296 + c \div 1024, 56320 + (c % 1024)>>]
  <2>1. DOMAIN text = 1 .. Len(text) /\ Len(text) \in Nat /\ \A i \in DOMAIN text : text[i] \in Nat
    OBVIOUS
  <2>2. ASSUME NEW i \in DOMAIN text PROVE units[i] \in Seq(Nat)
    <3>1. CASE text[i] < 65536
      BY <2>1, <3>1
    <3>2. CASE ~(text[i] < 65536)
      <4> DEFINE c == text[i] - 65536
      <4>1. c \in Nat
        BY <2>1, <3>2
      <4>2. units[i] = <<55296 + c \div 1024, 56320 + (c % 1024)>>
        BY <3>2
      <4> HIDE DEF c
      <4>3. c \div 1024 \in Nat /\ c % 1024 \in Nat
        BY <4>1
      <4>4. 55296 + c \div 1024 \in Nat /\ 56320 + (c % 1024) \in Nat
        BY <4>3
      <4> QED BY <4>2, <4>4
    <3> QED BY <3>1, <3>2
  <2>3. units \in [1 .. Len(text) -> Seq(Nat)]
    BY <2>1, <2>2
  <2>4. Utf16(text) = FlattenSeq(units)
    BY DEF Utf16
  <2> HIDE DEF units
  <2>5. Utf16(text) \in Seq(Nat)
    BY <2>1, <2>3, <2>4, FlattenedIsSeq
  <2> QED BY <2>5
<1>2. x[2] \in Nat /\ x[1] = link /\ y[2] \in Nat
  <2> DEFINE m == Len(Utf16(text))
  <2>1. m \in Nat /\ y[2] = 2 * m
    BY <1>1
  <2> HIDE DEF m
  <2>2. 2 * m \in Nat
    BY <2>1
  <2> QED BY <2>1, <2>2
<1>3. p = BuildPacket(setId, "CommUni", Pad(<<x, y>>))
  BY DEF BuildUnicodeCommentPacket
<1> HIDE DEF x, y, p
<1>4. Fields(<<x, y>>) /\ Len(<<x, y>>) = 2 /\ <<x, y>>[1] = x
  BY <1>2, FieldsOf
<1>5. Bytes(Pad(<<x, y>>)) \in Fours /\ Pad(<<x, y>>)[1] = x
  <2>1. 1 \in 1 .. Len(<<x, y>>)
    BY <1>4
  <2> QED BY <2>1, <1>4, PaddedBody
<1>6. p.type = "CommUni" /\ Sound(p, setId) /\ p.body = Pad(<<x, y>>)
  BY <1>3, <1>5, BuiltIsSound
<1>7. p.body[1][1] = link
  BY <1>2, <1>5, <1>6
<1> QED BY <1>6, <1>7 DEF p

\* A recovery packet carries its exponent and the words of its buffer.
LEMMA RecoveryIs ==
  ASSUME NEW setId, NEW e, NEW words, DOMAIN words = Words
  PROVE  LET p == BuildRecoveryPacket(setId, e, words)
         IN  /\ p.type = "RecvSlic" /\ Sound(p, setId)
             /\ p.body[1][1] = e /\ p.body[2][1] = words
<1> DEFINE x == <<e, 4>>
           y == <<words, 4 * Cardinality(DOMAIN words)>>
           p == BuildRecoveryPacket(setId, e, words)
<1>1. Cardinality(DOMAIN words) \in Nat
  <2>1. SliceWords \in Nat \ {0}
    BY EncodeAssumption
  <2>2. 0 \in Int /\ SliceWords - 1 \in Int
    BY <2>1
  <2>3. IsFiniteSet(0 .. SliceWords - 1)
    BY <2>2, FS_Interval
  <2> QED BY <2>3, FS_CardinalityType DEF Words
<1>2. x[2] \in Fours /\ y[2] \in Fours
  <2>1. x[2] = 4 * 1
    OBVIOUS
  <2>2. y[2] = 4 * Cardinality(DOMAIN words)
    OBVIOUS
  <2> QED BY <1>1, <2>1, <2>2 DEF Fours
<1>3. x[1] = e /\ y[1] = words
  OBVIOUS
<1>4. p = BuildPacket(setId, "RecvSlic", <<x, y>>)
  BY DEF BuildRecoveryPacket
<1> HIDE DEF x, y, p
<1>5. Len(<<x, y>>) = 2 /\ <<x, y>>[1] = x /\ <<x, y>>[2] = y
  OBVIOUS
<1> DEFINE body == <<x, y>>
<1>6. Bytes(body) \in Fours
  <2>1. \A i \in 1 .. 2 : i = 1 \/ i = 2
    OBVIOUS
  <2>2. Len(body) = 2 /\ body[1][2] \in Fours /\ body[2][2] \in Fours
    BY <1>2, <1>5
  <2> HIDE DEF body
  <2>3. \A i \in 1 .. 2 : body[i][2] \in Fours
    BY <2>1, <2>2
  <2> QED BY <2>2, <2>3, FoursAdd, BytesIn
<1>7. p.type = "RecvSlic" /\ Sound(p, setId) /\ p.body = <<x, y>>
  BY <1>4, <1>6, BuiltIsSound
<1>8. p.body[1][1] = e /\ p.body[2][1] = words
  BY <1>3, <1>5, <1>7
<1> QED BY <1>7, <1>8 DEF p

-----------------------------------------------------------------------------
(* The packets of a file, as a set                                         *)

IsSeq(s) == \E S : s \in Seq(S)

\* Two sequences, one after the other, have the entries of both.
LEMMA RangeJoin ==
  ASSUME NEW p, NEW q, IsSeq(p), IsSeq(q)
  PROVE  IsSeq(p \o q) /\ Range(p \o q) = Range(p) \cup Range(q)
<1>1. PICK S : p \in Seq(S)
  BY DEF IsSeq
<1>2. PICK T : q \in Seq(T)
  BY DEF IsSeq
<1> DEFINE U == S \cup T
           r == p \o q
<1>3. p \in Seq(U) /\ q \in Seq(U)
  BY <1>1, <1>2
<1> HIDE DEF U
<1>4. /\ r \in Seq(U) /\ Len(p) \in Nat /\ Len(q) \in Nat /\ Len(r) = Len(p) + Len(q)
      /\ \A i \in 1 .. Len(p) : r[i] = p[i]
      /\ \A i \in 1 .. Len(q) : r[Len(p) + i] = q[i]
  <2>1. \A a, b \in Seq(U) :
          /\ a \o b \in Seq(U) /\ Len(a) \in Nat /\ Len(b) \in Nat
          /\ Len(a \o b) = Len(a) + Len(b)
          /\ \A i \in 1 .. Len(a) : (a \o b)[i] = a[i]
          /\ \A i \in 1 .. Len(b) : (a \o b)[Len(a) + i] = b[i]
    BY Concatenated
  <2> QED BY <1>3, <2>1
<1>5. DOMAIN p = 1 .. Len(p) /\ DOMAIN q = 1 .. Len(q) /\ DOMAIN r = 1 .. Len(r)
  BY <1>3, <1>4
<1> HIDE DEF r
<1>6. ASSUME NEW x \in Range(r) PROVE x \in Range(p) \cup Range(q)
  <2>1. PICK i \in DOMAIN r : x = r[i]
    BY DEF Range
  <2>2. CASE i \in 1 .. Len(p)
    <3>1. x = p[i] /\ i \in DOMAIN p
      BY <1>4, <1>5, <2>1, <2>2
    <3> QED BY <3>1 DEF Range
  <2>3. CASE i \notin 1 .. Len(p)
    <3>1. i - Len(p) \in 1 .. Len(q) /\ Len(p) + (i - Len(p)) = i
      BY <1>4, <1>5, <2>1, <2>3
    <3>2. x = q[i - Len(p)] /\ i - Len(p) \in DOMAIN q
      BY <1>4, <1>5, <2>1, <3>1
    <3> QED BY <3>2 DEF Range
  <2> QED BY <2>2, <2>3
<1>7. ASSUME NEW x \in Range(p) \cup Range(q) PROVE x \in Range(r)
  <2>1. CASE x \in Range(p)
    <3>1. PICK i \in DOMAIN p : x = p[i]
      BY <2>1 DEF Range
    <3>2. x = r[i] /\ i \in DOMAIN r
      BY <1>4, <1>5, <3>1
    <3> QED BY <3>2 DEF Range
  <2>2. CASE x \in Range(q)
    <3>1. PICK i \in DOMAIN q : x = q[i]
      BY <2>2 DEF Range
    <3>2. x = r[Len(p) + i] /\ Len(p) + i \in DOMAIN r
      BY <1>4, <1>5, <3>1
    <3> QED BY <3>2 DEF Range
  <2> QED BY <2>1, <2>2
<1>8. Range(r) = Range(p) \cup Range(q)
  BY <1>6, <1>7
<1> QED BY <1>4, <1>8 DEF r, IsSeq

\* A sequence of one entry.
LEMMA RangeOne ==
  ASSUME NEW x
  PROVE  IsSeq(<<x>>) /\ Range(<<x>>) = {x}
<1>1. <<x>> \in Seq({x}) /\ DOMAIN <<x>> = {1} /\ <<x>>[1] = x
  OBVIOUS
<1> DEFINE S == {x}
           one == <<x>>
<1>2. one \in Seq(S) /\ DOMAIN one = {1} /\ one[1] = x
  BY <1>1
<1> HIDE DEF one
<1>3. Range(one) = {x}
  BY <1>2 DEF Range
<1> HIDE DEF S
<1>4. IsSeq(one)
  BY <1>2 DEF IsSeq
<1> QED BY <1>3, <1>4 DEF one

\* Sequences put one after the other have the entries of all of them.
LEMMA RangeFlat ==
  ASSUME NEW T, NEW n \in Nat, NEW seqs \in [1 .. n -> Seq(T)],
         \A x \in T : \E i \in 1 .. n : x \in Range(seqs[i])
  PROVE  IsSeq(FlattenSeq(seqs)) /\ Range(FlattenSeq(seqs)) = T
<1> DEFINE out == FlattenSeq(seqs)
<1>1. PICK b : Begins(T, n, seqs, b) /\ Follows(T, n, seqs, b, out)
  BY FlattenedPlaces
<1>2. out \in Seq(T)
  BY <1>1 DEF Follows
<1> HIDE DEF out
<1>3. ASSUME NEW x \in T PROVE x \in Range(out)
  <2>1. PICK i \in 1 .. n : x \in Range(seqs[i])
    OBVIOUS
  <2>2. seqs[i] \in Seq(T)
    OBVIOUS
  <2>3. PICK s \in 1 .. Len(seqs[i]) : x = seqs[i][s]
    BY <2>1, <2>2 DEF Range
  <2>4. out[b[i] + s] = x
    BY <1>1, <2>3 DEF Follows
  <2>5. /\ b[i] \in Nat /\ b[i + 1] \in Nat /\ b[i + 1] = b[i] + Len(seqs[i])
        /\ b[i + 1] <= b[n + 1] /\ b[n + 1] = Len(out)
    <3>1. i \in 1 .. n + 1 /\ i + 1 \in 1 .. n + 1
      OBVIOUS
    <3> QED BY <3>1, <1>1 DEF Begins, Follows
  <2>6. b[i] + s \in 1 .. Len(out)
    <3>1. Len(seqs[i]) \in Nat /\ Len(out) \in Nat
      BY <2>2, <1>2
    <3> DEFINE l == Len(seqs[i])
               f == b[i]
    <3>2. l \in Nat /\ f \in Nat /\ s \in 1 .. l /\ f + l <= Len(out)
      BY <2>3, <2>5, <3>1
    <3> HIDE DEF l, f
    <3>3. f + s \in 1 .. Len(out)
      BY <3>1, <3>2
    <3> QED BY <3>3 DEF f
  <2>7. DOMAIN out = 1 .. Len(out)
    BY <1>2
  <2> QED BY <2>4, <2>6, <2>7 DEF Range
<1>4. Range(out) \subseteq T
  BY <1>2 DEF Range
<1>5. Range(out) = T
  BY <1>3, <1>4
<1> QED BY <1>2, <1>5 DEF out, IsSeq

-----------------------------------------------------------------------------
(* The packets of the index and of a volume                                *)

\* A one-to-one function from the first n numbers to themselves has them all
\* as values.
LEMMA OneToOneIsOnto ==
  ASSUME NEW n \in Nat, NEW f \in [1 .. n -> 1 .. n],
         \A i, j \in 1 .. n : i # j => f[i] # f[j]
  PROVE  \A y \in 1 .. n : \E x \in 1 .. n : f[x] = y
<1> DEFINE S == 1 .. n
<1>1. IsFiniteSet(S)
  BY FS_Interval
<1>2. f \in Injection(S, S)
  BY DEF Injection, IsInjective
<1> HIDE DEF S
<1>3. f \in Surjection(S, S)
  BY <1>1, <1>2, FS_Injection
<1>4. \A y \in S : \E x \in S : f[x] = y
  BY <1>3 DEF Surjection
<1> QED BY <1>4 DEF S

\* The caller gives every file, once.
LEMMA SourcesAreTheFiles ==
  ASSUME EncodeTypeOK
  PROVE  /\ Len(FileWords) \in Nat \ {0} /\ Files = 1 .. Len(FileWords)
         /\ Len(sources) = Len(FileWords) /\ DOMAIN sources = Files
         /\ sources \in [Files -> Files]
         /\ \A i, j \in Files : i # j => sources[i] # sources[j]
         /\ \A f \in Files : \E i \in Files : sources[i] = f
<1> DEFINE n == Len(FileWords)
<1>1. n \in Nat \ {0} /\ Files = 1 .. n
  <2>1. FileWords \in Seq(Nat \ {0}) /\ FileWords # <<>>
    BY EncodeAssumption
  <2> QED BY <2>1 DEF Files
<1> HIDE DEF n
<1>2. IsFiniteSet(Files) /\ Cardinality(Files) = n
  <2>1. 1 \in Int /\ n \in Int /\ ~(1 > n) /\ n - 1 + 1 = n
    BY <1>1
  <2> QED BY <2>1, <1>1, FS_Interval
<1>3. sources \in [1 .. n -> Files] /\ \A i, j \in 1 .. n : i # j => sources[i] # sources[j]
  BY <1>2 DEF EncodeTypeOK, SetToSeqs
<1>4. Len(sources) = n /\ DOMAIN sources = 1 .. n
  BY <1>1, <1>3
<1>5. \A f \in Files : \E i \in Files : sources[i] = f
  <2>1. n \in Nat /\ sources \in [1 .. n -> 1 .. n]
    BY <1>1, <1>3
  <2>2. \A i, j \in 1 .. n : i # j => sources[i] # sources[j]
    BY <1>3
  <2>3. \A y \in 1 .. n : \E x \in 1 .. n : sources[x] = y
    BY <2>1, <2>2, OneToOneIsOnto
  <2> QED BY <2>3, <1>1
<1> QED BY <1>1, <1>3, <1>4, <1>5 DEF n

SetIds == [i \in Files |-> fileIds[sources[i]]]

SetId == SetIdHash(4 * SliceWords, SetIds)

MainPacket == BuildMainPacket(4 * SliceWords, SetIds)

Desc(f) == BuildFileDescPacket(SetId, Source(f))

Verify(f) == BuildFileVerifyPacket(SetId, Source(f))

CreatorPacket == BuildCreatorPacket(SetId)

Ascii(c) == BuildAsciiCommentPacket(SetId, Comments[c])

Unicode(c) == BuildUnicodeCommentPacket(SetId, Comments[c], Ascii(c).hash)

Descs == {Desc(f) : f \in Files}

Verifies == {Verify(f) : f \in Files}

Asciis == {Ascii(c) : c \in DOMAIN Comments}

Unicodes == {Unicode(c) : c \in {d \in DOMAIN Comments : ~IsAscii(Comments[d])}}

\* The index has these packets and no others.
LEMMA IndexHas ==
  ASSUME EncodeTypeOK
  PROVE  /\ IsSeq(Critical) /\ Critical[1] = MainPacket /\ Len(Critical) \in Nat \ {0}
         /\ Range(Critical) =
              (({MainPacket} \cup (Descs \cup Verifies)) \cup {CreatorPacket}) \cup (Asciis \cup Unicodes)
<1> DEFINE srcs == [i \in DOMAIN sources |-> Source(sources[i])]
           pairs == [i \in Files |-> <<Desc(sources[i]), Verify(sources[i])>>]
           both == [c \in DOMAIN Comments |-> BuildCommentPacketPair(SetId, Comments[c])]
           n == Len(FileWords)
<1>1. /\ n \in Nat \ {0} /\ Files = 1 .. n /\ DOMAIN sources = Files
      /\ sources \in [Files -> Files]
      /\ \A f \in Files : \E i \in Files : sources[i] = f
  BY SourcesAreTheFiles
<1>2. DOMAIN srcs = Files /\ \A i \in Files : srcs[i] = Source(sources[i])
  BY <1>1
<1>3. [i \in DOMAIN srcs |-> srcs[i].file_id] = SetIds
  <2>1. \A i \in Files : srcs[i].file_id = fileIds[sources[i]]
    <3>1. \A f : Source(f).file_id = fileIds[f]
      BY DEF Source
    <3> HIDE DEF srcs
    <3> QED BY <1>2, <3>1
  <2> HIDE DEF srcs
  <2> QED BY <1>2, <2>1 DEF SetIds
<1>4. [i \in DOMAIN srcs |-> <<BuildFileDescPacket(SetId, srcs[i]),
                               BuildFileVerifyPacket(SetId, srcs[i])>>] = pairs
  <2> HIDE DEF srcs
  <2> QED BY <1>2 DEF Desc, Verify
<1>5. Critical = ((<<MainPacket>> \o FlattenSeq(pairs)) \o <<CreatorPacket>>) \o FlattenSeq(both)
  <2>1. Critical = CriticalPackets(4 * SliceWords, srcs, Comments)
    BY DEF Critical
  <2> HIDE DEF srcs, pairs
  <2>2. CriticalPackets(4 * SliceWords, srcs, Comments)
          = ((<<MainPacket>> \o FlattenSeq(pairs)) \o <<CreatorPacket>>)
            \o BuildCommentPackets(SetId, Comments)
    BY <1>3, <1>4 DEF CriticalPackets, MainPacket, CreatorPacket, SetId
  <2>3. BuildCommentPackets(SetId, Comments) = FlattenSeq(both)
    BY DEF BuildCommentPackets
  <2> QED BY <2>1, <2>2, <2>3
<1>6. IsSeq(FlattenSeq(pairs)) /\ Range(FlattenSeq(pairs)) = Descs \cup Verifies
  <2> DEFINE T == Descs \cup Verifies
  <2>1. \A f \in Files : Desc(f) \in T /\ Verify(f) \in T
    BY DEF Descs, Verifies
  <2>2. \A i \in 1 .. n : pairs[i] \in Seq(T)
    <3> SUFFICES ASSUME NEW i \in 1 .. n PROVE <<Desc(sources[i]), Verify(sources[i])>> \in Seq(T)
      BY <1>1
    <3>1. Desc(sources[i]) \in T /\ Verify(sources[i]) \in T
      BY <1>1, <2>1
    <3> HIDE DEF T
    <3> QED BY <3>1
  <2>3. \A i \in 1 .. n : Range(pairs[i]) = {Desc(sources[i]), Verify(sources[i])}
    <3> SUFFICES ASSUME NEW i \in 1 .. n
                 PROVE  Range(<<Desc(sources[i]), Verify(sources[i])>>) = {Desc(sources[i]), Verify(sources[i])}
      BY <1>1
    <3> DEFINE x == Desc(sources[i])
               y == Verify(sources[i])
               two == <<x, y>>
    <3>1. DOMAIN two = {1, 2} /\ two[1] = x /\ two[2] = y
      OBVIOUS
    <3> HIDE DEF two
    <3>2. Range(two) = {x, y}
      BY <3>1 DEF Range
    <3> QED BY <3>2 DEF two
  <2>4. \A x \in T : \E i \in 1 .. n : x \in Range(pairs[i])
    <3> SUFFICES ASSUME NEW x \in T PROVE \E i \in 1 .. n : x \in Range(pairs[i])
      OBVIOUS
    <3> HIDE DEF pairs
    <3>1. PICK f \in Files : x = Desc(f) \/ x = Verify(f)
      BY DEF Descs, Verifies
    <3>2. PICK i \in 1 .. n : sources[i] = f
      BY <1>1
    <3> QED BY <2>3, <3>1, <3>2
  <2>5. pairs \in [1 .. n -> Seq(T)]
    <3>1. pairs = [i \in 1 .. n |-> pairs[i]]
      BY <1>1
    <3> HIDE DEF pairs, T
    <3> QED BY <2>2, <3>1
  <2> HIDE DEF T, pairs
  <2>6. IsSeq(FlattenSeq(pairs)) /\ Range(FlattenSeq(pairs)) = T
    <3>1. n \in Nat
      BY <1>1
    <3> HIDE DEF n
    <3> QED BY <3>1, <2>4, <2>5, RangeFlat
  <2> QED BY <2>6 DEF T
<1>7. IsSeq(FlattenSeq(both)) /\ Range(FlattenSeq(both)) = Asciis \cup Unicodes
  <2> DEFINE T == Asciis \cup Unicodes
             m == Len(Comments)
  <2>1. m \in Nat /\ DOMAIN Comments = 1 .. m
    BY FilesAssumption
  <2> HIDE DEF m
  <2>2. \A c \in 1 .. m : both[c] = <<Ascii(c)>> \o (IF IsAscii(Comments[c]) THEN <<>> ELSE <<Unicode(c)>>)
    BY <2>1 DEF BuildCommentPacketPair, Ascii, Unicode
  <2>3. \A c \in 1 .. m : Ascii(c) \in T /\ (~IsAscii(Comments[c]) => Unicode(c) \in T)
    BY <2>1 DEF Asciis, Unicodes
  <2>d. both = [c \in 1 .. m |-> both[c]]
    BY <2>1
  <2> HIDE DEF both
  <2>4. ASSUME NEW c \in 1 .. m
        PROVE  /\ both[c] \in Seq(T)
               /\ Range(both[c]) = {Ascii(c)} \cup (IF IsAscii(Comments[c]) THEN {} ELSE {Unicode(c)})
    <3> HIDE DEF T
    <3> DEFINE more == IF IsAscii(Comments[c]) THEN <<>> ELSE <<Unicode(c)>>
    <3>1. more \in Seq(T) /\ <<Ascii(c)>> \in Seq(T)
      BY <2>3
    <3>2. IsSeq(more) /\ Range(more) = IF IsAscii(Comments[c]) THEN {} ELSE {Unicode(c)}
      <4>1. IsSeq(<<>>) /\ Range(<<>>) = {}
        <5> DEFINE none == <<>>
        <5>1. DOMAIN none = {} /\ none \in Seq(Nat)
          OBVIOUS
        <5> HIDE DEF none
        <5>2. Range(none) = {} /\ IsSeq(none)
          BY <5>1 DEF Range, IsSeq
        <5> QED BY <5>2 DEF none
      <4> QED BY <4>1, RangeOne
    <3> HIDE DEF more
    <3>3. both[c] = <<Ascii(c)>> \o more
      BY <2>2 DEF more
    <3>4. both[c] \in Seq(T)
      BY <3>1, <3>3
    <3>5. Range(both[c]) = {Ascii(c)} \cup Range(more)
      BY <3>2, <3>3, RangeOne, RangeJoin
    <3> QED BY <3>2, <3>4, <3>5
  <2>5. \A x \in T : \E c \in 1 .. m : x \in Range(both[c])
    <3> SUFFICES ASSUME NEW x \in T PROVE \E c \in 1 .. m : x \in Range(both[c])
      OBVIOUS
    <3>1. PICK c \in 1 .. m : x = Ascii(c) \/ (~IsAscii(Comments[c]) /\ x = Unicode(c))
      BY <2>1 DEF Asciis, Unicodes
    <3> QED BY <2>4, <3>1
  <2> HIDE DEF T
  <2>6. both \in [1 .. m -> Seq(T)]
    BY <2>d, <2>4
  <2>7. IsSeq(FlattenSeq(both)) /\ Range(FlattenSeq(both)) = T
    BY <2>1, <2>5, <2>6, RangeFlat
  <2> QED BY <2>7 DEF T
<1> HIDE DEF pairs, both, srcs, n
<1>8. /\ IsSeq(<<MainPacket>> \o FlattenSeq(pairs))
      /\ Range(<<MainPacket>> \o FlattenSeq(pairs)) = {MainPacket} \cup (Descs \cup Verifies)
  BY <1>6, RangeOne, RangeJoin
<1> DEFINE front == <<MainPacket>> \o FlattenSeq(pairs)
           middle == front \o <<CreatorPacket>>
<1>9. IsSeq(middle) /\ Range(middle) = ({MainPacket} \cup (Descs \cup Verifies)) \cup {CreatorPacket}
  <2> HIDE DEF front
  <2> QED BY <1>8, RangeOne, RangeJoin DEF front
<1>10. /\ IsSeq(Critical)
       /\ Range(Critical) =
            (({MainPacket} \cup (Descs \cup Verifies)) \cup {CreatorPacket}) \cup (Asciis \cup Unicodes)
  <2> HIDE DEF middle
  <2> QED BY <1>5, <1>7, <1>9, RangeJoin DEF middle
<1>11. Critical[1] = MainPacket /\ Len(Critical) \in Nat \ {0}
  <2> DEFINE a == FlattenSeq(pairs)
             b == FlattenSeq(both)
             x == MainPacket
             y == CreatorPacket
  <2>1. PICK S : a \in Seq(S)
    BY <1>6 DEF IsSeq
  <2>2. PICK T : b \in Seq(T)
    BY <1>7 DEF IsSeq
  <2>3. Critical = ((<<x>> \o a) \o <<y>>) \o b
    BY <1>5
  <2> HIDE DEF a, b, x, y
  <2> DEFINE U == (S \cup T) \cup {x, y}
  <2>4. a \in Seq(U) /\ b \in Seq(U) /\ x \in U /\ y \in U
    BY <2>1, <2>2
  <2> HIDE DEF U
  <2> DEFINE p == <<x>> \o a
             q == p \o <<y>>
  <2>5. p \in Seq(U) /\ p[1] = x /\ Len(p) \in Nat \ {0}
    BY <2>4
  <2> HIDE DEF p
  <2>6. q \in Seq(U) /\ q[1] = x /\ Len(q) \in Nat \ {0}
    BY <2>4, <2>5
  <2> HIDE DEF q
  <2>7. (q \o b)[1] = x /\ Len(q \o b) \in Nat \ {0}
    BY <2>4, <2>6
  <2> QED BY <2>3, <2>7 DEF p, q, x
<1> QED BY <1>10, <1>11

\* The description and the checksums of a file.
LEMMA FilePackets ==
  ASSUME EncodeTypeOK, NEW f \in Files
  PROVE  /\ Desc(f).type = "FileDesc" /\ Sound(Desc(f), SetId)
         /\ Desc(f).body[1][1] = fileIds[f]
         /\ Desc(f).body[2][1] = Md5(<<f, "whole">>)
         /\ Desc(f).body[4][1] = 4 * FileWords[f]
         /\ Verify(f).type = "IFSC" /\ Sound(Verify(f), SetId)
         /\ Verify(f).body[1][1] = fileIds[f]
         /\ Tail(Verify(f).body) =
              [s \in 1 .. SlicesOf(f) |-> <<Md5(ScannedSlice(f, s - 1, scanned)), 20>>]
<1> DEFINE src == Source(f)
           n == SlicesOf(f)
<1>1. n \in Nat
  BY SourceIs
<1>2. /\ src.file_id = fileIds[f] /\ src.hash_full = Md5(<<f, "whole">>)
      /\ src.length = 4 * FileWords[f]
      /\ src.name = [i \in 1 .. NameLens[f] |-> f]
      /\ src.slice_checksums = [s \in 1 .. n |-> Md5(ScannedSlice(f, s - 1, scanned))]
  BY DEF Source
<1>3. NameLens[f] \in Nat
  BY FilesAssumption
<1>4. Len(src.name) \in Nat
  <2> DEFINE m == NameLens[f]
  <2>1. m \in Nat /\ src.name = [i \in 1 .. m |-> f]
    BY <1>2, <1>3
  <2> HIDE DEF m, src
  <2>2. Len(src.name) = m
    BY <2>1
  <2> QED BY <2>1, <2>2
<1>5. Desc(f) = BuildFileDescPacket(SetId, src) /\ Verify(f) = BuildFileVerifyPacket(SetId, src)
  BY DEF Desc, Verify
<1> HIDE DEF src, n
<1>6. DOMAIN src.slice_checksums = 1 .. n
  BY <1>2
<1>7. /\ Desc(f).type = "FileDesc" /\ Sound(Desc(f), SetId)
      /\ Desc(f).body[1][1] = src.file_id /\ Desc(f).body[2][1] = src.hash_full
      /\ Desc(f).body[4][1] = src.length
  BY <1>4, <1>5, DescIs
<1>8. /\ Verify(f).type = "IFSC" /\ Sound(Verify(f), SetId)
      /\ Verify(f).body[1][1] = src.file_id
      /\ Tail(Verify(f).body) = [s \in 1 .. n |-> <<src.slice_checksums[s], 20>>]
  BY <1>1, <1>5, <1>6, VerifyIs
<1>9. [s \in 1 .. n |-> <<src.slice_checksums[s], 20>>]
        = [s \in 1 .. n |-> <<Md5(ScannedSlice(f, s - 1, scanned)), 20>>]
  BY <1>2
<1> QED BY <1>2, <1>7, <1>8, <1>9 DEF n

\* The main packet, the creator's and the comments.
LEMMA OtherPackets ==
  ASSUME EncodeTypeOK
  PROVE  /\ MainPacket.type = "Main" /\ MainPacket.setId = SetId
         /\ MainPacket.setId = Md5(MainPacket.body) /\ Sound(MainPacket, SetId)
         /\ MainPacket.body[1][1] = 4 * SliceWords
         /\ MainPacket.body[2][1] = Len(FileWords)
         /\ \A i \in Files : MainPacket.body[i + 2][1] = Sorted(SetIds)[i]
         /\ CreatorPacket.type = "Creator" /\ Sound(CreatorPacket, SetId)
         /\ \A c \in DOMAIN Comments :
              /\ Ascii(c).type = "CommASCI" /\ Sound(Ascii(c), SetId)
              /\ IsAscii(Ascii(c).body[1][1])
              /\ Unicode(c).type = "CommUni" /\ Sound(Unicode(c), SetId)
              /\ Unicode(c).body[1][1] = Ascii(c).hash
<1>1. Len(FileWords) \in Nat /\ Files = 1 .. Len(FileWords)
  BY SourcesAreTheFiles
<1>2. /\ MainPacket.type = "Main" /\ MainPacket.setId = SetId
      /\ MainPacket.setId = Md5(MainPacket.body) /\ Sound(MainPacket, MainPacket.setId)
      /\ MainPacket.body[1][1] = 4 * SliceWords
      /\ MainPacket.body[2][1] = Len(FileWords)
      /\ \A i \in Files : MainPacket.body[i + 2][1] = Sorted(SetIds)[i]
  <2> DEFINE n == Len(FileWords)
             size == 4 * SliceWords
             T == {SetIds[i] : i \in Files}
             p == BuildMainPacket(size, SetIds)
  <2>1. SetIds \in [1 .. n -> T] /\ n \in Nat
    BY <1>1 DEF SetIds
  <2> HIDE DEF n, size, T
  <2>2. IsMain(p, size, SetIds, n)
    BY <2>1, MainIs
  <2>3. MainPacket = p /\ SetId = SetIdHash(size, SetIds) /\ Files = 1 .. n
    BY <1>1 DEF MainPacket, SetId, n, size
  <2> HIDE DEF p
  <2> QED BY <2>2, <2>3 DEF IsMain, n, size
<1>3. CreatorPacket.type = "Creator" /\ Sound(CreatorPacket, SetId)
  BY CreatorIs DEF CreatorPacket
<1>4. ASSUME NEW c \in DOMAIN Comments
      PROVE  /\ Ascii(c).type = "CommASCI" /\ Sound(Ascii(c), SetId)
             /\ IsAscii(Ascii(c).body[1][1])
             /\ Unicode(c).type = "CommUni" /\ Sound(Unicode(c), SetId)
             /\ Unicode(c).body[1][1] = Ascii(c).hash
  <2>1. Comments[c] \in Seq(Nat)
    BY FilesAssumption
  <2>2. /\ Ascii(c).type = "CommASCI" /\ Sound(Ascii(c), SetId)
        /\ IsAscii(Ascii(c).body[1][1])
    BY <2>1, AsciiIs DEF Ascii
  <2>3. /\ Unicode(c).type = "CommUni" /\ Sound(Unicode(c), SetId)
        /\ Unicode(c).body[1][1] = Ascii(c).hash
    BY <2>1, UnicodeIs DEF Unicode
  <2> QED BY <2>2, <2>3
<1> QED BY <1>2, <1>3, <1>4

\* A file of the set with the given recovery packets: what a reader finds of
\* each kind, and that every packet is framed as one of the set.
FileOf(file, recvs) ==
  /\ OfType(file, "Main") = {MainPacket}
  /\ OfType(file, "FileDesc") = Descs
  /\ OfType(file, "IFSC") = Verifies
  /\ OfType(file, "CommASCI") = Asciis
  /\ OfType(file, "CommUni") = Unicodes
  /\ OfType(file, "RecvSlic") = recvs
  /\ \A p \in Range(file) : Sound(p, SetId)

\* A volume is such a file.
LEMMA VolumeIs ==
  ASSUME EncodeTypeOK, NEW m \in Nat, NEW slots, DOMAIN slots = 1 .. m,
         \A i \in 1 .. m : DOMAIN slots[i] = Words, NEW first
  PROVE  FileOf(BuildVolumePacket(SetId, Critical, slots, first),
                {BuildRecoveryPacket(SetId, first + i - 1, slots[i]) : i \in 1 .. m})
<1> DEFINE recv(i) == BuildRecoveryPacket(SetId, first + i - 1, slots[i])
           recvs == [i \in DOMAIN slots |-> recv(i)]
           R == {recv(i) : i \in 1 .. m}
           file == BuildVolumePacket(SetId, Critical, slots, first)
<1>1. file = (Critical \o recvs) \o Critical
  BY DEF BuildVolumePacket
<1>2. \A i \in 1 .. m : recv(i).type = "RecvSlic" /\ Sound(recv(i), SetId)
  BY RecoveryIs
<1> HIDE DEF recv, file
<1>3. IsSeq(recvs) /\ Range(recvs) = R
  <2>1. DOMAIN recvs = 1 .. m /\ \A i \in 1 .. m : recvs[i] = recv(i)
    OBVIOUS
  <2>2. recvs \in Seq(R)
    <3>1. \A i \in 1 .. m : recv(i) \in R
      OBVIOUS
    <3> HIDE DEF R
    <3> QED BY <3>1
  <2> HIDE DEF recvs
  <2>3. Range(recvs) = R
    BY <2>1 DEF Range
  <2> QED BY <2>2, <2>3 DEF IsSeq
<1> DEFINE A == {MainPacket}
           E == {CreatorPacket}
<1>4. /\ IsSeq(Critical)
      /\ Range(Critical) = ((A \cup (Descs \cup Verifies)) \cup E) \cup (Asciis \cup Unicodes)
  BY IndexHas
<1>k. /\ \A p \in R : p.type = "RecvSlic" /\ Sound(p, SetId)
      /\ \A p \in A : p.type = "Main" /\ Sound(p, SetId)
      /\ \A p \in E : p.type = "Creator" /\ Sound(p, SetId)
      /\ \A p \in Descs : p.type = "FileDesc" /\ Sound(p, SetId)
      /\ \A p \in Verifies : p.type = "IFSC" /\ Sound(p, SetId)
      /\ \A p \in Asciis : p.type = "CommASCI" /\ Sound(p, SetId)
      /\ \A p \in Unicodes : p.type = "CommUni" /\ Sound(p, SetId)
  <2>1. \A p \in R : p.type = "RecvSlic" /\ Sound(p, SetId)
    BY <1>2
  <2>2. \A p \in A : p.type = "Main" /\ Sound(p, SetId)
    BY OtherPackets
  <2>3. \A p \in E : p.type = "Creator" /\ Sound(p, SetId)
    BY OtherPackets
  <2>4. \A p \in Descs : p.type = "FileDesc" /\ Sound(p, SetId)
    BY FilePackets DEF Descs
  <2>5. \A p \in Verifies : p.type = "IFSC" /\ Sound(p, SetId)
    BY FilePackets DEF Verifies
  <2>6. \A p \in Asciis : p.type = "CommASCI" /\ Sound(p, SetId)
    BY OtherPackets DEF Asciis
  <2>7. \A p \in Unicodes : p.type = "CommUni" /\ Sound(p, SetId)
    BY OtherPackets DEF Unicodes
  <2> HIDE DEF R, A, E
  <2> QED BY <2>1, <2>2, <2>3, <2>4, <2>5, <2>6, <2>7
<1> DEFINE C == Range(Critical)
           front == Critical \o recvs
<1> HIDE DEF R, A, E, recvs
<1>5. IsSeq(front) /\ Range(front) = C \cup R
  BY <1>3, <1>4, RangeJoin
<1>6. Range(file) = (C \cup R) \cup C
  <2> HIDE DEF front
  <2> QED BY <1>1, <1>4, <1>5, RangeJoin DEF front
<1>7. Range(file) =
        (((A \cup (Descs \cup Verifies)) \cup E) \cup (Asciis \cup Unicodes)) \cup R
  BY <1>4, <1>6
<1>8. FileOf(file, R)
  BY <1>7, <1>k DEF FileOf, OfType, A
<1> QED BY <1>8 DEF file, R, recv

-----------------------------------------------------------------------------
(* The order of the files                                                  *)

\* Numbers of which each is greater than the one before it.
LEMMA AdjacentAscend ==
  ASSUME NEW n \in Nat, NEW s \in [1 .. n -> Nat], \A i \in 1 .. n - 1 : s[i] < s[i + 1]
  PROVE  \A j \in 1 .. n : \A i \in 1 .. j - 1 : s[i] < s[j]
<1> DEFINE S == {k \in Nat : k + 1 <= n => \A i \in 1 .. k : s[i] < s[k + 1]}
<1>1. 0 \in S
  OBVIOUS
<1>2. ASSUME NEW k \in Nat, k \in S PROVE k + 1 \in S
  <2> SUFFICES ASSUME (k + 1) + 1 <= n, NEW i \in 1 .. k + 1 PROVE s[i] < s[(k + 1) + 1]
    OBVIOUS
  <2> DEFINE b == k + 1
             c == (k + 1) + 1
  <2>1. b \in 1 .. n /\ c \in 1 .. n /\ b \in 1 .. n - 1 /\ c = b + 1 /\ i \in 1 .. n
    OBVIOUS
  <2>2. s[i] \in Nat /\ s[b] \in Nat /\ s[c] \in Nat
    BY <2>1
  <2>3. s[b] < s[c]
    BY <2>1
  <2>4. s[i] < s[b] \/ i = b
    BY <1>2
  <2> HIDE DEF b, c
  <2>5. s[i] < s[c]
    BY <2>2, <2>3, <2>4
  <2> QED BY <2>5 DEF c
<1>3. Nat \subseteq S
  <2> HIDE DEF S
  <2> QED BY <1>1, <1>2, NatInSet
<1>4. ASSUME NEW j \in 1 .. n, NEW i \in 1 .. j - 1 PROVE s[i] < s[j]
  <2> DEFINE k == j - 1
  <2>1. k \in Nat /\ k + 1 = j /\ k + 1 <= n /\ i \in 1 .. k
    OBVIOUS
  <2>2. k \in S
    BY <1>3, <2>1
  <2> HIDE DEF k
  <2> QED BY <2>1, <2>2
<1> QED BY <1>4

\* When they are all among the first n, they are those.
LEMMA AscendIsIdentity ==
  ASSUME NEW n \in Nat, NEW s \in [1 .. n -> 1 .. n],
         \A j \in 1 .. n : \A i \in 1 .. j - 1 : s[i] < s[j]
  PROVE  \A i \in 1 .. n : s[i] = i
<1> DEFINE S == {k \in Nat : k + 1 <= n => k + 1 <= s[k + 1]}
           T == {k \in Nat : n - k \in 1 .. n => s[n - k] <= n - k}
<1>t. \A i \in 1 .. n : s[i] \in Nat /\ 1 <= s[i] /\ s[i] <= n
  OBVIOUS
<1>1. 0 \in S
  BY <1>t
<1>2. ASSUME NEW k \in Nat, k \in S PROVE k + 1 \in S
  <2> SUFFICES ASSUME (k + 1) + 1 <= n PROVE (k + 1) + 1 <= s[(k + 1) + 1]
    OBVIOUS
  <2> DEFINE b == k + 1
             c == (k + 1) + 1
  <2>1. b \in 1 .. n /\ c \in 1 .. n /\ b \in 1 .. c - 1 /\ c = b + 1
    OBVIOUS
  <2>2. s[b] < s[c] /\ b <= s[b]
    BY <1>2, <2>1
  <2>3. s[b] \in Nat /\ s[c] \in Nat
    BY <1>t, <2>1
  <2>4. c <= s[c]
    BY <2>1, <2>2, <2>3
  <2> QED BY <2>4
<1>3. Nat \subseteq S
  <2> HIDE DEF S
  <2> QED BY <1>1, <1>2, NatInSet
<1>4. 0 \in T
  BY <1>t
<1>5. ASSUME NEW k \in Nat, k \in T PROVE k + 1 \in T
  <2> SUFFICES ASSUME n - (k + 1) \in 1 .. n PROVE s[n - (k + 1)] <= n - (k + 1)
    OBVIOUS
  <2> DEFINE b == n - (k + 1)
             c == n - k
  <2>1. b \in 1 .. n /\ c \in 1 .. n /\ b \in 1 .. c - 1 /\ c = b + 1
    OBVIOUS
  <2>2. s[b] < s[c] /\ s[c] <= c
    BY <1>5, <2>1
  <2>3. s[b] \in Nat /\ s[c] \in Nat
    BY <1>t, <2>1
  <2>4. s[b] <= b
    BY <2>1, <2>2, <2>3
  <2> QED BY <2>4
<1>6. Nat \subseteq T
  <2> HIDE DEF T
  <2> QED BY <1>4, <1>5, NatInSet
<1>7. ASSUME NEW i \in 1 .. n PROVE s[i] = i
  <2> DEFINE k == i - 1
             m == n - i
  <2>1. k \in Nat /\ k + 1 = i /\ k + 1 <= n /\ m \in Nat /\ n - m = i /\ n - m \in 1 .. n
    OBVIOUS
  <2>2. k \in S /\ m \in T
    BY <1>3, <1>6, <2>1
  <2> HIDE DEF k, m
  <2>3. k + 1 <= s[k + 1] /\ s[n - m] <= n - m
    BY <2>1, <2>2
  <2>4. i <= s[i] /\ s[i] <= i
    BY <2>1, <2>3
  <2> QED BY <2>4, <1>t
<1> QED BY <1>7

\* The ids are numbers, and in order.
LEMMA IdsAscend ==
  ASSUME fileIds \in IdTables
  PROVE  /\ fileIds \in [Files -> Nat]
         /\ \A f \in Files : \A g \in 1 .. f - 1 :
              /\ fileIds[g] <= fileIds[f]
              /\ fileIds[g] = fileIds[f] => FileWords[g] = FileWords[f]
BY FilesAssumption

\* The main packet has the ids of the files in ascending order, each once.
LEMMA SortedIs ==
  ASSUME EncodeTypeOK, fileIds \in IdTables
  PROVE  \E q \in [Files -> Files] :
           /\ \A i, j \in Files : i # j => q[i] # q[j]
           /\ \A f \in Files : \E i \in Files : q[i] = f
           /\ \A i \in Files : Sorted(SetIds)[i] = fileIds[q[i]]
           /\ \A i, j \in Files : i < j => fileIds[q[i]] <= fileIds[q[j]]
<1> DEFINE n == Len(FileWords)
           Right(p) == \A i, j \in DOMAIN SetIds : i < j => SetIds[p[i]] <= SetIds[p[j]]
           order == CHOOSE p \in SetToSeqs(DOMAIN SetIds) : Right(p)
           back == [f \in Files |-> CHOOSE i \in Files : sources[i] = f]
           q == [i \in Files |-> sources[order[i]]]
<1>1. /\ n \in Nat \ {0} /\ Files = 1 .. n
      /\ sources \in [Files -> Files]
      /\ \A i, j \in Files : i # j => sources[i] # sources[j]
      /\ \A f \in Files : \E i \in Files : sources[i] = f
  BY SourcesAreTheFiles
<1>2. Cardinality(Files) = n
  <2>1. 1 \in Int /\ n \in Int /\ ~(1 > n) /\ n - 1 + 1 = n
    BY <1>1
  <2> QED BY <2>1, <1>1, FS_Interval
<1> HIDE DEF n
<1>3. \A p : p \in SetToSeqs(Files) <=>
               p \in [Files -> Files] /\ \A i, j \in Files : i # j => p[i] # p[j]
  BY <1>1, <1>2 DEF SetToSeqs
<1>4. DOMAIN SetIds = Files /\ \A i \in Files : SetIds[i] = fileIds[sources[i]]
  BY DEF SetIds
<1>5. back \in [Files -> Files] /\ \A f \in Files : sources[back[f]] = f
  BY <1>1
<1>6. back \in SetToSeqs(Files) /\ Right(back)
  <2> HIDE DEF back
  <2>1. \A i, j \in Files : i # j => back[i] # back[j]
    BY <1>5
  <2>2. \A i \in Files : SetIds[back[i]] = fileIds[i]
    BY <1>4, <1>5
  <2>3. ASSUME NEW i \in Files, NEW j \in Files, i < j PROVE fileIds[i] <= fileIds[j]
    <3>1. i \in 1 .. j - 1
      BY <1>1, <2>3
    <3> QED BY <3>1, IdsAscend
  <2> QED BY <1>3, <1>4, <1>5, <2>1, <2>2, <2>3
<1>7. order \in SetToSeqs(Files) /\ Right(order)
  <2> HIDE DEF Right, back
  <2> QED BY <1>4, <1>6
<1>8. \A i \in Files : Sorted(SetIds)[i] = SetIds[order[i]]
  BY <1>4 DEF Sorted
<1> HIDE DEF order
<1>9. order \in [Files -> Files] /\ \A i, j \in Files : i # j => order[i] # order[j]
  BY <1>3, <1>7
<1>10. q \in [Files -> Files] /\ \A i \in Files : q[i] = sources[order[i]] /\ order[i] \in Files
  BY <1>1, <1>9
<1> HIDE DEF q
<1>11. \A i, j \in Files : i # j => q[i] # q[j]
  <2> SUFFICES ASSUME NEW i \in Files, NEW j \in Files, i # j PROVE q[i] # q[j]
    OBVIOUS
  <2> DEFINE a == order[i]
             b == order[j]
  <2>1. a \in Files /\ b \in Files /\ a # b /\ q[i] = sources[a] /\ q[j] = sources[b]
    BY <1>9, <1>10
  <2> HIDE DEF a, b
  <2> QED BY <1>1, <2>1
<1>12. \A f \in Files : \E i \in Files : q[i] = f
  <2>1. n \in Nat /\ q \in [1 .. n -> 1 .. n] /\ \A i, j \in 1 .. n : i # j => q[i] # q[j]
    BY <1>1, <1>10, <1>11
  <2>2. \A y \in 1 .. n : \E x \in 1 .. n : q[x] = y
    BY <2>1, OneToOneIsOnto
  <2> QED BY <2>2, <1>1
<1>13. \A i \in Files : SetIds[order[i]] = fileIds[q[i]]
  BY <1>4, <1>10
<1>14. \A i, j \in Files : i < j => fileIds[q[i]] <= fileIds[q[j]]
  BY <1>4, <1>7, <1>13
<1> QED BY <1>8, <1>10, <1>11, <1>12, <1>13, <1>14

\* When no two files have the same id, this is the order of the files.
LEMMA SortedApart ==
  ASSUME EncodeTypeOK, fileIds \in IdTables, TellApart
  PROVE  \A i \in Files : Sorted(SetIds)[i] = fileIds[i]
<1> DEFINE n == Len(FileWords)
<1>1. n \in Nat /\ Files = 1 .. n
  BY SourcesAreTheFiles
<1>2. PICK q \in [Files -> Files] :
        /\ \A i, j \in Files : i # j => q[i] # q[j]
        /\ \A i \in Files : Sorted(SetIds)[i] = fileIds[q[i]]
        /\ \A i, j \in Files : i < j => fileIds[q[i]] <= fileIds[q[j]]
  BY SortedIs
<1> HIDE DEF n
<1>3. ASSUME NEW j \in 1 .. n, NEW i \in 1 .. j - 1 PROVE q[i] < q[j]
  <2>1. i \in Files /\ j \in Files /\ i < j /\ i # j
    BY <1>1
  <2> DEFINE a == q[i]
             b == q[j]
  <2>2. a \in Files /\ b \in Files /\ a # b /\ fileIds[a] <= fileIds[b]
    BY <1>2, <2>1
  <2> HIDE DEF a, b
  <2>3. fileIds[a] # fileIds[b] /\ fileIds[a] \in Nat /\ fileIds[b] \in Nat
    BY <2>2, IdsAscend DEF TellApart
  <2>4. CASE b < a
    <3>1. b \in 1 .. a - 1
      BY <1>1, <2>2, <2>4
    <3>2. fileIds[b] <= fileIds[a]
      BY <2>2, <3>1, IdsAscend
    <3> QED BY <2>2, <2>3, <3>2
  <2>5. a \in Nat /\ b \in Nat
    BY <1>1, <2>2
  <2> QED BY <2>2, <2>4, <2>5 DEF a, b
<1>4. q \in [1 .. n -> 1 .. n]
  BY <1>1
<1>5. \A i \in 1 .. n : q[i] = i
  BY <1>1, <1>3, <1>4, AscendIsIdentity
<1> QED BY <1>1, <1>2, <1>5

\* Given in the order of their numbers, the files are given as numbered.
LEMMA AscendingSources ==
  ASSUME EncodeTypeOK
  PROVE  Ascending <=> \A i \in Files : sources[i] = i
<1> DEFINE n == Len(FileWords)
<1>1. n \in Nat \ {0} /\ Files = 1 .. n /\ Len(sources) = n /\ sources \in [1 .. n -> 1 .. n]
  BY SourcesAreTheFiles
<1> HIDE DEF n
<1>2. ASSUME Ascending PROVE \A i \in 1 .. n : sources[i] = i
  <2>1. \A i \in 1 .. n - 1 : sources[i] < sources[i + 1]
    BY <1>1, <1>2 DEF Ascending
  <2>2. sources \in [1 .. n -> Nat] /\ n \in Nat
    BY <1>1
  <2>3. \A j \in 1 .. n : \A i \in 1 .. j - 1 : sources[i] < sources[j]
    BY <2>1, <2>2, AdjacentAscend
  <2> QED BY <2>2, <2>3, <1>1, AscendIsIdentity
<1>3. ASSUME \A i \in 1 .. n : sources[i] = i PROVE Ascending
  <2> SUFFICES ASSUME NEW i \in 1 .. n - 1 PROVE sources[i] < sources[i + 1]
    BY <1>1 DEF Ascending
  <2>1. i \in 1 .. n /\ i + 1 \in 1 .. n /\ i < i + 1
    BY <1>1
  <2>2. sources[i] = i /\ sources[i + 1] = i + 1
    BY <1>3, <2>1
  <2> QED BY <2>1, <2>2
<1> QED BY <1>1, <1>2, <1>3

-----------------------------------------------------------------------------
(* What the index says of the files                                        *)

Checksums(f, n) == [s \in 1 .. DivCeil(FileWords[f], n) |-> <<Md5(ScannedSlice(f, s - 1, n)), 20>>]

DescsOf(id) == {p \in Descs : p.body[1][1] = id}

VerifiesOf(id) == {p \in Verifies : p.body[1][1] = id}

\* What the reader of a file of the set checks of the descriptions.
LEMMA DescribedMeans ==
  ASSUME EncodeTypeOK, NEW file, NEW recvs, FileOf(file, recvs)
  PROVE  /\ FileIds(MainPacket) = [i \in Files |-> Sorted(SetIds)[i]]
         /\ Described(file, MainPacket) <=>
              \A i \in Files :
                /\ Cardinality(DescsOf(Sorted(SetIds)[i])) = 1
                /\ Cardinality(VerifiesOf(Sorted(SetIds)[i])) = 1
                /\ \A p \in VerifiesOf(Sorted(SetIds)[i]) : Tail(p.body) = Checksums(i, SliceWords)
<1>1. Files = 1 .. Len(FileWords)
  BY SourcesAreTheFiles
<1>2. /\ MainPacket.body[1][1] = 4 * SliceWords /\ MainPacket.body[2][1] = Len(FileWords)
      /\ \A i \in Files : MainPacket.body[i + 2][1] = Sorted(SetIds)[i]
  BY OtherPackets
<1>3. FileIds(MainPacket) = [i \in Files |-> Sorted(SetIds)[i]]
  BY <1>1, <1>2 DEF FileIds
<1>4. (4 * SliceWords) \div 4 = SliceWords
  <2>1. SliceWords \in Nat
    BY EncodeAssumption
  <2> QED BY <2>1
<1>5. OfType(file, "FileDesc") = Descs /\ OfType(file, "IFSC") = Verifies
  BY DEF FileOf
<1> DEFINE body == MainPacket.body
<1>6. Described(file, MainPacket) <=>
        \A i \in DOMAIN FileIds(MainPacket) :
          /\ Cardinality(DescsOf(FileIds(MainPacket)[i])) = 1
          /\ Cardinality(VerifiesOf(FileIds(MainPacket)[i])) = 1
          /\ \A p \in VerifiesOf(FileIds(MainPacket)[i]) :
               Tail(p.body) = Checksums(i, (4 * SliceWords) \div 4)
  BY <1>2, <1>5 DEF Described, DescsOf, VerifiesOf, Checksums
<1>7. Described(file, MainPacket) <=>
        \A i \in Files :
          /\ Cardinality(DescsOf(Sorted(SetIds)[i])) = 1
          /\ Cardinality(VerifiesOf(Sorted(SetIds)[i])) = 1
          /\ \A p \in VerifiesOf(Sorted(SetIds)[i]) : Tail(p.body) = Checksums(i, SliceWords)
  <2> HIDE DEF body
  <2> QED BY <1>3, <1>4, <1>6
<1> QED BY <1>3, <1>7

\* Two files with one id have two descriptions under it.
LEMMA DescribedTellsApart ==
  ASSUME EncodeTypeOK, fileIds \in IdTables,
         NEW file, NEW recvs, FileOf(file, recvs), Described(file, MainPacket)
  PROVE  TellApart
<1> SUFFICES ASSUME NEW f \in Files, NEW g \in Files, f # g, fileIds[f] = fileIds[g]
             PROVE  FALSE
  BY DEF TellApart
<1>1. PICK i \in Files : Sorted(SetIds)[i] = fileIds[f]
  BY SortedIs
<1> DEFINE D == DescsOf(fileIds[f])
<1>2. Cardinality(D) = 1
  BY <1>1, DescribedMeans
<1>3. Desc(f) \in D /\ Desc(g) \in D
  BY FilePackets DEF Descs, DescsOf
<1>4. Desc(f) # Desc(g)
  <2>1. Desc(f).body[2][1] = Md5(<<f, "whole">>) /\ Desc(g).body[2][1] = Md5(<<g, "whole">>)
    BY FilePackets
  <2>2. Md5(<<f, "whole">>) # Md5(<<g, "whole">>)
    BY DEF Md5
  <2> QED BY <2>1, <2>2
<1>5. IsFiniteSet(D)
  <2> DEFINE desc == [h \in Files |-> Desc(h)]
  <2>1. desc \in Surjection(Files, Descs)
    BY DEF Surjection, Descs
  <2>2. IsFiniteSet(Files)
    BY SourcesAreTheFiles, FS_Interval
  <2>3. IsFiniteSet(Descs)
    <3> HIDE DEF desc
    <3> QED BY <2>1, <2>2, FS_Surjection
  <2>4. D \in SUBSET Descs
    BY DEF DescsOf
  <2> HIDE DEF D
  <2> QED BY <2>3, <2>4, FS_Subset
<1> HIDE DEF D
<1>6. PICK x : D = {x}
  BY <1>2, <1>5, FS_Singleton
<1> QED BY <1>3, <1>4, <1>6

\* When no two files have the same id, a file has one description and one list
\* of checksums.
LEMMA OneOfEach ==
  ASSUME EncodeTypeOK, fileIds \in IdTables, TellApart, NEW i \in Files
  PROVE  DescsOf(fileIds[i]) = {Desc(i)} /\ VerifiesOf(fileIds[i]) = {Verify(i)}
<1>1. \A f \in Files : fileIds[f] = fileIds[i] => f = i
  BY DEF TellApart
<1>2. \A f \in Files : Desc(f).body[1][1] = fileIds[f] /\ Verify(f).body[1][1] = fileIds[f]
  BY FilePackets
<1>3. DescsOf(fileIds[i]) = {Desc(i)}
  BY <1>1, <1>2 DEF DescsOf, Descs
<1>4. VerifiesOf(fileIds[i]) = {Verify(i)}
  BY <1>1, <1>2 DEF VerifiesOf, Verifies
<1> QED BY <1>3, <1>4

\* And the checksums are those of the slices when the files were scanned with
\* the slice size of the create, and not otherwise.
LEMMA DescribedWhenScanned ==
  ASSUME EncodeTypeOK, fileIds \in IdTables, TellApart,
         NEW file, NEW recvs, FileOf(file, recvs)
  PROVE  Described(file, MainPacket) <=> scanned = SliceWords
<1>1. \A i \in Files : Sorted(SetIds)[i] = fileIds[i]
  BY SortedApart
<1>2. \A i \in Files : Tail(Verify(i).body) = Checksums(i, scanned)
  BY FilePackets DEF Checksums, SlicesOf
<1>3. Described(file, MainPacket) <=> \A i \in Files : Checksums(i, scanned) = Checksums(i, SliceWords)
  <2>1. \A i \in Files : /\ Cardinality(DescsOf(fileIds[i])) = 1
                         /\ Cardinality(VerifiesOf(fileIds[i])) = 1
    BY OneOfEach, FS_Singleton
  <2>2. \A i \in Files : VerifiesOf(fileIds[i]) = {Verify(i)}
    BY OneOfEach
  <2>3. Described(file, MainPacket) <=>
          \A i \in Files :
            /\ Cardinality(DescsOf(Sorted(SetIds)[i])) = 1
            /\ Cardinality(VerifiesOf(Sorted(SetIds)[i])) = 1
            /\ \A p \in VerifiesOf(Sorted(SetIds)[i]) : Tail(p.body) = Checksums(i, SliceWords)
    BY DescribedMeans
  <2> QED BY <1>1, <1>2, <2>1, <2>2, <2>3
<1>4. ASSUME \A i \in Files : Checksums(i, scanned) = Checksums(i, SliceWords)
      PROVE  scanned = SliceWords
  <2>1. 1 \in Files
    BY SourcesAreTheFiles
  <2>2. /\ scanned \in Nat \ {0} /\ SliceWords \in Nat \ {0} /\ FileWords[1] \in Nat \ {0}
    BY <2>1, SourceIs, EncodeAssumption DEF EncodeTypeOK
  <2>3. 1 \in 1 .. DivCeil(FileWords[1], scanned) /\ 1 \in 1 .. DivCeil(FileWords[1], SliceWords)
    <3>1. ASSUME NEW n \in Nat \ {0} PROVE 1 \in 1 .. DivCeil(FileWords[1], n)
      <4>1. DivCeil(FileWords[1], n) \in Nat /\ (FileWords[1] <= n * 0 <=> DivCeil(FileWords[1], n) <= 0)
        BY <2>2, RoundingUp DEF DivCeil
      <4> QED BY <2>2, <4>1
    <3> QED BY <2>2, <3>1
  <2> DEFINE words(n) == ScannedSlice(1, 0, n)
  <2>4. \A n : 1 \in 1 .. DivCeil(FileWords[1], n) => Checksums(1, n)[1] = <<Md5(words(n)), 20>>
    <3>1. 1 - 1 = 0
      OBVIOUS
    <3> QED BY <3>1 DEF Checksums
  <2>5. words(scanned) = words(SliceWords)
    <3> HIDE DEF words
    <3>1. <<Md5(words(scanned)), 20>> = <<Md5(words(SliceWords)), 20>>
      BY <1>4, <2>1, <2>3, <2>4
    <3>2. Md5(words(scanned)) = Md5(words(SliceWords))
      BY <3>1
    <3> QED BY <3>2 DEF Md5
  <2>6. 0 .. scanned - 1 = 0 .. SliceWords - 1
    <3>1. \A n : DOMAIN words(n) = 0 .. n - 1
      BY DEF ScannedSlice
    <3> HIDE DEF words
    <3> QED BY <2>5, <3>1
  <2> QED BY <2>2, <2>6
<1> QED BY <1>3, <1>4

-----------------------------------------------------------------------------
(* What the recovery packets say                                           *)

\* A length in bytes is cut into slices as the length in words is.
LEMMA CeilOfFours ==
  ASSUME NEW w \in Nat, NEW n \in Nat \ {0}
  PROVE  DivCeil(4 * w, 4 * n) = DivCeil(w, n)
<1> DEFINE a == DivCeil(4 * w, 4 * n)
           b == DivCeil(w, n)
<1>1. 4 * w \in Nat /\ 4 * n \in Nat \ {0}
  OBVIOUS
<1>2. a \in Nat /\ \A c \in Nat : 4 * w <= (4 * n) * c <=> a <= c
  BY <1>1, RoundingUp DEF DivCeil
<1>3. b \in Nat /\ \A c \in Nat : w <= n * c <=> b <= c
  BY RoundingUp DEF DivCeil
<1> HIDE DEF a, b
<1>4. \A c \in Nat : 4 * w <= (4 * n) * c <=> w <= n * c
  <2> SUFFICES ASSUME NEW c \in Nat PROVE 4 * w <= (4 * n) * c <=> w <= n * c
    OBVIOUS
  <2> DEFINE x == n * c
  <2>1. x \in Nat /\ (4 * n) * c = 4 * x
    OBVIOUS
  <2> HIDE DEF x
  <2>2. 4 * w <= 4 * x <=> w <= x
    BY <2>1
  <2> QED BY <2>1, <2>2 DEF x
<1>5. a <= b /\ b <= a
  BY <1>2, <1>3, <1>4
<1>6. a = b
  BY <1>2, <1>3, <1>5
<1> QED BY <1>6 DEF a, b

\* The slices of the files in the order of their numbers.
FileSlices == [i \in Files |-> [s \in 1 .. SlicesOf(i) |-> <<i, s - 1>>]]

InOrder == FlattenSeq(FileSlices)

\* That is how the reader of a file of the set finds them.
LEMMA ReaderSlicesAre ==
  ASSUME EncodeTypeOK, fileIds \in IdTables, TellApart, scanned = SliceWords,
         NEW file, NEW recvs, FileOf(file, recvs)
  PROVE  ReaderSlices(file, MainPacket) = InOrder
<1> DEFINE LengthOf(id) == (CHOOSE p \in OfType(file, "FileDesc") : p.body[1][1] = id).body[4][1]
           ids == FileIds(MainPacket)
<1>1. ids = [i \in Files |-> fileIds[i]]
  BY DescribedMeans, SortedApart
<1>2. ASSUME NEW i \in Files PROVE LengthOf(ids[i]) = 4 * FileWords[i]
  <2> DEFINE p == CHOOSE p \in Descs : p.body[1][1] = fileIds[i]
  <2>1. ids[i] = fileIds[i] /\ OfType(file, "FileDesc") = Descs
    BY <1>1 DEF FileOf
  <2>2. LengthOf(ids[i]) = p.body[4][1]
    <3> HIDE DEF ids
    <3> QED BY <2>1
  <2>3. Desc(i) \in Descs /\ Desc(i).body[1][1] = fileIds[i]
    BY FilePackets DEF Descs
  <2>4. p \in Descs /\ p.body[1][1] = fileIds[i]
    BY <2>3
  <2> HIDE DEF p
  <2>5. p = Desc(i)
    BY <2>4, OneOfEach DEF DescsOf
  <2> QED BY <2>2, <2>5, FilePackets
<1>3. MainPacket.body[1][1] = 4 * SliceWords
  BY OtherPackets
<1>4. ASSUME NEW i \in Files
      PROVE  DivCeil(LengthOf(ids[i]), MainPacket.body[1][1]) = SlicesOf(i)
  <2>1. FileWords[i] \in Nat /\ SliceWords \in Nat \ {0}
    BY SourceIs, EncodeAssumption
  <2>2. DivCeil(4 * FileWords[i], 4 * SliceWords) = DivCeil(FileWords[i], SliceWords)
    BY <2>1, CeilOfFours
  <2> QED BY <1>2, <1>3, <2>2 DEF SlicesOf
<1>5. ReaderSlices(file, MainPacket)
        = FlattenSeq([i \in DOMAIN ids |->
            [s \in 1 .. DivCeil(LengthOf(ids[i]), MainPacket.body[1][1]) |-> <<i, s - 1>>]])
  BY DEF ReaderSlices
<1>6. DOMAIN ids = Files
  BY <1>1
<1>7. [i \in DOMAIN ids |->
         [s \in 1 .. DivCeil(LengthOf(ids[i]), MainPacket.body[1][1]) |-> <<i, s - 1>>]]
        = FileSlices
  <2> HIDE DEF ids, LengthOf
  <2> QED BY <1>4, <1>6 DEF FileSlices
<1> QED BY <1>5, <1>7 DEF InOrder

\* Where they are.
LEMMA InOrderIs ==
  ASSUME EncodeTypeOK
  PROVE  \E b : /\ b[1] = 0
                /\ \A i \in Files : /\ b[i] \in Nat /\ b[i + 1] = b[i] + SlicesOf(i)
                                    /\ InOrder[b[i] + 1] = <<i, 0>>
<1> DEFINE n == Len(FileWords)
           T == Files \X Nat
<1>1. n \in Nat /\ Files = 1 .. n /\ \A i \in Files : SlicesOf(i) \in Nat \ {0}
  BY SourcesAreTheFiles, SourceIs
<1> HIDE DEF n
<1>2. ASSUME NEW i \in Files
      PROVE  FileSlices[i] \in Seq(T) /\ Len(FileSlices[i]) = SlicesOf(i) /\ FileSlices[i][1] = <<i, 0>>
  <2> DEFINE m == SlicesOf(i)
  <2>1. FileSlices[i] = [s \in 1 .. m |-> <<i, s - 1>>]
    BY DEF FileSlices
  <2>2. m \in Nat \ {0} /\ \A s \in 1 .. m : <<i, s - 1>> \in T
    BY <1>1
  <2> HIDE DEF m, T
  <2>3. FileSlices[i] \in Seq(T) /\ Len(FileSlices[i]) = m
    BY <2>1, <2>2
  <2>4. 1 \in 1 .. m /\ 1 - 1 = 0
    BY <2>2
  <2>5. FileSlices[i][1] = <<i, 0>>
    BY <2>1, <2>4
  <2> QED BY <2>3, <2>5 DEF m
<1>3. FileSlices \in [1 .. n -> Seq(T)]
  <2>1. FileSlices = [i \in 1 .. n |-> FileSlices[i]]
    BY <1>1 DEF FileSlices
  <2> QED BY <1>1, <1>2, <2>1
<1> HIDE DEF T
<1>4. PICK b : Begins(T, n, FileSlices, b) /\ Follows(T, n, FileSlices, b, InOrder)
  BY <1>1, <1>3, FlattenedPlaces DEF InOrder
<1>5. b[1] = 0
  BY <1>4 DEF Begins
<1>6. ASSUME NEW i \in Files
      PROVE  b[i] \in Nat /\ b[i + 1] = b[i] + SlicesOf(i) /\ InOrder[b[i] + 1] = <<i, 0>>
  <2>1. i \in 1 .. n /\ i \in 1 .. n + 1
    BY <1>1
  <2>2. b[i] \in Nat /\ b[i + 1] = b[i] + SlicesOf(i)
    BY <1>2, <1>4, <2>1 DEF Begins
  <2>3. 1 \in 1 .. Len(FileSlices[i])
    BY <1>1, <1>2
  <2>4. InOrder[b[i] + 1] = FileSlices[i][1]
    BY <1>4, <2>1, <2>3 DEF Follows
  <2> QED BY <1>2, <2>2, <2>4
<1> QED BY <1>5, <1>6

\* The first words of the slices tell in which order the slices were combined.
LEMMA OrderIsSeen ==
  ASSUME EncodeTypeOK, NEW e,
         Reference(SliceList(sources), Len(SliceList(sources)), e, 0)
           = Reference(InOrder, Len(InOrder), e, 0)
  PROVE  \A i \in Files : sources[i] = i
<1> DEFINE n == Len(FileWords)
           list == SliceList(sources)
           in(l, j) == l[j][2] * SliceWords + 0 < FileWords[l[j][1]]
           term(l, j) == <<e, j - 1, <<l[j][1], l[j][2] * SliceWords + 0>>>>
<1>1. /\ n \in Nat /\ Files = 1 .. n /\ Len(sources) = n /\ sources \in [Files -> Files]
      /\ \A f \in Files : FileWords[f] \in Nat \ {0} /\ SlicesOf(f) \in Nat \ {0}
      /\ SliceWords \in Nat
  BY SourcesAreTheFiles, SourceIs, EncodeAssumption
<1>2. PICK b : /\ b[1] = 0
               /\ \A i \in Files : /\ b[i] \in Nat /\ b[i + 1] = b[i] + SlicesOf(i)
                                   /\ InOrder[b[i] + 1] = <<i, 0>>
  BY InOrderIs
<1>3. /\ Before[1] = 0
      /\ \A i \in Files : /\ Before[i] \in Nat /\ Before[i + 1] = Before[i] + SlicesOf(sources[i])
                          /\ Before[i] + 1 \in 1 .. Len(list) /\ list[Before[i] + 1] = <<sources[i], 0>>
  <2>0. Before[1] = 0
    BY BeforeNext
  <2> SUFFICES ASSUME NEW i \in Files
               PROVE  /\ Before[i] \in Nat /\ Before[i + 1] = Before[i] + SlicesOf(sources[i])
                      /\ Before[i] + 1 \in 1 .. Len(list) /\ list[Before[i] + 1] = <<sources[i], 0>>
    BY <2>0
  <2>1. i \in 1 .. Len(sources) /\ i \in 1 .. Len(sources) + 1
    BY <1>1
  <2>2. Before[i] \in Nat /\ Before[i + 1] = Before[i] + SlicesOf(sources[i])
    BY <2>1, BeforeNext
  <2>3. 0 \in 0 .. SlicesOf(sources[i]) - 1
    BY <1>1
  <2>4. list[Before[i] + 0 + 1] = <<sources[i], 0>>
    BY <2>1, <2>3, SliceIsAt
  <2>5. Before[i] + 0 + 1 = Before[i] + 1
    BY <2>2
  <2>6. Before[i] + 1 \in 1 .. Len(list)
    <3>1. /\ Before[i + 1] <= Len(list) /\ Before[i + 1] = Before[i] + SlicesOf(sources[i])
          /\ SlicesOf(sources[i]) \in Nat \ {0}
      BY <1>1, <2>1, <2>2, SliceIsAt
    <3>2. Len(list) \in Nat
      BY SliceIsAt
    <3> DEFINE x == Before[i]
               y == SlicesOf(sources[i])
    <3>3. x \in Nat /\ y \in Nat \ {0} /\ x + y <= Len(list)
      BY <2>2, <3>1
    <3> HIDE DEF x, y, list
    <3>4. x + 1 \in 1 .. Len(list)
      BY <3>2, <3>3
    <3> QED BY <3>4 DEF x
  <2> QED BY <2>2, <2>4, <2>5, <2>6
<1> HIDE DEF list, n
<1>4. {term(list, j) : j \in {k \in 1 .. Len(list) : in(list, k)}}
        = {term(InOrder, j) : j \in {k \in 1 .. Len(InOrder) : in(InOrder, k)}}
  BY DEF Reference, list
<1>5. ASSUME NEW i \in Files, Before[i] = b[i] PROVE sources[i] = i
  <2> DEFINE t == Before[i] + 1
             f == sources[i]
  <2>1. t \in 1 .. Len(list) /\ list[t] = <<f, 0>> /\ f \in Files
    BY <1>1, <1>3
  <2>2. InOrder[t] = <<i, 0>> /\ t \in Nat
    BY <1>2, <1>3, <1>5
  <2> HIDE DEF t, f
  <2>3. 0 * SliceWords + 0 = 0
    BY <1>1
  <2>4. in(list, t) /\ term(list, t) = <<e, t - 1, <<f, 0>>>>
    BY <1>1, <2>1, <2>3
  <2>5. PICK j \in 1 .. Len(InOrder) : term(InOrder, j) = <<e, t - 1, <<f, 0>>>>
    <3> HIDE DEF in, term
    <3> QED BY <1>4, <2>1, <2>4
  <2>6. j - 1 = t - 1 /\ InOrder[j][1] = f
    BY <2>5
  <2>7. j = t
    BY <2>2, <2>6
  <2> QED BY <2>2, <2>6, <2>7 DEF f
<1> DEFINE S == {k \in Nat : k + 1 \in Files => Before[k + 1] = b[k + 1]}
<1>6. 0 \in S
  BY <1>2, <1>3
<1>7. ASSUME NEW k \in Nat, k \in S PROVE k + 1 \in S
  <2> SUFFICES ASSUME (k + 1) + 1 \in Files PROVE Before[(k + 1) + 1] = b[(k + 1) + 1]
    OBVIOUS
  <2>1. k + 1 \in Files
    BY <1>1
  <2>2. Before[k + 1] = b[k + 1] /\ sources[k + 1] = k + 1
    BY <1>5, <1>7, <2>1
  <2> QED BY <1>2, <1>3, <2>1, <2>2
<1>8. Nat \subseteq S
  <2> HIDE DEF S
  <2> QED BY <1>6, <1>7, NatInSet
<1>9. ASSUME NEW i \in Files PROVE sources[i] = i
  <2> DEFINE k == i - 1
  <2>1. k \in Nat /\ k + 1 = i
    BY <1>1
  <2>2. k \in S
    BY <1>8, <2>1
  <2> HIDE DEF k
  <2>3. Before[i] = b[i]
    BY <2>1, <2>2
  <2> QED BY <2>3, <1>5
<1> QED BY <1>9

-----------------------------------------------------------------------------
(* Every volume                                                            *)

\* What is in the files that have been written: the index is made of the
\* sources as they are given, and a volume of the buffers that the encode has
\* left for good.
ContentInv ==
  /\ fileIds \in IdTables
  /\ index # <<>> => index = Critical
  /\ sizes # <<>> => pc = "done"
  /\ \A v \in DOMAIN sizes :
       NameOf(v) \in DOMAIN volumes =>
         volumes[NameOf(v)] = BuildVolumePacket(index[1].setId, index, Slots(v), FirstExp(v))

\* The index depends on what the create is given, which does not change.
LEMMA CriticalStays ==
  ASSUME UNCHANGED <<sources, scanned, fileIds>>
  PROVE  Critical' = Critical
BY DEF Critical, Source, SlicesOf

\* Each step of a create keeps the contents what they are.
LEMMA ContentStep ==
  ASSUME WrittenInv, ContentInv, [FNext]_<<vars, files>>
  PROVE  ContentInv'
<1>1. CASE WriteIndex
  <2>1. /\ index = <<>> /\ index' = Critical
        /\ UNCHANGED <<vars, fileIds, sizes, volumes>>
    BY <1>1 DEF WriteIndex
  <2>2. DOMAIN sizes = {} /\ sizes = <<>>
    BY <2>1 DEF WrittenInv
  <2>3. Critical' = Critical
    BY <2>1, CriticalStays DEF vars
  <2> QED BY <2>1, <2>2, <2>3 DEF ContentInv
<1>2. CASE Encode
  <2>1. UNCHANGED <<fileIds, index, sizes, volumes>> /\ Next
    BY <1>2 DEF Encode, files
  <2>2. UNCHANGED given /\ pc # "done"
    BY <2>1 DEF Next, OpenFile, LoadSlice, Accumulate, SliceDone, Encoded
  <2>3. Critical' = Critical
    BY <2>1, <2>2, CriticalStays DEF given
  <2>4. sizes = <<>> /\ DOMAIN sizes = {}
    BY <2>2 DEF ContentInv
  <2> QED BY <2>1, <2>3, <2>4 DEF ContentInv
<1>3. CASE UNCHANGED <<vars, files>>
  <2>1. UNCHANGED <<sources, scanned, pc, buf, fileIds, index, sizes, volumes>>
    BY <1>3 DEF files, vars
  <2>2. Critical' = Critical
    BY <2>1, CriticalStays
  <2> QED BY <2>1, <2>2 DEF ContentInv, NameOf, FirstExp, Slots
<1>4. CASE ResolveVolumes
  <2>1. /\ pc = "done" /\ sizes = <<>>
        /\ UNCHANGED <<sources, scanned, pc, buf, fileIds, index, volumes>>
    BY <1>4 DEF ResolveVolumes, vars
  <2>2. DOMAIN volumes = {}
    <3>1. DOMAIN sizes = {}
      BY <2>1
    <3>2. DOMAIN volumes \subseteq {NameOf(v) : v \in DOMAIN sizes}
      BY DEF WrittenInv
    <3>3. {NameOf(v) : v \in DOMAIN sizes} = {}
      BY <3>1
    <3> QED BY <3>2, <3>3
  <2>3. Critical' = Critical
    BY <2>1, CriticalStays
  <2> QED BY <2>1, <2>2, <2>3 DEF ContentInv
<1>5. CASE \E v \in DOMAIN sizes : WriteVolume(v)
  <2>1. PICK v \in DOMAIN sizes : WriteVolume(v)
    BY <1>5
  <2> DEFINE Built(u) == BuildVolumePacket(index[1].setId, index, Slots(u), FirstExp(u))
  <2>2. /\ UNCHANGED <<sources, scanned, pc, buf, fileIds, index, sizes>>
        /\ volumes' = [name \in DOMAIN volumes \cup {NameOf(v)} |->
                         IF name = NameOf(v) THEN Built(v) ELSE volumes[name]]
    BY <2>1 DEF WriteVolume, vars
  <2>3. \A u : NameOf(u)' = NameOf(u) /\ Built(u)' = Built(u)
    BY <2>2 DEF NameOf, FirstExp, Slots
  <2>4. Critical' = Critical
    BY <2>2, CriticalStays
  <2>5. \A u \in DOMAIN sizes : NameOf(u) = NameOf(v) => Built(u) = Built(v)
    BY DEF NameOf, Slots
  <2>6. \A u \in DOMAIN sizes : NameOf(u) \in DOMAIN volumes => volumes[NameOf(u)] = Built(u)
    BY DEF ContentInv
  <2> HIDE DEF Built
  <2>7. \A u \in DOMAIN sizes : NameOf(u) \in DOMAIN volumes' => volumes'[NameOf(u)] = Built(u)
    BY <2>2, <2>5, <2>6
  <2>8. (\A u \in DOMAIN sizes : NameOf(u) \in DOMAIN volumes => volumes[NameOf(u)] = Built(u))'
    BY <2>2, <2>3, <2>7
  <2> QED BY <2>2, <2>4, <2>8 DEF ContentInv, Built
<1> QED BY <1>1, <1>2, <1>3, <1>4, <1>5 DEF FNext

\* So the contents are those in every state.
LEMMA ContentAlways == FSpec => []ContentInv
<1>1. FInit => ContentInv
  <2> SUFFICES ASSUME FInit PROVE ContentInv
    OBVIOUS
  <2>1. DOMAIN sizes = {} /\ sizes = <<>> /\ index = <<>> /\ fileIds \in IdTables
    BY DEF FInit
  <2> QED BY <2>1 DEF ContentInv
<1>2. WrittenInv /\ ContentInv /\ [FNext]_<<vars, files>> => ContentInv'
  BY ContentStep
<1> QED BY <1>1, <1>2, WrittenAlways, PTL DEF FSpec

\* A volume is a file of the set, and its recovery packets carry the terms of
\* the slices in the order in which the files were given.
LEMMA WrittenVolume ==
  ASSUME EncodeInv, WrittenInv, ContentInv, NEW v \in DOMAIN sizes, NameOf(v) \in DOMAIN volumes
  PROVE  \E recvs :
           /\ FileOf(volumes[NameOf(v)], recvs)
           /\ recvs # {}
           /\ \A p \in recvs : \A k \in Words :
                p.body[2][1][k] =
                  Reference(SliceList(sources), Len(SliceList(sources)), p.body[1][1], k)
<1> DEFINE m == sizes[v]
           first == FirstExp(v)
           file == volumes[NameOf(v)]
           slots == Slots(v)
           recv(i) == BuildRecoveryPacket(SetId, first + i - 1, slots[i])
           R == {recv(i) : i \in 1 .. m}
<1>1. sizes # <<>> /\ EncodeTypeOK
  BY DEF EncodeInv
<1>2. /\ index = Critical /\ pc = "done"
      /\ file = BuildVolumePacket(index[1].setId, index, slots, first)
  BY <1>1 DEF ContentInv, WrittenInv
<1>3. index[1].setId = SetId
  BY <1>1, <1>2, IndexHas, OtherPackets
<1>4. m \in Nat \ {0} /\ first \in Nat /\ first + m <= Recovery
  <2>1. /\ sizes \in Seq(Nat \ {0}) /\ DOMAIN sizes = 1 .. Len(sizes) /\ Len(sizes) \in Nat
        /\ BlocksBefore(sizes, Len(sizes) + 1) = Recovery
        /\ m \in Nat \ {0} /\ first \in Nat
    BY <1>1, LayoutFacts
  <2>2. first + m <= Recovery
    <3>1. CASE v = Len(sizes)
      <4>1. BlocksBefore(sizes, v + 1) = BlocksBefore(sizes, v) + sizes[v]
        BY <2>1, BlocksBeforeIs
      <4> QED BY <2>1, <3>1, <4>1 DEF FirstExp
    <3>2. CASE v # Len(sizes)
      <4> DEFINE w == Len(sizes)
      <4>1. w \in DOMAIN sizes /\ v \in 1 .. w - 1
        BY <2>1, <3>2
      <4>2. first + m <= BlocksBefore(sizes, w)
        BY <2>1, <4>1, BlocksBeforeGrows DEF FirstExp
      <4>3. Recovery = BlocksBefore(sizes, w) + sizes[w]
        BY <2>1, <4>1, BlocksBeforeIs
      <4>4. BlocksBefore(sizes, w) \in Nat /\ sizes[w] \in Nat
        BY <1>1, <4>1, LayoutFacts DEF FirstExp
      <4> DEFINE x == BlocksBefore(sizes, w)
                 y == sizes[w]
                 z == first + m
      <4>5. z \in Nat /\ z <= x /\ Recovery = x + y /\ x \in Nat /\ y \in Nat
        BY <2>1, <4>2, <4>3, <4>4
      <4> HIDE DEF x, y, z
      <4>6. z <= Recovery
        BY <4>5
      <4> QED BY <4>6 DEF z
    <3> QED BY <3>1, <3>2
  <2> QED BY <2>1, <2>2
<1>5. buf = [q \in 0 .. Recovery - 1 |-> [l \in Words |->
               Reference(SliceList(sources), Len(SliceList(sources)), q, l)]]
  <2>1. counter = Len(SliceList(sources))
    BY <1>1, <1>2, SliceIsAt DEF EncodeInv, PlaceInv
  <2>2. buf = [q \in 0 .. Recovery - 1 |-> [l \in Words |->
                 Reference(SliceList(sources), counter, q, l)]]
    BY <1>2, BufAtRest DEF EncodeInv
  <2> QED BY <2>1, <2>2
<1>6. DOMAIN slots = 1 .. m /\ \A i \in 1 .. m : slots[i] = buf[first + i - 1]
  BY DEF Slots
<1> HIDE DEF slots, m, first, file
<1>7. ASSUME NEW i \in 1 .. m
      PROVE  /\ DOMAIN slots[i] = Words
             /\ \A k \in Words : slots[i][k] =
                  Reference(SliceList(sources), Len(SliceList(sources)), first + i - 1, k)
  <2>1. Recovery \in Nat
    BY EncodeAssumption
  <2> DEFINE e == first + i - 1
  <2>2. e \in 0 .. Recovery - 1
    BY <1>4, <2>1
  <2> HIDE DEF e
  <2>3. slots[i] = [l \in Words |-> Reference(SliceList(sources), Len(SliceList(sources)), e, l)]
    BY <1>5, <1>6, <2>2 DEF e
  <2> QED BY <2>3 DEF e
<1>8. FileOf(file, R)
  <2>1. m \in Nat /\ \A i \in 1 .. m : DOMAIN slots[i] = Words
    BY <1>4, <1>7
  <2>2. FileOf(BuildVolumePacket(SetId, Critical, slots, first),
               {BuildRecoveryPacket(SetId, first + i - 1, slots[i]) : i \in 1 .. m})
    BY <1>1, <1>6, <2>1, VolumeIs
  <2> QED BY <1>2, <1>3, <2>2
<1>9. R # {}
  <2>1. 1 \in 1 .. m
    BY <1>4
  <2> QED BY <2>1
<1>10. ASSUME NEW p \in R, NEW k \in Words
       PROVE  p.body[2][1][k] =
                Reference(SliceList(sources), Len(SliceList(sources)), p.body[1][1], k)
  <2>1. PICK i \in 1 .. m : p = recv(i)
    OBVIOUS
  <2>2. p.body[1][1] = first + i - 1 /\ p.body[2][1] = slots[i]
    BY <2>1, <1>7, RecoveryIs
  <2> HIDE DEF R
  <2> QED BY <2>2, <1>7
<1> HIDE DEF R
<1> QED BY <1>8, <1>9, <1>10 DEF file

\* Its reader can decode when the files were given in the order of their ids,
\* and not otherwise.
LEMMA DecodableWhenAscending ==
  ASSUME EncodeTypeOK, fileIds \in IdTables, TellApart, scanned = SliceWords,
         NEW file, NEW recvs, FileOf(file, recvs), recvs # {},
         \A p \in recvs : \A k \in Words :
           p.body[2][1][k] =
             Reference(SliceList(sources), Len(SliceList(sources)), p.body[1][1], k)
  PROVE  Decodable(file, MainPacket) <=> Ascending
<1>1. Decodable(file, MainPacket) <=>
        \A p \in recvs, k \in Words :
          p.body[2][1][k] = Reference(InOrder, Len(InOrder), p.body[1][1], k)
  BY ReaderSlicesAre DEF Decodable, FileOf
<1>2. ASSUME Ascending PROVE SliceList(sources) = InOrder
  <2>1. DOMAIN sources = Files /\ \A i \in Files : sources[i] = i
    BY <1>2, AscendingSources, SourcesAreTheFiles
  <2>2. [i \in DOMAIN sources |-> [s \in 1 .. SlicesOf(sources[i]) |-> <<sources[i], s - 1>>]] = FileSlices
    BY <2>1 DEF FileSlices
  <2> QED BY <2>2 DEF SliceList, InOrder
<1>3. ASSUME Decodable(file, MainPacket) PROVE Ascending
  <2>1. PICK p \in recvs : TRUE
    OBVIOUS
  <2>2. 0 \in Words
    BY EncodeAssumption DEF Words
  <2>3. Reference(SliceList(sources), Len(SliceList(sources)), p.body[1][1], 0)
          = Reference(InOrder, Len(InOrder), p.body[1][1], 0)
    BY <1>1, <1>3, <2>1, <2>2
  <2> DEFINE e == p.body[1][1]
  <2> HIDE DEF e
  <2>4. \A i \in Files : sources[i] = i
    BY <2>3, OrderIsSeen DEF e
  <2> QED BY <2>4, AscendingSources
<1> QED BY <1>1, <1>2, <1>3

\* For any files, ids, comments, layout and recovery data: a volume on its own
\* is all that a reader needs exactly when the files were scanned with the
\* slice size of the create, were given in the order of their ids and have
\* ids that differ.
THEOREM AVolumeStandsAlone == FSpec => []VolumesStandAlone
<1>1. EncodeInv /\ WrittenInv /\ ContentInv => VolumesStandAlone
  <2> SUFFICES ASSUME EncodeInv, WrittenInv, ContentInv, NEW name \in DOMAIN volumes
               PROVE  StandsAlone(volumes[name]) <=> scanned = SliceWords /\ Ascending /\ TellApart
    BY DEF VolumesStandAlone
  <2>1. PICK v \in DOMAIN sizes : name = NameOf(v)
    BY DEF WrittenInv
  <2> DEFINE file == volumes[name]
  <2>2. EncodeTypeOK /\ fileIds \in IdTables
    BY DEF EncodeInv, ContentInv
  <2>3. PICK recvs :
          /\ FileOf(file, recvs) /\ recvs # {}
          /\ \A p \in recvs : \A k \in Words :
               p.body[2][1][k] =
                 Reference(SliceList(sources), Len(SliceList(sources)), p.body[1][1], k)
    BY <2>1, WrittenVolume
  <2> HIDE DEF file
  <2>4. Linked(file)
    <3>1. OfType(file, "CommUni") = Unicodes /\ OfType(file, "CommASCI") = Asciis
      BY <2>3 DEF FileOf
    <3>2. ASSUME NEW p \in Unicodes
          PROVE  \E q \in Asciis : q.hash = p.body[1][1] /\ IsAscii(q.body[1][1])
      <4>1. PICK c \in DOMAIN Comments : p = Unicode(c)
        BY DEF Unicodes
      <4>2. Ascii(c) \in Asciis
        BY DEF Asciis
      <4>3. Ascii(c).hash = p.body[1][1] /\ IsAscii(Ascii(c).body[1][1])
        BY <2>2, <4>1, OtherPackets
      <4> QED BY <4>2, <4>3
    <3> QED BY <3>1, <3>2 DEF Linked
  <2>5. /\ MainPacket.setId = Md5(MainPacket.body)
        /\ \A p \in Range(file) : Sound(p, MainPacket.setId)
    BY <2>2, <2>3, OtherPackets DEF FileOf
  <2>6. StandsAlone(file) <=> Described(file, MainPacket) /\ Decodable(file, MainPacket)
    <3>1. OfType(file, "Main") = {MainPacket}
      BY <2>3 DEF FileOf
    <3> QED BY <2>4, <2>5, <3>1 DEF StandsAlone
  <2>7. Described(file, MainPacket) => TellApart
    BY <2>2, <2>3, DescribedTellsApart
  <2>8. TellApart => (Described(file, MainPacket) <=> scanned = SliceWords)
    BY <2>2, <2>3, DescribedWhenScanned
  <2>9. TellApart /\ scanned = SliceWords => (Decodable(file, MainPacket) <=> Ascending)
    BY <2>2, <2>3, DecodableWhenAscending
  <2> QED BY <2>6, <2>7, <2>8, <2>9 DEF file
<1> QED BY <1>1, FilesFollow, WrittenAlways, ContentAlways, PTL

=============================================================================
