------------------------------- MODULE Md5Neon -------------------------------
(***************************************************************************)
(* digest4 (md5_mb_neon.rs): four MD5 digests at once, one stream in each  *)
(* lane of the NEON registers.  A call takes the full blocks from the      *)
(* buffers, then one or two blocks of padding, and last the digests out of *)
(* the lanes.                                                              *)
(*                                                                         *)
(* A word is the set of the positions of its 1 bits, a register a        *)
(* sequence of four words, a byte a number.                                *)
(***************************************************************************)
EXTENDS Integers, Sequences, SequencesExt

CONSTANT Batches  \* the batches of four buffers that digest4 is called with

Lanes == 1 .. 4

ASSUME BatchAssumption ==
  \A batch \in Batches :
    /\ DOMAIN batch = Lanes
    /\ \A lane \in Lanes : Len(batch[lane]) = Len(batch[1])
    /\ \A lane \in Lanes : \A i \in DOMAIN batch[lane] : batch[lane][i] \in 0 .. 255

VARIABLES
  stage,    \* of the call: "idle", "full", "pad0", "pad1", "extract", "done"
  bufs,     \* the batch, <<>> before the call
  ptr,      \* where the next full block starts, in every lane
  abcd,     \* the registers a, b, c, d
  digests   \* the result, by lane

md5vars == <<stage, bufs, ptr, abcd, digests>>

-----------------------------------------------------------------------------
(* Words.                                                                  *)

Bit == 0 .. 31

And(x, y) == {i \in x : i \in y}
Orr(x, y) == {i \in Bit : i \in x \/ i \in y}
Eor(x, y) == {i \in Bit : (i \in x) # (i \in y)}
Mvn(x) == {i \in Bit : i \notin x}
Select(mask, x, y) == {i \in Bit : IF i \in mask THEN i \in x ELSE i \in y}

\* Modulo 2^32: what is carried out of bit 31 is lost.
RECURSIVE WordAdd(_, _)
WordAdd(x, y) ==
  IF y = {} THEN x ELSE WordAdd(Eor(x, y), {i + 1 : i \in And(x, y) \ {31}})

Rotl(x, s) == {(i + s) % 32 : i \in x}

\* The bits of a number, moved up by so many places.
Bits(n, shift) == {k + shift : k \in {i \in 0 .. 15 : (n \div 2 ^ i) % 2 = 1}}

\* u32::from_le_bytes and to_le_bytes
FromLeBytes(b) == UNION {Bits(b[j + 1], 8 * j) : j \in 0 .. 3}

ToLeBytes(word) ==
  [j \in 1 .. 4 |->
     FoldSet(LAMBDA i, n : n + 2 ^ (i - 8 * (j - 1)), 0,
             word \cap 8 * (j - 1) .. 8 * j - 1)]

\* A word from its two halves.
Word(halves) == Bits(halves[1], 16) \cup Bits(halves[2], 0)

T == [i \in 0 .. 63 |-> Word(<<
  <<\hd76a, \ha478>>, <<\he8c7, \hb756>>, <<\h2420, \h70db>>, <<\hc1bd, \hceee>>,
  <<\hf57c, \h0faf>>, <<\h4787, \hc62a>>, <<\ha830, \h4613>>, <<\hfd46, \h9501>>,
  <<\h6980, \h98d8>>, <<\h8b44, \hf7af>>, <<\hffff, \h5bb1>>, <<\h895c, \hd7be>>,
  <<\h6b90, \h1122>>, <<\hfd98, \h7193>>, <<\ha679, \h438e>>, <<\h49b4, \h0821>>,
  <<\hf61e, \h2562>>, <<\hc040, \hb340>>, <<\h265e, \h5a51>>, <<\he9b6, \hc7aa>>,
  <<\hd62f, \h105d>>, <<\h0244, \h1453>>, <<\hd8a1, \he681>>, <<\he7d3, \hfbc8>>,
  <<\h21e1, \hcde6>>, <<\hc337, \h07d6>>, <<\hf4d5, \h0d87>>, <<\h455a, \h14ed>>,
  <<\ha9e3, \he905>>, <<\hfcef, \ha3f8>>, <<\h676f, \h02d9>>, <<\h8d2a, \h4c8a>>,
  <<\hfffa, \h3942>>, <<\h8771, \hf681>>, <<\h6d9d, \h6122>>, <<\hfde5, \h380c>>,
  <<\ha4be, \hea44>>, <<\h4bde, \hcfa9>>, <<\hf6bb, \h4b60>>, <<\hbebf, \hbc70>>,
  <<\h289b, \h7ec6>>, <<\heaa1, \h27fa>>, <<\hd4ef, \h3085>>, <<\h0488, \h1d05>>,
  <<\hd9d4, \hd039>>, <<\he6db, \h99e5>>, <<\h1fa2, \h7cf8>>, <<\hc4ac, \h5665>>,
  <<\hf429, \h2244>>, <<\h432a, \hff97>>, <<\hab94, \h23a7>>, <<\hfc93, \ha039>>,
  <<\h655b, \h59c3>>, <<\h8f0c, \hcc92>>, <<\hffef, \hf47d>>, <<\h8584, \h5dd1>>,
  <<\h6fa8, \h7e4f>>, <<\hfe2c, \he6e0>>, <<\ha301, \h4314>>, <<\h4e08, \h11a1>>,
  <<\hf753, \h7e82>>, <<\hbd3a, \hf235>>, <<\h2ad7, \hd2bb>>, <<\heb86, \hd391>>
  >>[i + 1])]

\* A_INIT, B_INIT, C_INIT, D_INIT
INIT == << Word(<<\h6745, \h2301>>), Word(<<\hefcd, \hab89>>),
           Word(<<\h98ba, \hdcfe>>), Word(<<\h1032, \h5476>>) >>

-----------------------------------------------------------------------------
(* Registers: every intrinsic works lane by lane.                          *)

Lanewise(Op(_, _), v, w) == 
  <<Op(v[1], w[1]), Op(v[2], w[2]), Op(v[3], w[3]), Op(v[4], w[4])>>

Dup(word) == <<word, word, word, word>>
Vadd(v, w) == Lanewise(WordAdd, v, w)
Veor(v, w) == Lanewise(Eor, v, w)
Vorr(v, w) == Lanewise(Orr, v, w)
Vmvn(v) == <<Mvn(v[1]), Mvn(v[2]), Mvn(v[3]), Mvn(v[4])>>
Bsl(mask, x, y) ==
  << Select(mask[1], x[1], y[1]), Select(mask[2], x[2], y[2]),
     Select(mask[3], x[3], y[3]), Select(mask[4], x[4], y[4]) >>

\* step!: the register called a is overwritten, and the next step calls the
\* four of them d, a, b, c.
Step(r, f, m, i, s) ==
  LET sum == Vadd(Vadd(Vadd(r[1], f), m), Dup(T[i]))
      rotated == <<Rotl(sum[1], s), Rotl(sum[2], s), Rotl(sum[3], s), Rotl(sum[4], s)>>
  IN  <<r[4], Vadd(r[2], rotated), r[2], r[3]>>

\* Sixteen steps: the words of the message in the order idx, the shifts in a
\* cycle of four, and F of the registers b, c, d.
Steps(r0, m, round, F(_, _, _), idx, shifts) ==
  FoldLeft(LAMBDA r, k : Step(r, F(r[2], r[3], r[4]), m[idx[k + 1]],
                              16 * round + k, shifts[(k % 4) + 1]),
           r0, [k \in 1 .. 16 |-> k - 1])

Round1(r, m) ==
  Steps(r, m, 0, LAMBDA b, c, d : Bsl(b, c, d),
        <<0, 1, 2, 3, 4, 5, 6, 7, 8, 9, 10, 11, 12, 13, 14, 15>>, <<7, 12, 17, 22>>)

Round2(r, m) ==
  Steps(r, m, 1, LAMBDA b, c, d : Bsl(d, b, c),
        <<1, 6, 11, 0, 5, 10, 15, 4, 9, 14, 3, 8, 13, 2, 7, 12>>, <<5, 9, 14, 20>>)

Round3(r, m) ==
  Steps(r, m, 2, LAMBDA b, c, d : Veor(Veor(b, c), d),
        <<5, 8, 11, 14, 1, 4, 7, 10, 13, 0, 3, 6, 9, 12, 15, 2>>, <<4, 11, 16, 23>>)

Round4(r, m) ==
  Steps(r, m, 3, LAMBDA b, c, d : Veor(c, Vorr(b, Vmvn(d))),
        <<0, 7, 14, 5, 12, 3, 10, 1, 8, 15, 6, 13, 4, 11, 2, 9>>, <<6, 10, 15, 21>>)

Md5Block(r, m) ==
  LET r4 == Round4(Round3(Round2(Round1(r, m), m), m), m)
  IN  <<Vadd(r[1], r4[1]), Vadd(r[2], r4[2]), Vadd(r[3], r4[3]), Vadd(r[4], r4[4])>>

\* srcs: for each lane, the bytes from its block on
LoadBlockMessage(srcs) ==
  [i \in 0 .. 15 |-> [lane \in Lanes |-> FromLeBytes(SubSeq(srcs[lane], 4 * i + 1, 4 * i + 4))]]

-----------------------------------------------------------------------------
(* digest4_neon.                                                           *)

BLOCK == 64

Zeros(n) == [i \in 1 .. n |-> 0]

len == Len(bufs[1])
remainder == len % BLOCK

\* Mutant: a tail of exactly 56 bytes is taken to leave room for the length.
MutTwoBlocks == remainder > 56

TwoBlocks == remainder >= 56

\* The low two bytes of the length in bits; no batch is longer.
BitLength == << (8 * len) % 256, (8 * len) \div 256, 0, 0, 0, 0, 0, 0>>

\* The tail, the sentinel, zeros; the length goes where there is room for it,
\* over what stands there.
Pad0(lane) ==
  LET tail == SubSeq(bufs[lane], (len \div BLOCK) * BLOCK + 1, len)
      pad  == tail \o <<128>> \o Zeros(BLOCK - 1 - remainder)
  IN  IF TwoBlocks THEN pad ELSE SubSeq(pad, 1, 56) \o BitLength

Pad1(lane) == Zeros(56) \o BitLength

Md5Init ==
  /\ stage = "idle"
  /\ bufs = <<>> /\ ptr = 0
  /\ abcd = [q \in 1 .. 4 |-> Dup(INIT[q])]
  /\ digests = <<>>

Digest4 ==
  /\ stage = "idle"
  /\ bufs' \in Batches
  /\ stage' = "full"
  /\ UNCHANGED <<ptr, abcd, digests>>

FullBlock ==
  /\ stage = "full" /\ ptr < (len \div BLOCK) * BLOCK
  /\ abcd' = Md5Block(abcd, LoadBlockMessage(
               [lane \in Lanes |-> SubSeq(bufs[lane], ptr + 1, ptr + BLOCK)]))
  /\ ptr' = ptr + BLOCK
  /\ UNCHANGED <<stage, bufs, digests>>

LastFullBlock ==
  /\ stage = "full" /\ ptr = (len \div BLOCK) * BLOCK
  /\ stage' = "pad0"
  /\ UNCHANGED <<bufs, ptr, abcd, digests>>

PadBlock0 ==
  /\ stage = "pad0"
  /\ abcd' = Md5Block(abcd, LoadBlockMessage([lane \in Lanes |-> Pad0(lane)]))
  /\ stage' = IF TwoBlocks THEN "pad1" ELSE "extract"
  /\ UNCHANGED <<bufs, ptr, digests>>

PadBlock1 ==
  /\ stage = "pad1"
  /\ abcd' = Md5Block(abcd, LoadBlockMessage([lane \in Lanes |-> Pad1(lane)]))
  /\ stage' = "extract"
  /\ UNCHANGED <<bufs, ptr, digests>>

Extract ==
  /\ stage = "extract"
  /\ digests' = [lane \in Lanes |->
                   ToLeBytes(abcd[1][lane]) \o ToLeBytes(abcd[2][lane])
                   \o ToLeBytes(abcd[3][lane]) \o ToLeBytes(abcd[4][lane])]
  /\ stage' = "done"
  /\ UNCHANGED <<bufs, ptr, abcd>>

Md5Next ==
  Digest4 \/ FullBlock \/ LastFullBlock \/ PadBlock0 \/ PadBlock1 \/ Extract

-----------------------------------------------------------------------------
(* MD5 of one stream as RFC 1321 defines it: the message is padded first,  *)
(* as a whole, and step i works out for itself which word it takes.        *)

Padded(s) ==
  LET zeros == CHOOSE z \in 0 .. 63 : (Len(s) + 1 + z) % 64 = 56
  IN  s \o <<128>> \o Zeros(zeros)
        \o <<(8 * Len(s)) % 256, (8 * Len(s)) \div 256>> \o Zeros(6)

RfcStep(r, x, i) ==
  LET b == r[2]  c == r[3]  d == r[4]
      f == CASE i < 16             -> Orr(And(b, c), And(Mvn(b), d))
             [] i >= 16 /\ i < 32  -> Orr(And(b, d), And(c, Mvn(d)))
             [] i >= 32 /\ i < 48  -> Eor(b, Eor(c, d))
             [] OTHER              -> Eor(c, Orr(b, Mvn(d)))
      k == CASE i < 16             -> i
             [] i >= 16 /\ i < 32  -> (5 * i + 1) % 16
             [] i >= 32 /\ i < 48  -> (3 * i + 5) % 16
             [] OTHER              -> (7 * i) % 16
      s == << <<7, 12, 17, 22>>, <<5, 9, 14, 20>>, <<4, 11, 16, 23>>,
              <<6, 10, 15, 21>> >>[(i \div 16) + 1][(i % 4) + 1]
      sum == WordAdd(WordAdd(r[1], f), WordAdd(x[k], T[i]))
  IN  <<d, WordAdd(b, Rotl(sum, s)), b, c>>

RfcBlock(r, x) ==
  LET r4 == FoldLeft(LAMBDA q, i : RfcStep(q, x, i), r, [i \in 1 .. 64 |-> i - 1])
  IN  <<WordAdd(r[1], r4[1]), WordAdd(r[2], r4[2]), WordAdd(r[3], r4[3]), WordAdd(r[4], r4[4])>>

Rfc1321(s) ==
  LET p     == Padded(s)
      X(n)  == [k \in 0 .. 15 |-> FromLeBytes(SubSeq(p, 64 * n + 4 * k + 1, 64 * n + 4 * k + 4))]
      final == FoldLeft(LAMBDA r, n : RfcBlock(r, X(n)), INIT,
                        [n \in 1 .. Len(p) \div 64 |-> n - 1])
  IN  FlattenSeq([q \in 1 .. 4 |-> ToLeBytes(final[q])])

-----------------------------------------------------------------------------
(* Properties                                                              *)

\* digest4 returns in each lane the MD5 of that lane's buffer, at every length
\* around the boundaries of the blocks and of the padding, and agrees with the
\* RFC's own values for the empty message and for "abc", which no wrong entry
\* of T would give.
DigestsAreScalar ==
  stage = "done" =>
    /\ \A lane \in Lanes : digests[lane] = Rfc1321(bufs[lane])
    /\ \A lane \in Lanes :
         /\ bufs[lane] = <<>> => digests[lane] =
              <<\hd4, \h1d, \h8c, \hd9, \h8f, \h00, \hb2, \h04,
                \he9, \h80, \h09, \h98, \hec, \hf8, \h42, \h7e>>
         /\ bufs[lane] = <<97, 98, 99>> => digests[lane] =
              <<\h90, \h01, \h50, \h98, \h3c, \hd2, \h4f, \hb0,
                \hd6, \h96, \h3f, \h7d, \h28, \he1, \h7f, \h72>>

=============================================================================
