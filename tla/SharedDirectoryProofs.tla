----------------------- MODULE SharedDirectoryProofs -----------------------
(***************************************************************************)
(* Theorems about SharedDirectory, for any number of creates, sources,     *)
(* versions, volume names and edits.  The invariant has a part for the     *)
(* directory, one for each create and one for what the files hold.  A step *)
(* leaves alone what belongs to the other creates (Same), and what it      *)
(* changes of the files they are at work on it adds to what is disturbed   *)
(* (Beside); so each action is looked at once for the create that takes it *)
(* and once, with all others, for the rest.                                *)
(***************************************************************************)
EXTENDS SharedDirectory, FiniteSetTheorems, TLAPS

-----------------------------------------------------------------------------
(* The inductive invariant                                                 *)

IsSeq(s) == Len(s) \in Nat /\ s = [i \in 1 .. Len(s) |-> s[i]]

IsMap(f, S) == DOMAIN f \subseteq S /\ f = [n \in DOMAIN f |-> f[n]]

\* No inode has two names: a rename moves it.
DirInv ==
  /\ dir \in [Names -> Nat]
  /\ IsSeq(inode)
  /\ \A i \in 1 .. Len(inode) : IsSeq(inode[i])
  /\ \A n \in Names : dir[n] <= Len(inode)
  /\ \A m, n \in Names : dir[m] # 0 /\ dir[m] = dir[n] => m = n
  /\ \A s \in Sources : Exists(<<s>>)

TypesOf(c) ==
  /\ pc[c] \in {"idle", "read", "write", "encode"} \cup Stopped
  /\ req[c].volumes \subseteq Volumes
  /\ inputs[c] \subseteq Names
  /\ IsMap(stat[c], inputs[c])
  /\ \A n \in DOMAIN stat[c] : stat[c][n] \in Nat \ {0}
  /\ IsMap(scanned[c], DOMAIN stat[c]) /\ IsMap(encoded[c], DOMAIN stat[c])
  /\ left[c] \subseteq Outputs
  /\ mapped[c].name # None => mapped[c].name \in DOMAIN stat[c]
  /\ mapped[c] = NoMap <=> mapped[c].name = None
  /\ writing[c] # NoFile =>
       writing[c] \in [name : left[c], node : 1 .. Len(inode), blocks : 0 .. FILE_BLOCKS]

\* The CLI has the index to write, and then the inputs to read again.
OnlyIndex(c) == req[c].mode = "legacy" /\ Index \in left[c]

PhaseOf(c) ==
  /\ pc[c] = "idle" => inputs[c] = {} /\ mapped[c] = NoMap
  /\ pc[c] # "idle" => inputs[c] # {} /\ req[c].mode \in {"legacy", "fused"}
  /\ pc[c] = "read" =>
       /\ Index \in left[c]
       /\ req[c].mode = "fused" => DOMAIN scanned[c] \ {mapped[c].name} \subseteq DOMAIN encoded[c]
       /\ req[c].mode = "legacy" => DOMAIN encoded[c] = {}
  /\ pc[c] \in {"write", "encode", "ok"} =>
       DOMAIN stat[c] = inputs[c] /\ DOMAIN scanned[c] = inputs[c] /\ mapped[c] = NoMap
  /\ pc[c] = "encode" => req[c].mode = "legacy" /\ Index \notin left[c]
  /\ pc[c] = "write" => OnlyIndex(c) \/ DOMAIN encoded[c] = inputs[c]
  /\ pc[c] = "ok" => left[c] = {}
  /\ writing[c] # NoFile => /\ pc[c] \in {"write", "killed"}
                            /\ Index \in left[c] => writing[c].name = Index

\* What c has read of a file it is not done with, the file still is.
Fresh(c, n) ==
  /\ Exists(n) /\ Len(Blocks(n)) = stat[c][n]
  /\ n \in DOMAIN scanned[c] => scanned[c][n] = Blocks(n)
  /\ n \in DOMAIN encoded[c] => encoded[c][n] = Blocks(n)
  /\ mapped[c].name = n => mapped[c].node = dir[n] /\ mapped[c].length = stat[c][n]

\* The inputs of the CLI that its own index replaces: the old index, and the
\* tmp file, which is truncated and then renamed away.
OwnIndex(c, n) ==
  /\ req[c].mode = "legacy"
  /\ \/ n = <<Index>> /\ pc[c] # "read"
     \/ n = Tmp(Index) /\ (writing[c].name = Index \/ (dir[n] = 0 /\ Index \notin left[c]))

ReadsOf(c) ==
  \A n \in DOMAIN stat[c] \ disturbed[c] :
    IF n \in DOMAIN scanned[c] \cap DOMAIN encoded[c]
    THEN \/ scanned[c][n] = encoded[c][n] /\ Len(scanned[c][n]) = stat[c][n]
         \/ req[c].mode = "legacy" /\ n = <<Index>>
    ELSE Fresh(c, n) \/ OwnIndex(c, n)

Reading(c) == pc[c] \in {"read", "encode"} \/ (pc[c] = "write" /\ OnlyIndex(c))

\* While c has to open its inputs they are there.
PresentTo(c) ==
  Reading(c) => \A n \in inputs[c] \ disturbed[c] :
    Exists(n) \/ (pc[c] # "read" /\ req[c].mode = "legacy" /\ n = Tmp(Index))

\* What c writes to is under one of the two names of its output, or nowhere
\* any more, and then somebody else took it away.
WritesOf(c) ==
  writing[c] # NoFile =>
    /\ \A n \in Names : dir[n] = writing[c].node => n[1] = writing[c].name
    /\ Tmp(writing[c].name) \in disturbed[c] \/ dir[Tmp(writing[c].name)] = writing[c].node

FailureOf(c) ==
  pc[c] \in {"error", "panic"} =>
    \/ disturbed[c] # {}
    \/ req[c].mode = "legacy" /\ Tmp(Index) \in inputs[c]

\* An output that is no longer left has its name.
PlacedBy(c) ==
  pc[c] \in {"read", "write", "encode", "ok"} =>
    \A o \in {Index} \cup req[c].volumes : o \in left[c] \/ Exists(<<o>>)

CreateInv(c) ==
  /\ TypesOf(c) /\ PhaseOf(c)
  /\ ReadsOf(c) /\ PresentTo(c) /\ WritesOf(c)
  /\ FailureOf(c) /\ PlacedBy(c)

\* What c writes to o will not change any more.
Settled(c, o) ==
  /\ pc[c] \notin {"idle", "read"}
  /\ inputs[c] # {} /\ DOMAIN stat[c] = inputs[c] /\ DOMAIN scanned[c] = inputs[c]
  /\ o # Index => DOMAIN encoded[c] = inputs[c]

\* Block k of output o, of some create.
BlockOf(b, o, k) == \E c \in Creates : Settled(c, o) /\ b = <<Content(c, o), k>>

\* Somebody is still to write block k of inode i.
Expected(i, k) == \E c \in Creates : writing[c].node = i /\ writing[c].blocks < k

\* A file consists of blocks that creates wrote to it, and what is missing
\* somebody is still to write.
FileInv(n) ==
  Exists(n) =>
    /\ Len(Blocks(n)) <= FILE_BLOCKS
    /\ \A k \in 1 .. Len(Blocks(n)) : Blocks(n)[k] = Zero \/ BlockOf(Blocks(n)[k], n[1], k)
    /\ \A k \in 1 .. FILE_BLOCKS :
         Expected(dir[n], k) \/ (k <= Len(Blocks(n)) /\ BlockOf(Blocks(n)[k], n[1], k))

FilesInv == \A n \in Names : n[1] \in Outputs => FileInv(n)

\* A tmp file has a writer.
TmpInv == \A o \in Outputs :
            Exists(Tmp(o)) => \E c \in Creates : writing[c] # NoFile /\ writing[c].name = o

\* The variables are functions on the creates.
MapsInv ==
  /\ pc = [c \in Creates |-> pc[c]] /\ req = [c \in Creates |-> req[c]]
  /\ inputs = [c \in Creates |-> inputs[c]] /\ stat = [c \in Creates |-> stat[c]]
  /\ mapped = [c \in Creates |-> mapped[c]] /\ scanned = [c \in Creates |-> scanned[c]]
  /\ encoded = [c \in Creates |-> encoded[c]] /\ left = [c \in Creates |-> left[c]]
  /\ writing = [c \in Creates |-> writing[c]]
  /\ disturbed = [c \in Creates |-> disturbed[c]]

SharedInv ==
  /\ MapsInv /\ DirInv
  /\ \A c \in Creates : CreateInv(c)
  /\ FilesInv /\ TmpInv

-----------------------------------------------------------------------------
(* Names, sequences and maps                                               *)

\* A name is that of a source or of an output, or the tmp name of an output.
LEMMA NameFacts ==
  /\ \A n \in Names : /\ n # None /\ n[1] \in Sources \cup Outputs
                      /\ n = <<n[1]>> \/ (n = Tmp(n[1]) /\ n[1] \in Outputs)
  /\ \A s \in Sources \cup Outputs : <<s>> \in Names /\ <<s>>[1] = s
  /\ \A o \in Outputs : /\ Tmp(o) \in Names /\ Tmp(o)[1] = o
                        /\ \A s : Tmp(o) # <<s>>
  /\ Index \in Outputs /\ \A s \in Sources : s \notin Outputs
BY DirectoryAssumption DEF Names, Tmp, None, Outputs

\* No file is not the index, and no inode.
LEMMA NoFileIs == NoFile.name # Index /\ NoFile.node = 0 /\ NoFile.blocks = 0
<1>1. NoFile.name = "" /\ NoFile.node = 0 /\ NoFile.blocks = 0
  BY DEF NoFile
<1>2. "" # Index
  BY DEF Index
<1> QED BY <1>1, <1>2

\* A function on an interval that begins with 1 is a sequence.
LEMMA IntervalIsSeq ==
  ASSUME NEW n \in Nat, NEW s, s = [i \in 1 .. n |-> s[i]]
  PROVE  IsSeq(s) /\ Len(s) = n
<1> DEFINE S == {s[i] : i \in 1 .. n}
<1>1. s \in [1 .. n -> S]
  OBVIOUS
<1>2. s \in Seq(S)
  BY <1>1
<1> HIDE DEF S
<1>3. Len(s) = n
  BY <1>1, <1>2
<1> QED BY <1>3 DEF IsSeq

\* A sequence in the sense of Seq is one, with its elements in the set.
LEMMA SeqIsSeq ==
  ASSUME NEW S, NEW s \in Seq(S)
  PROVE  IsSeq(s) /\ \A i \in 1 .. Len(s) : s[i] \in S
BY DEF IsSeq

\* What Append does to a sequence of anything.
LEMMA Appended ==
  ASSUME NEW s, NEW x, IsSeq(s)
  PROVE  /\ IsSeq(Append(s, x)) /\ Len(Append(s, x)) = Len(s) + 1
         /\ Append(s, x)[Len(s) + 1] = x
         /\ \A i \in 1 .. Len(s) : Append(s, x)[i] = s[i]
<1> DEFINE S == {s[i] : i \in 1 .. Len(s)} \cup {x}
<1>1. s \in Seq(S)
  <2>1. s \in [1 .. Len(s) -> S]
    BY DEF IsSeq
  <2> QED BY <2>1 DEF IsSeq
<1>2. x \in S
  OBVIOUS
<1> HIDE DEF S
<1>3. Append(s, x) \in Seq(S)
  BY <1>1, <1>2
<1>4. IsSeq(Append(s, x))
  BY <1>3, SeqIsSeq
<1>5. /\ Len(Append(s, x)) = Len(s) + 1
      /\ Append(s, x)[Len(s) + 1] = x
      /\ \A i \in 1 .. Len(s) : Append(s, x)[i] = s[i]
  BY <1>1, <1>2
<1> QED BY <1>4, <1>5

\* All of a sequence is itself.
LEMMA WholeIsSelf ==
  ASSUME NEW s, IsSeq(s)
  PROVE  SubSeq(s, 1, Len(s)) = s
<1> DEFINE S == {s[i] : i \in 1 .. Len(s)}
<1>1. s \in Seq(S)
  <2>1. s \in [1 .. Len(s) -> S]
    BY DEF IsSeq
  <2> QED BY <2>1 DEF IsSeq
<1> HIDE DEF S
<1> QED BY <1>1

Replaces(t, s, i, x) == IsSeq(s) /\ i \in 1 .. Len(s) /\ t = [s EXCEPT ![i] = x]

\* t is s but for x at i.
IsButFor(t, s, i, x) ==
  /\ IsSeq(t) /\ Len(t) = Len(s) /\ t[i] = x
  /\ \A j \in 1 .. Len(s) : j # i => t[j] = s[j]

\* One element of a sequence of anything is replaced.
LEMMA Replaced ==
  ASSUME NEW s, NEW i, NEW x, NEW t, Replaces(t, s, i, x)
  PROVE  IsButFor(t, s, i, x)
<1>1. DOMAIN s = 1 .. Len(s) /\ Len(s) \in Nat /\ i \in 1 .. Len(s)
  BY DEF IsSeq, Replaces
<1>2. t = [j \in 1 .. Len(s) |-> IF j = i THEN x ELSE s[j]]
  BY <1>1 DEF Replaces
<1>3. t = [j \in 1 .. Len(s) |-> t[j]] /\ t[i] = x /\ \A j \in 1 .. Len(s) : j # i => t[j] = s[j]
  BY <1>1, <1>2
<1>4. IsSeq(t) /\ Len(t) = Len(s)
  BY <1>1, <1>3, IntervalIsSeq
<1> QED BY <1>3, <1>4 DEF IsButFor

\* g is f with one more entry.
Adds(g, f, S, n, x) ==
  /\ IsMap(g, S) /\ DOMAIN g = DOMAIN f \cup {n} /\ g[n] = x
  /\ \A m \in DOMAIN f : m # n => g[m] = f[m]

\* That is what Put makes of a map.
LEMMA PutIs ==
  ASSUME NEW f, NEW S, NEW n, NEW x, IsMap(f, S), n \in S
  PROVE  Adds(Put(f, n, x), f, S, n, x)
BY DEF IsMap, Put, Adds

\* The entries of a map remain one when there may be more.
LEMMA MapOfMore ==
  ASSUME NEW f, NEW S, NEW T, IsMap(f, S), S \subseteq T
  PROVE  IsMap(f, T)
BY DEF IsMap

-----------------------------------------------------------------------------
(* The others                                                              *)

Same(c) ==
  /\ pc'[c] = pc[c] /\ req'[c] = req[c] /\ inputs'[c] = inputs[c] /\ stat'[c] = stat[c]
  /\ mapped'[c] = mapped[c] /\ scanned'[c] = scanned[c] /\ encoded'[c] = encoded[c]
  /\ left'[c] = left[c] /\ writing'[c] = writing[c]

\* The name and what is in the file.
Spared(n) == dir'[n] = dir[n] /\ (Exists(n) => inode'[dir[n]] = inode[dir[n]])

\* What happens to the files of c is noticed.
Beside(c) ==
  /\ disturbed[c] \subseteq disturbed'[c]
  /\ \A n \in (Window(c) \cap Names) \ disturbed'[c] : Spared(n)
  /\ \A n \in inputs[c] \ disturbed'[c] : Exists(n) => Exists(n)'

\* Inodes are added, and keep to the names of one output; what has a name that
\* is not a tmp name keeps it.
NamesMove ==
  /\ Len(inode') \in Nat /\ Len(inode) <= Len(inode')
  /\ \A n \in Names : \/ dir'[n] = 0
                      \/ dir'[n] > Len(inode)
                      \/ \E m \in Names : m[1] = n[1] /\ dir[m] = dir'[n]
  /\ \A s \in Sources \cup Outputs : Exists(<<s>>) => Exists(<<s>>)'

\* Whatever a create is at work on is noticed.
LEMMA NoticedByAll ==
  ASSUME NEW c \in Creates, NEW who, c # who, Noticed(who), inputs[c] \subseteq Names
  PROVE  Beside(c)
BY DEF Noticed, Beside, Spared, Exists

\* A step that leaves the files alone disturbs nobody.
LEMMA QuietIsBeside ==
  ASSUME NEW c \in Creates, UNCHANGED <<fs, disturbed>>, DirInv
  PROVE  Beside(c) /\ NamesMove
BY DEF fs, Beside, Spared, NamesMove, Exists, DirInv, IsSeq

\* The steps of others keep what is known of a create.
LEMMA OthersKeep ==
  ASSUME NEW c \in Creates, DirInv, CreateInv(c), Same(c), Beside(c), NamesMove
  PROVE  CreateInv(c)'
<1> USE DEF CreateInv
<1>n. /\ Len(inode) \in Nat /\ Len(inode') \in Nat /\ Len(inode) <= Len(inode')
      /\ \A n \in Names : dir[n] \in Nat /\ dir[n] <= Len(inode)
  BY DEF NamesMove, DirInv, IsSeq
<1>1. TypesOf(c)'
  BY <1>n DEF TypesOf, Same
<1>2. PhaseOf(c)'
  BY DEF PhaseOf, Same, OnlyIndex
<1>3. ReadsOf(c)'
  <2> SUFFICES ASSUME NEW n \in DOMAIN stat[c] \ disturbed'[c],
                      n \notin DOMAIN scanned[c] \cap DOMAIN encoded[c]
               PROVE  (Fresh(c, n) \/ OwnIndex(c, n))'
    BY DEF ReadsOf, Same, Beside
  <2>1. n \in Window(c) \cap Names /\ n \notin disturbed[c]
    BY DEF Window, TypesOf, IsMap, Beside
  <2>2. dir'[n] = dir[n] /\ (dir[n] # 0 => inode'[dir[n]] = inode[dir[n]])
    BY <2>1 DEF Beside, Spared, Exists
  <2>3. CASE Fresh(c, n)
    BY <2>2, <2>3 DEF Fresh, Exists, Blocks, Same
  <2>4. CASE OwnIndex(c, n)
    BY <2>2, <2>4 DEF OwnIndex, Same
  <2> QED BY <2>1, <2>3, <2>4 DEF ReadsOf
<1>4. PresentTo(c)'
  BY DEF PresentTo, Reading, OnlyIndex, Same, Beside
<1>5. WritesOf(c)'
  <2> SUFFICES ASSUME writing[c] # NoFile
               PROVE  /\ \A n \in Names : dir'[n] = writing[c].node => n[1] = writing[c].name
                      /\ Tmp(writing[c].name) \in disturbed'[c] \/ dir'[Tmp(writing[c].name)] = writing[c].node
    BY DEF WritesOf, Same
  <2>1. writing[c].node \in 1 .. Len(inode) /\ writing[c].name \in Outputs
    BY DEF TypesOf
  <2>2. ASSUME NEW n \in Names, dir'[n] = writing[c].node PROVE n[1] = writing[c].name
    <3>1. PICK m \in Names : m[1] = n[1] /\ dir[m] = dir'[n]
      BY <2>1, <2>2, <1>n DEF NamesMove
    <3> QED BY <3>1, <2>2 DEF WritesOf
  <2>3. ASSUME Tmp(writing[c].name) \notin disturbed'[c]
        PROVE  dir'[Tmp(writing[c].name)] = writing[c].node
    <3>1. Tmp(writing[c].name) \in Window(c) \cap Names
      BY <2>1, NameFacts DEF Window
    <3> QED BY <3>1, <2>3 DEF Beside, Spared, WritesOf
  <2> QED BY <2>2, <2>3
<1>6. FailureOf(c)'
  BY DEF FailureOf, Same, Beside
<1>7. PlacedBy(c)'
  <2>1. {Index} \cup req[c].volumes \subseteq Outputs
    BY DEF TypesOf, Outputs
  <2> QED BY <2>1 DEF PlacedBy, Same, NamesMove
<1> QED BY <1>1, <1>2, <1>3, <1>4, <1>5, <1>6, <1>7

\* A step of one create leaves what is the others' alone; and an edit what is
\* anybody's.
LEMMA StepsAreLocal ==
  ASSUME MapsInv
  PROVE  /\ \A c \in Creates : Step(c) \/ Kill(c) => MapsInv' /\ \A d \in Creates \ {c} : Same(d)
         /\ \A s \in Sources : Edit(s) => MapsInv' /\ \A d \in Creates : Same(d)
<1> USE DEF MapsInv, Same
<1>1. ASSUME NEW s \in Sources, Edit(s) PROVE MapsInv' /\ \A d \in Creates : Same(d)
  BY <1>1 DEF Edit, Noticed
<1>2. ASSUME NEW c \in Creates, Step(c) \/ Kill(c)
      PROVE  MapsInv' /\ \A d \in Creates \ {c} : Same(d)
  <2>1. CASE Kill(c)
    BY <2>1 DEF Kill, Goto
  <2>2. CASE Begin(c)
    BY <2>2 DEF Begin, Goto
  <2>3. ASSUME NEW n \in Names, Stat(c, n) \/ Map(c, n) \/ EncodeAgain(c, n)
        PROVE  MapsInv' /\ \A d \in Creates \ {c} : Same(d)
    <3>1. CASE Stat(c, n)
      BY <3>1 DEF Stat, Goto
    <3>2. CASE Map(c, n)
      BY <3>2 DEF Map, Goto
    <3>3. CASE EncodeAgain(c, n)
      BY <3>3 DEF EncodeAgain, Goto
    <3> QED BY <2>3, <3>1, <3>2, <3>3
  <2>4. CASE Scan(c)
    BY <2>4 DEF Scan, Goto
  <2>5. CASE EncodeMapped(c)
    BY <2>5 DEF EncodeMapped, Goto
  <2>6. CASE Unmap(c)
    BY <2>6 DEF Unmap, Goto
  <2>7. CASE ReadAll(c)
    BY <2>7 DEF ReadAll, Goto
  <2>8. CASE EncodedAll(c)
    BY <2>8 DEF EncodedAll, Goto
  <2>9. ASSUME NEW o \in Outputs, CreateTmp(c, o)
        PROVE  MapsInv' /\ \A d \in Creates \ {c} : Same(d)
    BY <2>9 DEF CreateTmp, Noticed
  <2>10. CASE WriteBlock(c)
    BY <2>10 DEF WriteBlock, Noticed
  <2>11. CASE Rename(c)
    BY <2>11 DEF Rename, Goto, Noticed
  <2> QED BY <1>2, <2>1, <2>2, <2>3, <2>4, <2>5, <2>6, <2>7, <2>8, <2>9, <2>10, <2>11 DEF Step
<1> QED BY <1>1, <1>2

-----------------------------------------------------------------------------
(* What the steps do to the directory                                      *)

\* An edit changes one source and nothing else.
LEMMA EditIs ==
  ASSUME DirInv, NEW s \in Sources, Edit(s)
  PROVE  /\ DirInv' /\ NamesMove
         /\ \A n \in Names : n # <<s>> => Spared(n)
<1>1. PICK v \in Versions : inode' = [inode EXCEPT ![dir[<<s>>]] = v]
  BY DEF Edit
<1>2. dir' = dir
  BY DEF Edit
<1>3. IsSeq(v)
  BY DirectoryAssumption, SeqIsSeq
<1>4. <<s>> \in Names /\ dir[<<s>>] \in 1 .. Len(inode)
  BY NameFacts DEF DirInv, IsSeq, Exists
<1>5. /\ IsSeq(inode') /\ Len(inode') = Len(inode) /\ inode'[dir[<<s>>]] = v
      /\ \A j \in 1 .. Len(inode) : j # dir[<<s>>] => inode'[j] = inode[j]
  <2>1. Replaces(inode', inode, dir[<<s>>], v)
    BY <1>1, <1>4 DEF Replaces, DirInv
  <2> QED BY <2>1, Replaced DEF IsButFor
<1>6. DirInv'
  BY <1>2, <1>3, <1>5 DEF DirInv, Exists
<1>7. NamesMove
  BY <1>2, <1>5 DEF NamesMove, DirInv, Exists, IsSeq
<1>8. ASSUME NEW n \in Names, n # <<s>> PROVE Spared(n)
  <2>1. dir[n] \in Nat /\ dir[n] <= Len(inode) /\ Len(inode) \in Nat
    BY DEF DirInv, IsSeq
  <2>2. dir[n] # 0 => dir[n] # dir[<<s>>]
    BY <1>4, <1>8 DEF DirInv
  <2> QED BY <1>2, <1>5, <2>1, <2>2 DEF Spared, Exists
<1> QED BY <1>6, <1>7, <1>8

\* The tmp name leads to an empty file, which is what is written to.
LEMMA CreateTmpIs ==
  ASSUME MapsInv, DirInv, NEW c \in Creates, NEW o \in Outputs, CreateTmp(c, o)
  PROVE  /\ DirInv' /\ NamesMove
         /\ dir'[Tmp(o)] \in 1 .. Len(inode') /\ inode'[dir'[Tmp(o)]] = None
         /\ Exists(Tmp(o)) => dir'[Tmp(o)] = dir[Tmp(o)]
         /\ writing'[c] = [name |-> o, node |-> dir'[Tmp(o)], blocks |-> 0]
         /\ \A n \in Names : n # Tmp(o) => Spared(n) /\ dir'[n] # dir'[Tmp(o)]
<1> DEFINE tmp == Tmp(o)
           new == Len(inode) + 1
<1>1. tmp \in Names /\ \A s \in Sources \cup Outputs : <<s>> \in Names /\ <<s>> # tmp
  BY NameFacts, DirectoryAssumption DEF Tmp
<1>2. /\ Len(inode) \in Nat /\ \A n \in Names : dir[n] \in Nat /\ dir[n] <= Len(inode)
      /\ DOMAIN dir = Names
  BY DEF DirInv, IsSeq
<1>3. IsSeq(None) /\ Len(None) = 0
  BY DEF IsSeq, None
<1>4. writing'[c] = [name |-> o, node |-> dir'[tmp], blocks |-> 0]
  BY DEF CreateTmp, MapsInv
<1>5. CASE Exists(tmp)
  <2>1. inode' = [inode EXCEPT ![dir[tmp]] = None] /\ dir' = dir
    BY <1>5 DEF CreateTmp
  <2>2. dir[tmp] \in 1 .. Len(inode)
    BY <1>1, <1>2, <1>5 DEF Exists
  <2>3. /\ IsSeq(inode') /\ Len(inode') = Len(inode) /\ inode'[dir[tmp]] = None
        /\ \A j \in 1 .. Len(inode) : j # dir[tmp] => inode'[j] = inode[j]
    <3>1. Replaces(inode', inode, dir[tmp], None)
      BY <2>1, <2>2 DEF Replaces, DirInv
    <3> QED BY <3>1, Replaced DEF IsButFor
  <2>4. DirInv'
    BY <2>1, <2>3, <1>3 DEF DirInv, Exists
  <2>5. NamesMove
    BY <2>1, <2>3, <1>2 DEF NamesMove, Exists
  <2>6. \A n \in Names : n # tmp => dir[n] # dir[tmp]
    BY <1>1, <1>5 DEF DirInv, Exists
  <2>7. \A n \in Names : n # tmp => Spared(n)
    BY <1>2, <2>1, <2>3, <2>6 DEF Spared, Exists
  <2> QED BY <1>4, <2>1, <2>2, <2>3, <2>4, <2>5, <2>6, <2>7
<1>6. CASE ~Exists(tmp)
  <2>1. inode' = Append(inode, None) /\ dir' = [dir EXCEPT ![tmp] = new]
    BY <1>6 DEF CreateTmp
  <2>2. /\ IsSeq(inode') /\ Len(inode') = new /\ inode'[new] = None
        /\ \A j \in 1 .. Len(inode) : inode'[j] = inode[j]
    BY <2>1, Appended DEF DirInv
  <2>3. dir' \in [Names -> Nat] /\ dir'[tmp] = new /\ \A n \in Names : n # tmp => dir'[n] = dir[n]
    BY <1>1, <1>2, <2>1 DEF DirInv
  <2>4. DirInv'
    <3>1. \A i \in 1 .. new : IsSeq(inode'[i])
      BY <1>2, <1>3, <2>2 DEF DirInv
    <3>2. \A n \in Names : dir'[n] <= new
      BY <1>2, <2>3
    <3>3. \A m, n \in Names : dir'[m] # 0 /\ dir'[m] = dir'[n] => m = n
      BY <1>2, <2>3 DEF DirInv
    <3>4. \A s \in Sources : dir'[<<s>>] # 0
      BY <1>1, <2>3 DEF DirInv, Exists
    <3> QED BY <2>2, <2>3, <3>1, <3>2, <3>3, <3>4 DEF DirInv, Exists
  <2>5. NamesMove
    BY <1>1, <1>2, <2>2, <2>3 DEF NamesMove, Exists
  <2>6. \A n \in Names : n # tmp => Spared(n) /\ dir'[n] # new
    BY <1>2, <2>2, <2>3 DEF Spared, Exists
  <2> QED BY <1>2, <1>4, <1>6, <2>2, <2>3, <2>4, <2>5, <2>6
<1> QED BY <1>5, <1>6

\* One block of the file is written; what it had beyond remains, and a hole
\* before it is zeros.
LEMMA WriteBlockIs ==
  ASSUME MapsInv, DirInv, NEW c \in Creates, CreateInv(c), WriteBlock(c)
  PROVE  LET w == writing[c]
             k == w.blocks + 1
             old == inode[w.node]
             now == inode'[w.node]
         IN  /\ DirInv' /\ NamesMove
             /\ w # NoFile /\ w.node \in 1 .. Len(inode) /\ k \in 1 .. FILE_BLOCKS
             /\ w.name \in left[c]
             /\ dir' = dir /\ writing'[c] = [w EXCEPT !.blocks = k]
             /\ IsSeq(old) /\ IsSeq(now)
             /\ Len(now) = IF Len(old) > k THEN Len(old) ELSE k
             /\ now[k] = <<Content(c, w.name), k>>
             /\ \A j \in 1 .. Len(now) : j # k =>
                  now[j] = IF j <= Len(old) THEN old[j] ELSE Zero
             /\ \A i \in 1 .. Len(inode) : i # w.node => inode'[i] = inode[i]
             /\ \A n \in Names : dir[n] # w.node => Spared(n)
<1> DEFINE w == writing[c]
           k == w.blocks + 1
           old == inode[w.node]
           last == IF Len(old) > k THEN Len(old) ELSE k
           now == [j \in 1 .. last |-> IF j = k THEN <<Content(c, w.name), k>>
                                       ELSE IF j <= Len(old) THEN old[j] ELSE Zero]
<1>1. /\ w # NoFile /\ w.node \in 1 .. Len(inode) /\ w.name \in left[c]
      /\ k \in 1 .. FILE_BLOCKS
  BY DEF WriteBlock, CreateInv, TypesOf, FILE_BLOCKS
<1>2. inode' = [inode EXCEPT ![w.node] = now] /\ dir' = dir
  BY DEF WriteBlock
<1>3. writing'[c] = [w EXCEPT !.blocks = k]
  BY DEF WriteBlock, MapsInv
<1>4. IsSeq(old) /\ Len(inode) \in Nat
  BY <1>1 DEF DirInv, IsSeq
<1>5. last \in Nat
  BY <1>1, <1>4 DEF IsSeq
<1>6. IsSeq(now) /\ Len(now) = last
  BY <1>5, IntervalIsSeq
<1>7. /\ k \in 1 .. last
      /\ now[k] = <<Content(c, w.name), k>>
      /\ \A j \in 1 .. last : j # k => now[j] = IF j <= Len(old) THEN old[j] ELSE Zero
  BY <1>1, <1>4, <1>5 DEF IsSeq
<1> HIDE DEF now, last
<1>8. /\ IsSeq(inode') /\ Len(inode') = Len(inode) /\ inode'[w.node] = now
      /\ \A j \in 1 .. Len(inode) : j # w.node => inode'[j] = inode[j]
  <2>1. Replaces(inode', inode, w.node, now)
    BY <1>1, <1>2 DEF Replaces, DirInv
  <2> QED BY <2>1, Replaced DEF IsButFor
<1>9. DirInv'
  BY <1>2, <1>6, <1>8 DEF DirInv, Exists
<1>10. NamesMove
  BY <1>2, <1>4, <1>8 DEF NamesMove, Exists
<1>11. \A n \in Names : dir[n] # w.node => Spared(n)
  BY <1>2, <1>8 DEF DirInv, Spared, Exists
<1> QED BY <1>1, <1>2, <1>3, <1>4, <1>6, <1>7, <1>8, <1>9, <1>10, <1>11 DEF last

\* The tmp name becomes the name of the output; if it is gone nothing happens.
LEMMA RenameIs ==
  ASSUME MapsInv, DirInv, NEW c \in Creates, CreateInv(c), Rename(c)
  PROVE  LET o == writing[c].name
         IN  /\ DirInv' /\ NamesMove
             /\ writing[c] # NoFile /\ writing'[c] = NoFile
             /\ o \in left[c] /\ left'[c] = left[c] \ {o}
             /\ inode' = inode /\ dir'[Tmp(o)] = 0
             /\ dir'[<<o>>] = IF Exists(Tmp(o)) THEN dir[Tmp(o)] ELSE dir[<<o>>]
             /\ \A n \in Names : n # <<o>> /\ n # Tmp(o) => Spared(n)
<1> DEFINE o == writing[c].name
<1>1. writing[c] # NoFile
  <2>1. writing[c].blocks = 2
    BY DEF Rename, FILE_BLOCKS
  <2> QED BY <2>1, NoFileIs
<1>2. o \in left[c] /\ o \in Outputs
  BY <1>1 DEF CreateInv, TypesOf
<1>3. writing'[c] = NoFile /\ left'[c] = left[c] \ {o} /\ inode' = inode
  BY DEF Rename, MapsInv
<1>4. /\ Tmp(o) \in Names /\ <<o>> \in Names /\ Tmp(o) # <<o>> /\ Tmp(o)[1] = o /\ <<o>>[1] = o
      /\ \A s \in Sources \cup Outputs : <<s>> \in Names /\ <<s>> # Tmp(o)
      /\ \A s \in Sources : <<s>> # <<o>>
  BY <1>2, NameFacts, DirectoryAssumption DEF Tmp
<1>5. /\ Len(inode) \in Nat /\ \A n \in Names : dir[n] \in Nat /\ dir[n] <= Len(inode)
      /\ DOMAIN dir = Names
  BY DEF DirInv, IsSeq
<1>6. CASE Exists(Tmp(o))
  <2>1. dir' = [dir EXCEPT ![<<o>>] = dir[Tmp(o)], ![Tmp(o)] = 0]
    BY <1>6 DEF Rename
  <2>2. /\ dir' \in [Names -> Nat] /\ dir'[Tmp(o)] = 0 /\ dir'[<<o>>] = dir[Tmp(o)]
        /\ \A n \in Names : n # <<o>> /\ n # Tmp(o) => dir'[n] = dir[n]
    BY <1>4, <1>5, <2>1 DEF DirInv
  <2>3. DirInv'
    <3>1. \A n \in Names : dir'[n] <= Len(inode)
      BY <1>4, <1>5, <2>2
    <3>2. \A m, n \in Names : dir'[m] # 0 /\ dir'[m] = dir'[n] => m = n
      BY <1>4, <2>2 DEF DirInv
    <3>3. \A s \in Sources : dir'[<<s>>] # 0
      BY <1>4, <2>2 DEF DirInv, Exists
    <3> QED BY <1>3, <2>2, <3>1, <3>2, <3>3 DEF DirInv, Exists
  <2>4. NamesMove
    <3>1. \A n \in Names : dir'[n] = 0 \/ \E m \in Names : m[1] = n[1] /\ dir[m] = dir'[n]
      BY <1>4, <2>2
    <3>2. \A s \in Sources \cup Outputs : dir[<<s>>] # 0 => dir'[<<s>>] # 0
      BY <1>4, <1>6, <2>2 DEF Exists
    <3> QED BY <1>3, <1>5, <3>1, <3>2 DEF NamesMove, Exists
  <2>5. \A n \in Names : n # <<o>> /\ n # Tmp(o) => Spared(n)
    BY <1>3, <2>2 DEF Spared
  <2> QED BY <1>1, <1>2, <1>3, <1>6, <2>2, <2>3, <2>4, <2>5
<1>7. CASE ~Exists(Tmp(o))
  <2>1. dir' = dir
    BY <1>7 DEF Rename
  <2>2. DirInv' /\ NamesMove /\ \A n \in Names : Spared(n)
    BY <1>3, <1>5, <2>1 DEF DirInv, NamesMove, Spared, Exists, IsSeq
  <2> QED BY <1>1, <1>2, <1>3, <1>7, <2>1, <2>2 DEF Exists
<1> QED BY <1>6, <1>7

-----------------------------------------------------------------------------
(* A create's own steps: reading                                           *)

\* What the steps of c that change no file leave as it is for c.
Kept(c) ==
  /\ UNCHANGED <<dir, inode, disturbed>>
  /\ req'[c] = req[c] /\ inputs'[c] = inputs[c] /\ left'[c] = left[c]
  /\ writing'[c] = writing[c]

\* A create that gives up, or is killed.
LEMMA StopsKeep ==
  ASSUME NEW c \in Creates, CreateInv(c), Kept(c), pc[c] # "idle",
         pc'[c] \in Stopped \ {"ok"}, writing[c] # NoFile => pc'[c] = "killed",
         stat'[c] = stat[c], scanned'[c] = scanned[c], encoded'[c] = encoded[c],
         mapped'[c] = mapped[c] \/ mapped'[c] = NoMap,
         FailureOf(c)'
  PROVE  CreateInv(c)'
<1> USE DEF CreateInv, Kept
<1>0. pc'[c] \notin {"idle", "read", "write", "encode", "ok"}
  BY DEF Stopped
<1>1. TypesOf(c)'
  BY DEF TypesOf, NoMap
<1>2. PhaseOf(c)'
  BY <1>0 DEF PhaseOf
<1>3. ReadsOf(c)'
  <2> SUFFICES ASSUME NEW n \in DOMAIN stat[c] \ disturbed[c],
                      n \notin DOMAIN scanned[c] \cap DOMAIN encoded[c]
               PROVE  (Fresh(c, n) \/ OwnIndex(c, n))'
    BY DEF ReadsOf
  <2>1. n # None
    BY NameFacts DEF TypesOf, IsMap
  <2>2. CASE Fresh(c, n)
    BY <2>1, <2>2 DEF Fresh, Exists, Blocks, NoMap
  <2>3. CASE OwnIndex(c, n)
    BY <1>0, <2>3 DEF OwnIndex
  <2> QED BY <2>2, <2>3 DEF ReadsOf
<1>4. PresentTo(c)' /\ PlacedBy(c)'
  BY <1>0 DEF PresentTo, Reading, PlacedBy
<1>5. WritesOf(c)'
  BY DEF WritesOf
<1> QED BY <1>1, <1>2, <1>3, <1>4, <1>5

\* A killed create is stopped, and what it had read is what it had read.
LEMMA KillKeeps ==
  ASSUME MapsInv, NEW c \in Creates, CreateInv(c), Kill(c)
  PROVE  CreateInv(c)'
<1>1. /\ Kept(c) /\ pc[c] # "idle" /\ pc'[c] = "killed"
      /\ stat'[c] = stat[c] /\ scanned'[c] = scanned[c] /\ encoded'[c] = encoded[c]
      /\ mapped'[c] = NoMap
  BY DEF Kill, Kept, fs, MapsInv, Goto
<1>2. FailureOf(c)'
  BY <1>1 DEF FailureOf
<1> QED BY <1>1, <1>2, StopsKeep DEF Stopped

\* A create that begins has read nothing, and its inputs are what it found.
LEMMA BeginKeeps ==
  ASSUME MapsInv, DirInv, NEW c \in Creates, CreateInv(c), Begin(c)
  PROVE  CreateInv(c)'
<1>1. PICK mode \in {"legacy", "fused"}, volumes \in Layouts, recurse \in BOOLEAN :
        /\ req'[c] = [mode |-> mode, volumes |-> volumes]
        /\ inputs'[c] = IF recurse THEN {n \in Names : Exists(n)} ELSE {<<s>> : s \in Sources}
        /\ left'[c] = {Index} \cup volumes
  BY DEF Begin, MapsInv
<1>2. /\ pc[c] = "idle" /\ pc'[c] = "read" /\ UNCHANGED <<dir, inode, disturbed>>
      /\ stat'[c] = stat[c] /\ mapped'[c] = mapped[c] /\ scanned'[c] = scanned[c]
      /\ encoded'[c] = encoded[c] /\ writing'[c] = writing[c]
  BY DEF Begin, fs, MapsInv, Goto
<1>3. /\ writing[c] = NoFile /\ mapped[c] = NoMap
      /\ DOMAIN stat[c] = {} /\ DOMAIN scanned[c] = {} /\ DOMAIN encoded[c] = {}
  BY <1>2 DEF CreateInv, TypesOf, PhaseOf, IsMap
<1>4. /\ inputs'[c] \subseteq Names /\ inputs'[c] # {}
      /\ \A n \in inputs'[c] : Exists(n)
  <2>1. \A s \in Sources : <<s>> \in Names /\ Exists(<<s>>)
    BY NameFacts DEF DirInv
  <2>2. PICK s \in Sources : TRUE
    BY DirectoryAssumption
  <2>3. <<s>> \in inputs'[c]
    BY <1>1, <2>1, <2>2
  <2>4. \A n \in inputs'[c] : n \in Names /\ Exists(n)
    BY <1>1, <2>1
  <2> QED BY <2>3, <2>4
<1>5. volumes \subseteq Volumes /\ {Index} \cup volumes \subseteq Outputs
  BY DEF Volumes, Outputs
<1>6. TypesOf(c)'
  BY <1>1, <1>2, <1>3, <1>4, <1>5 DEF TypesOf, CreateInv, IsMap
<1>7. PhaseOf(c)'
  BY <1>1, <1>2, <1>3, <1>4, NameFacts DEF PhaseOf, CreateInv
<1>8. ReadsOf(c)'
  BY <1>2, <1>3 DEF ReadsOf
<1>9. PresentTo(c)'
  BY <1>2, <1>4 DEF PresentTo, Exists
<1>10. WritesOf(c)' /\ FailureOf(c)'
  BY <1>2, <1>3 DEF WritesOf, FailureOf
<1>11. PlacedBy(c)'
  BY <1>1 DEF PlacedBy
<1> QED BY <1>6, <1>7, <1>8, <1>9, <1>10, <1>11 DEF CreateInv

\* The length is what the file has now, and not 0.
LEMMA StatKeeps ==
  ASSUME MapsInv, DirInv, NEW c \in Creates, CreateInv(c), NEW n \in Names, Stat(c, n)
  PROVE  CreateInv(c)'
<1> USE DEF CreateInv
<1>1. /\ pc[c] = "read" /\ mapped[c] = NoMap /\ n \in inputs[c] /\ n \notin DOMAIN stat[c]
      /\ Kept(c) /\ mapped'[c] = mapped[c]
      /\ scanned'[c] = scanned[c] /\ encoded'[c] = encoded[c]
  BY DEF Stat, Unread, Kept, fs, MapsInv
<1>2. writing[c] = NoFile
  BY <1>1 DEF PhaseOf
<1>3. CASE Blocks(n) = None
  <2>1. stat'[c] = stat[c] /\ pc'[c] = IF Exists(n) THEN "EmptyFile" ELSE "error"
    BY <1>3 DEF Stat, Goto, MapsInv
  <2>2. FailureOf(c)'
    <3> SUFFICES ASSUME ~Exists(n) PROVE disturbed'[c] # {}
      BY <2>1 DEF FailureOf
    <3>1. n \in disturbed[c]
      BY <1>1 DEF PresentTo, Reading
    <3> QED BY <3>1, <1>1 DEF Kept
  <2> QED BY <1>1, <1>2, <2>1, <2>2, StopsKeep DEF Stopped
<1>4. CASE Blocks(n) # None
  <2>1. stat'[c] = Put(stat[c], n, Len(Blocks(n))) /\ pc'[c] = "read"
    BY <1>1, <1>4 DEF Stat, MapsInv
  <2>2. Exists(n) /\ IsSeq(Blocks(n)) /\ Len(Blocks(n)) \in Nat \ {0}
    <3>1. Exists(n)
      BY <1>4 DEF Blocks
    <3>2. IsSeq(Blocks(n))
      <4>1. dir[n] \in 1 .. Len(inode)
        BY <3>1 DEF DirInv, Exists, IsSeq
      <4> QED BY <3>1, <4>1 DEF DirInv, Blocks
    <3> QED BY <1>4, <3>1, <3>2 DEF IsSeq, None
  <2>3. /\ IsMap(stat'[c], inputs[c]) /\ DOMAIN stat'[c] = DOMAIN stat[c] \cup {n}
        /\ stat'[c][n] = Len(Blocks(n))
        /\ \A m \in DOMAIN stat[c] : m # n => stat'[c][m] = stat[c][m]
    <3>1. IsMap(stat[c], inputs[c])
      BY DEF TypesOf
    <3>2. Adds(stat'[c], stat[c], inputs[c], n, Len(Blocks(n)))
      BY <1>1, <2>1, <3>1, PutIs
    <3> QED BY <3>2 DEF Adds
  <2>4. TypesOf(c)'
    <3>1. \A m \in DOMAIN stat'[c] : stat'[c][m] \in Nat \ {0}
      BY <2>2, <2>3 DEF TypesOf
    <3>2. IsMap(scanned[c], DOMAIN stat'[c]) /\ IsMap(encoded[c], DOMAIN stat'[c])
      BY <2>3 DEF TypesOf, IsMap
    <3> QED BY <1>1, <1>2, <2>1, <2>3, <3>1, <3>2 DEF TypesOf, Kept
  <2>5. PhaseOf(c)'
    BY <1>1, <1>2, <2>1 DEF PhaseOf, Kept
  <2>6. ReadsOf(c)'
    <3> SUFFICES ASSUME NEW m \in DOMAIN stat'[c] \ disturbed[c]
                 PROVE  IF m \in DOMAIN scanned[c] \cap DOMAIN encoded[c]
                        THEN \/ scanned[c][m] = encoded[c][m] /\ Len(scanned[c][m]) = stat'[c][m]
                             \/ req[c].mode = "legacy" /\ m = <<Index>>
                        ELSE (Fresh(c, m) \/ OwnIndex(c, m))'
      BY <1>1 DEF ReadsOf, Kept
    <3>1. CASE m = n
      <4>1. n \notin DOMAIN scanned[c] /\ n \notin DOMAIN encoded[c] /\ n # None
        BY <1>1, NameFacts DEF TypesOf, IsMap
      <4>2. Fresh(c, n)'
        BY <1>1, <2>2, <2>3, <4>1 DEF Fresh, Exists, Blocks, Kept, NoMap
      <4> QED BY <3>1, <4>1, <4>2
    <3>2. CASE m # n
      <4>1. m \in DOMAIN stat[c] /\ stat'[c][m] = stat[c][m]
        BY <2>3, <3>2
      <4>2. Fresh(c, m) => Fresh(c, m)'
        BY <1>1, <4>1 DEF Fresh, Exists, Blocks, Kept
      <4>3. OwnIndex(c, m) => OwnIndex(c, m)'
        BY <1>1, <2>1 DEF OwnIndex, Kept
      <4> QED BY <4>1, <4>2, <4>3 DEF ReadsOf
    <3> QED BY <3>1, <3>2
  <2>7. PresentTo(c)' /\ WritesOf(c)' /\ FailureOf(c)' /\ PlacedBy(c)'
    BY <1>1, <1>2, <2>1 DEF PresentTo, Reading, WritesOf, FailureOf, PlacedBy, Kept, Exists
  <2> QED BY <2>4, <2>5, <2>6, <2>7
<1> QED BY <1>3, <1>4

\* The mapping is of the file that the name leads to, and as long.
LEMMA MapKeeps ==
  ASSUME MapsInv, DirInv, NEW c \in Creates, CreateInv(c), NEW n \in Names, Map(c, n)
  PROVE  CreateInv(c)'
<1> USE DEF CreateInv
<1>1. /\ pc[c] = "read" /\ mapped[c] = NoMap /\ n \in DOMAIN stat[c] /\ n \notin DOMAIN scanned[c]
      /\ Kept(c) /\ stat'[c] = stat[c]
      /\ scanned'[c] = scanned[c] /\ encoded'[c] = encoded[c]
  BY DEF Map, Kept, fs, MapsInv
<1>2. writing[c] = NoFile
  BY <1>1 DEF PhaseOf
<1>3. CASE ~Exists(n)
  <2>1. mapped'[c] = mapped[c] /\ pc'[c] = "error"
    BY <1>3 DEF Map, Goto, MapsInv
  <2>2. n \in disturbed[c]
    BY <1>1, <1>3 DEF PresentTo, Reading, TypesOf, IsMap
  <2>3. FailureOf(c)'
    BY <1>1, <2>2 DEF FailureOf, Kept
  <2> QED BY <1>1, <1>2, <2>1, <2>3, StopsKeep DEF Stopped
<1>4. CASE Exists(n)
  <2>1. /\ mapped'[c] = [name |-> n, node |-> dir[n], length |-> Len(Blocks(n))]
        /\ pc'[c] = "read"
    BY <1>1, <1>4 DEF Map, MapsInv
  <2>2. n # None /\ mapped'[c].name = n /\ mapped'[c].node = dir[n]
        /\ mapped'[c].length = Len(Blocks(n)) /\ NoMap.name = None
    BY <2>1, NameFacts DEF NoMap
  <2>3. TypesOf(c)'
    <3>1. mapped'[c] # NoMap
      BY <2>2
    <3> QED BY <1>1, <1>2, <2>1, <2>2, <3>1 DEF TypesOf, Kept
  <2>4. PhaseOf(c)'
    <3>1. None \notin DOMAIN scanned[c]
      BY NameFacts DEF TypesOf, IsMap
    <3> QED BY <1>1, <1>2, <2>1, <2>2, <3>1 DEF PhaseOf, Kept
  <2>5. ReadsOf(c)'
    <3> SUFFICES ASSUME NEW m \in DOMAIN stat[c] \ disturbed[c],
                        m \notin DOMAIN scanned[c] \cap DOMAIN encoded[c]
                 PROVE  (Fresh(c, m) \/ OwnIndex(c, m))'
      BY <1>1 DEF ReadsOf, Kept
    <3>1. CASE OwnIndex(c, m)
      BY <1>1, <2>1, <3>1 DEF OwnIndex, Kept
    <3>2. CASE Fresh(c, m)
      BY <1>1, <2>2, <3>2 DEF Fresh, Exists, Blocks, Kept
    <3> QED BY <3>1, <3>2 DEF ReadsOf
  <2>6. PresentTo(c)' /\ WritesOf(c)' /\ FailureOf(c)' /\ PlacedBy(c)'
    BY <1>1, <1>2, <2>1 DEF PresentTo, Reading, WritesOf, FailureOf, PlacedBy, Kept, Exists
  <2> QED BY <2>3, <2>4, <2>5, <2>6
<1> QED BY <1>3, <1>4

\* Before it writes anything, what a create has read of a file it is not done
\* with is still so, unless it was disturbed.
LEMMA FreshWhileReading ==
  ASSUME NEW c \in Creates, CreateInv(c), pc[c] = "read",
         NEW n \in DOMAIN stat[c], n \notin disturbed[c],
         n \notin DOMAIN scanned[c] \cap DOMAIN encoded[c]
  PROVE  Fresh(c, n)
<1>1. writing[c] = NoFile /\ Index \in left[c]
  BY DEF CreateInv, PhaseOf
<1>2. writing[c].name # Index
  BY <1>1, NoFileIs
<1> QED BY <1>1, <1>2 DEF CreateInv, ReadsOf, OwnIndex

\* A step that reads adds to what is known of one file; the rest stays.
LEMMA ReadKeeps ==
  ASSUME NEW c \in Creates, CreateInv(c), NEW n \in DOMAIN stat[c],
         Kept(c), pc'[c] = pc[c], stat'[c] = stat[c], mapped'[c] = mapped[c],
         NEW x, NEW y,
         \/ scanned'[c] = Put(scanned[c], n, x) /\ encoded'[c] = encoded[c]
         \/ encoded'[c] = Put(encoded[c], n, y) /\ scanned'[c] = scanned[c],
         PhaseOf(c)',
         n \in disturbed[c] \/ Fresh(c, n)' \/ (req[c].mode = "legacy" /\ n = <<Index>> /\ pc[c] # "read")
  PROVE  CreateInv(c)'
<1> USE DEF CreateInv, Kept
<1>m. IsMap(scanned[c], DOMAIN stat[c]) /\ IsMap(encoded[c], DOMAIN stat[c])
  BY DEF TypesOf
<1>1. /\ \/ Adds(scanned'[c], scanned[c], DOMAIN stat[c], n, x) /\ encoded'[c] = encoded[c]
         \/ Adds(encoded'[c], encoded[c], DOMAIN stat[c], n, y) /\ scanned'[c] = scanned[c]
  BY <1>m, PutIs
<1>2. TypesOf(c)'
  BY <1>1, <1>m DEF TypesOf, Adds
<1>3. ReadsOf(c)'
  <2> SUFFICES ASSUME NEW m \in DOMAIN stat[c] \ disturbed[c]
               PROVE  IF m \in DOMAIN scanned'[c] \cap DOMAIN encoded'[c]
                      THEN \/ scanned'[c][m] = encoded'[c][m] /\ Len(scanned'[c][m]) = stat[c][m]
                           \/ req[c].mode = "legacy" /\ m = <<Index>>
                      ELSE (Fresh(c, m) \/ OwnIndex(c, m))'
    BY DEF ReadsOf
  <2>1. CASE m = n
    <3>1. CASE Fresh(c, n)'
      BY <2>1, <3>1 DEF Fresh
    <3>2. CASE req[c].mode = "legacy" /\ n = <<Index>> /\ pc[c] # "read"
      BY <2>1, <3>2 DEF OwnIndex
    <3> QED BY <2>1, <3>1, <3>2
  <2>2. CASE m # n
    <3>1. /\ m \in DOMAIN scanned'[c] <=> m \in DOMAIN scanned[c]
          /\ m \in DOMAIN encoded'[c] <=> m \in DOMAIN encoded[c]
          /\ m \in DOMAIN scanned[c] => scanned'[c][m] = scanned[c][m]
          /\ m \in DOMAIN encoded[c] => encoded'[c][m] = encoded[c][m]
      BY <1>1, <2>2 DEF Adds
    <3>2. Fresh(c, m) => Fresh(c, m)'
      BY <3>1 DEF Fresh, Exists, Blocks
    <3>3. OwnIndex(c, m) => OwnIndex(c, m)'
      BY DEF OwnIndex
    <3> QED BY <3>1, <3>2, <3>3 DEF ReadsOf
  <2> QED BY <2>1, <2>2
<1>4. PresentTo(c)' /\ WritesOf(c)' /\ FailureOf(c)' /\ PlacedBy(c)'
  BY DEF PresentTo, Reading, OnlyIndex, WritesOf, FailureOf, PlacedBy, Exists
<1> QED BY <1>2, <1>3, <1>4

\* The scan of a mapped file is of the version that is mapped.
LEMMA ScanKeeps ==
  ASSUME MapsInv, DirInv, NEW c \in Creates, CreateInv(c), Scan(c)
  PROVE  CreateInv(c)'
<1> DEFINE n == mapped[c].name
<1>1. /\ pc[c] = "read" /\ mapped[c] # NoMap /\ n \notin DOMAIN scanned[c]
      /\ Kept(c) /\ stat'[c] = stat[c] /\ mapped'[c] = mapped[c] /\ encoded'[c] = encoded[c]
  BY DEF Scan, Mapping, Kept, fs, MapsInv
<1>2. n \in DOMAIN stat[c] /\ writing[c] = NoFile
  BY <1>1 DEF CreateInv, TypesOf, PhaseOf
<1>3. n \in disturbed[c] \/ Fresh(c, n)
  BY <1>1, <1>2, FreshWhileReading
<1>4. CASE Truncated(c) \/ mapped[c].length = 0
  <2>1. /\ pc'[c] = "killed" \/ (pc'[c] = "panic" /\ mapped[c].length = 0)
        /\ scanned'[c] = scanned[c]
    BY <1>4 DEF Scan, Goto, MapsInv
  <2>2. mapped[c].length = 0 => n \in disturbed[c]
    BY <1>2, <1>3 DEF Fresh, CreateInv, TypesOf
  <2>3. FailureOf(c)'
    BY <1>1, <2>1, <2>2 DEF FailureOf, Kept
  <2> QED BY <1>1, <1>2, <2>1, <2>3, StopsKeep DEF Stopped
<1>5. CASE ~Truncated(c) /\ mapped[c].length # 0
  <2> DEFINE x == SubSeq(InMemory(c), 1, mapped[c].length)
  <2>1. scanned'[c] = Put(scanned[c], n, x) /\ pc'[c] = pc[c]
    BY <1>5 DEF Scan, MapsInv
  <2>m. IsMap(scanned[c], DOMAIN stat[c])
    BY DEF CreateInv, TypesOf
  <2>2. Adds(scanned'[c], scanned[c], DOMAIN stat[c], n, x)
    BY <1>2, <2>1, <2>m, PutIs
  <2>3. PhaseOf(c)'
    BY <1>1, <1>2, <2>1, <2>2 DEF CreateInv, PhaseOf, Kept, Adds
  <2>4. Fresh(c, n) => Fresh(c, n)'
    <3> SUFFICES ASSUME Fresh(c, n) PROVE Fresh(c, n)'
      OBVIOUS
    <3>1. IsSeq(Blocks(n)) /\ InMemory(c) = Blocks(n) /\ mapped[c].length = Len(Blocks(n))
      <4>1. n \in Names
        BY <1>2 DEF CreateInv, TypesOf, IsMap
      <4>2. dir[n] \in 1 .. Len(inode)
        BY <4>1 DEF Fresh, DirInv, Exists, IsSeq
      <4> QED BY <4>2 DEF Fresh, DirInv, Blocks, InMemory
    <3>2. x = Blocks(n)
      BY <3>1, WholeIsSelf
    <3>3. scanned'[c][n] = Blocks(n)
      BY <2>2, <3>2 DEF Adds
    <3> QED BY <1>1, <3>3 DEF Fresh, Exists, Blocks, Kept
  <2> QED BY <1>1, <1>2, <1>3, <2>1, <2>3, <2>4, ReadKeeps
<1> QED BY <1>4, <1>5

\* The fused create encodes a file from the mapping it was scanned in.
LEMMA EncodeMappedKeeps ==
  ASSUME MapsInv, DirInv, NEW c \in Creates, CreateInv(c), EncodeMapped(c)
  PROVE  CreateInv(c)'
<1> DEFINE n == mapped[c].name
<1>1. /\ pc[c] = "read" /\ mapped[c] # NoMap /\ n \notin DOMAIN encoded[c]
      /\ req[c].mode = "fused"
      /\ Kept(c) /\ stat'[c] = stat[c] /\ mapped'[c] = mapped[c] /\ scanned'[c] = scanned[c]
  BY DEF EncodeMapped, Mapping, Kept, fs, MapsInv
<1>2. n \in DOMAIN stat[c] /\ writing[c] = NoFile
  BY <1>1 DEF CreateInv, TypesOf, PhaseOf
<1>3. n \in disturbed[c] \/ Fresh(c, n)
  BY <1>1, <1>2, FreshWhileReading
<1>4. CASE Truncated(c) \/ mapped[c].length < stat[c][n]
  <2>1. /\ pc'[c] = "killed" \/ (pc'[c] = "panic" /\ mapped[c].length < stat[c][n])
        /\ encoded'[c] = encoded[c]
    BY <1>4 DEF EncodeMapped, Goto, MapsInv
  <2>2. mapped[c].length < stat[c][n] => n \in disturbed[c]
    BY <1>2, <1>3 DEF Fresh, CreateInv, TypesOf
  <2>3. FailureOf(c)'
    BY <1>1, <2>1, <2>2 DEF FailureOf, Kept
  <2> QED BY <1>1, <1>2, <2>1, <2>3, StopsKeep DEF Stopped
<1>5. CASE ~Truncated(c) /\ ~(mapped[c].length < stat[c][n])
  <2> DEFINE x == SubSeq(InMemory(c), 1, stat[c][n])
  <2>1. encoded'[c] = Put(encoded[c], n, x) /\ pc'[c] = pc[c]
    BY <1>5 DEF EncodeMapped, MapsInv
  <2>m. IsMap(encoded[c], DOMAIN stat[c])
    BY DEF CreateInv, TypesOf
  <2>2. Adds(encoded'[c], encoded[c], DOMAIN stat[c], n, x)
    BY <1>2, <2>1, <2>m, PutIs
  <2>3. PhaseOf(c)'
    BY <1>1, <1>2, <2>1, <2>2 DEF CreateInv, PhaseOf, Kept, Adds
  <2>4. Fresh(c, n) => Fresh(c, n)'
    <3> SUFFICES ASSUME Fresh(c, n) PROVE Fresh(c, n)'
      OBVIOUS
    <3>1. IsSeq(Blocks(n)) /\ InMemory(c) = Blocks(n) /\ stat[c][n] = Len(Blocks(n))
      <4>1. n \in Names
        BY <1>2 DEF CreateInv, TypesOf, IsMap
      <4>2. dir[n] \in 1 .. Len(inode)
        BY <4>1 DEF Fresh, DirInv, Exists, IsSeq
      <4> QED BY <4>2 DEF Fresh, DirInv, Blocks, InMemory
    <3>2. x = Blocks(n)
      BY <3>1, WholeIsSelf
    <3>3. encoded'[c][n] = Blocks(n)
      BY <2>2, <3>2 DEF Adds
    <3> QED BY <1>1, <3>3 DEF Fresh, Exists, Blocks, Kept
  <2> QED BY <1>1, <1>2, <1>3, <2>1, <2>3, <2>4, ReadKeeps
<1> QED BY <1>4, <1>5

\* The CLI reads the file that the name leads to by now, which is still the
\* same, and takes as many slices as were scanned, which is all of them.
LEMMA EncodeAgainKeeps ==
  ASSUME MapsInv, DirInv, NEW c \in Creates, CreateInv(c), NEW n \in Names, EncodeAgain(c, n)
  PROVE  CreateInv(c)'
<1>1. /\ pc[c] = "encode" /\ n \in inputs[c] /\ n \notin DOMAIN encoded[c]
      /\ Kept(c) /\ stat'[c] = stat[c] /\ mapped'[c] = mapped[c] /\ scanned'[c] = scanned[c]
  BY DEF EncodeAgain, Kept, fs, MapsInv
<1>2. /\ writing[c] = NoFile /\ req[c].mode = "legacy" /\ Index \notin left[c]
      /\ n \in DOMAIN stat[c] /\ n \in DOMAIN scanned[c]
  BY <1>1 DEF CreateInv, PhaseOf
<1>3. CASE ~Exists(n)
  <2>1. pc'[c] = "error" /\ encoded'[c] = encoded[c]
    BY <1>3 DEF EncodeAgain, Goto, MapsInv
  <2>2. n \in disturbed[c] \/ n = Tmp(Index)
    BY <1>1, <1>3 DEF CreateInv, PresentTo, Reading
  <2>3. FailureOf(c)'
    BY <1>1, <1>2, <2>2 DEF FailureOf, Kept
  <2> QED BY <1>1, <1>2, <2>1, <2>3, StopsKeep DEF Stopped
<1>4. CASE Exists(n)
  <2> DEFINE y == [k \in 1 .. Len(scanned[c][n]) |->
                     IF k <= Len(Blocks(n)) THEN Blocks(n)[k] ELSE Zero]
  <2>1. encoded'[c] = Put(encoded[c], n, y) /\ pc'[c] = pc[c]
    BY <1>4 DEF EncodeAgain, MapsInv
  <2>m. IsMap(encoded[c], DOMAIN stat[c])
    BY DEF CreateInv, TypesOf
  <2>2. Adds(encoded'[c], encoded[c], DOMAIN stat[c], n, y)
    BY <1>2, <2>1, <2>m, PutIs
  <2>3. PhaseOf(c)'
    BY <1>1, <1>2, <2>1 DEF CreateInv, PhaseOf, Kept
  <2>4. \/ n \in disturbed[c] \/ Fresh(c, n)
        \/ (req[c].mode = "legacy" /\ n = <<Index>> /\ pc[c] # "read")
    <3>1. writing[c].name # Index
      BY <1>2, NoFileIs
    <3> QED BY <1>1, <1>2, <1>4, <3>1 DEF CreateInv, ReadsOf, OwnIndex, Exists
  <2>5. Fresh(c, n) => Fresh(c, n)'
    <3> SUFFICES ASSUME Fresh(c, n) PROVE Fresh(c, n)'
      OBVIOUS
    <3>1. dir[n] \in 1 .. Len(inode)
      BY DEF Fresh, DirInv, Exists, IsSeq
    <3>2. IsSeq(Blocks(n)) /\ scanned[c][n] = Blocks(n)
      BY <1>2, <3>1 DEF Fresh, DirInv, Blocks
    <3>3. y = Blocks(n)
      BY <3>2 DEF IsSeq
    <3>4. encoded'[c][n] = Blocks(n)
      BY <2>2, <3>3 DEF Adds
    <3> QED BY <1>1, <3>4 DEF Fresh, Exists, Blocks, Kept
  <2> QED BY <1>1, <1>2, <2>1, <2>3, <2>4, <2>5, ReadKeeps
<1> QED BY <1>3, <1>4

\* The mapping goes when all that is to be read of the file is read.
LEMMA UnmapKeeps ==
  ASSUME MapsInv, NEW c \in Creates, CreateInv(c), Unmap(c)
  PROVE  CreateInv(c)'
<1> USE DEF CreateInv
<1>1. /\ pc[c] = "read" /\ pc'[c] = "read" /\ mapped[c] # NoMap /\ mapped'[c] = NoMap
      /\ Kept(c) /\ stat'[c] = stat[c] /\ scanned'[c] = scanned[c] /\ encoded'[c] = encoded[c]
      /\ req[c].mode = "fused" => mapped[c].name \in DOMAIN encoded[c]
  BY DEF Unmap, Mapping, Kept, fs, MapsInv
<1>2. NoMap.name = None
  BY DEF NoMap
<1>3. TypesOf(c)' /\ PhaseOf(c)'
  BY <1>1, <1>2 DEF TypesOf, PhaseOf, Kept
<1>4. ReadsOf(c)'
  <2> SUFFICES ASSUME NEW n \in DOMAIN stat[c] \ disturbed[c],
                      n \notin DOMAIN scanned[c] \cap DOMAIN encoded[c]
               PROVE  Fresh(c, n)'
    BY <1>1 DEF ReadsOf, Kept
  <2>1. n # None
    BY NameFacts DEF TypesOf, IsMap
  <2>2. Fresh(c, n)
    BY <1>1, FreshWhileReading
  <2> QED BY <1>1, <1>2, <2>1, <2>2 DEF Fresh, Exists, Blocks, Kept
<1>5. PresentTo(c)' /\ WritesOf(c)' /\ FailureOf(c)' /\ PlacedBy(c)'
  BY <1>1 DEF PresentTo, Reading, OnlyIndex, WritesOf, FailureOf, PlacedBy, Exists, Kept
<1> QED BY <1>3, <1>4, <1>5

\* From reading to writing: fused, all has been read; legacy, the index comes
\* first.
LEMMA ReadAllKeeps ==
  ASSUME MapsInv, NEW c \in Creates, CreateInv(c), ReadAll(c)
  PROVE  CreateInv(c)'
<1> USE DEF CreateInv
<1>1. /\ pc[c] = "read" /\ pc'[c] = "write" /\ mapped[c] = NoMap /\ mapped'[c] = mapped[c]
      /\ Kept(c) /\ stat'[c] = stat[c] /\ scanned'[c] = scanned[c] /\ encoded'[c] = encoded[c]
      /\ DOMAIN scanned[c] = inputs[c]
  BY DEF ReadAll, Kept, fs, MapsInv, Goto
<1>2. NoMap.name = None /\ None \notin DOMAIN scanned[c] /\ DOMAIN stat[c] = inputs[c]
  BY <1>1, NameFacts DEF NoMap, TypesOf, IsMap
<1>3. TypesOf(c)'
  BY <1>1 DEF TypesOf, Kept
<1>4. PhaseOf(c)'
  BY <1>1, <1>2 DEF PhaseOf, TypesOf, IsMap, OnlyIndex, Kept
<1>5. ReadsOf(c)'
  <2>1. \A n : /\ Fresh(c, n) => Fresh(c, n)'
               /\ OwnIndex(c, n) => OwnIndex(c, n)'
    BY <1>1 DEF Fresh, OwnIndex, Exists, Blocks, Kept
  <2> QED BY <1>1, <2>1 DEF ReadsOf, Kept
<1>6. PresentTo(c)' /\ WritesOf(c)' /\ FailureOf(c)' /\ PlacedBy(c)'
  BY <1>1 DEF PresentTo, Reading, OnlyIndex, PhaseOf, WritesOf, FailureOf, PlacedBy, Exists, Kept
<1> QED BY <1>3, <1>4, <1>5, <1>6

\* The legacy create turns to writing when it has encoded all its inputs.
LEMMA EncodedAllKeeps ==
  ASSUME MapsInv, NEW c \in Creates, CreateInv(c), EncodedAll(c)
  PROVE  CreateInv(c)'
<1> USE DEF CreateInv
<1>1. /\ pc[c] = "encode" /\ pc'[c] = "write" /\ mapped'[c] = mapped[c]
      /\ Kept(c) /\ stat'[c] = stat[c] /\ scanned'[c] = scanned[c] /\ encoded'[c] = encoded[c]
      /\ DOMAIN encoded[c] = inputs[c]
  BY DEF EncodedAll, Kept, fs, MapsInv, Goto
<1>2. TypesOf(c)' /\ PhaseOf(c)'
  BY <1>1 DEF TypesOf, PhaseOf, Kept
<1>3. ReadsOf(c)'
  BY <1>1 DEF ReadsOf, PhaseOf, TypesOf, IsMap, Kept
<1>4. PresentTo(c)' /\ WritesOf(c)' /\ FailureOf(c)' /\ PlacedBy(c)'
  BY <1>1 DEF PresentTo, Reading, OnlyIndex, PhaseOf, WritesOf, FailureOf, PlacedBy, Exists, Kept
<1> QED BY <1>2, <1>3, <1>4

-----------------------------------------------------------------------------
(* A create's own steps: writing                                           *)

\* What the steps of c that write leave as it is for c.
ReadAlready(c) ==
  /\ req'[c] = req[c] /\ inputs'[c] = inputs[c] /\ stat'[c] = stat[c]
  /\ mapped'[c] = mapped[c] /\ scanned'[c] = scanned[c] /\ encoded'[c] = encoded[c]
  /\ disturbed'[c] = disturbed[c]

\* While a create writes o it may only spoil for itself what is named after o;
\* and that matters, if o is the index and the encode is still to come.
LEMMA WritingSparesReads ==
  ASSUME NEW c \in Creates, CreateInv(c), pc[c] = "write", ReadAlready(c), NEW o \in left[c],
         Index \in left[c] => o = Index,
         pc'[c] # "read",
         \A n \in Names : n # <<o>> /\ n # Tmp(o) => Spared(n),
         o = Index => OwnIndex(c, Tmp(Index))' \/ req[c].mode = "fused",
         writing[c].name = Index => o = Index
  PROVE  ReadsOf(c)'
<1> USE DEF CreateInv
<1> SUFFICES ASSUME NEW n \in DOMAIN stat[c] \ disturbed[c],
                    n \notin DOMAIN scanned[c] \cap DOMAIN encoded[c]
             PROVE  (Fresh(c, n) \/ OwnIndex(c, n))'
  BY DEF ReadsOf, ReadAlready
<1>1. req[c].mode = "legacy" /\ o = Index /\ n \in Names
  BY DEF PhaseOf, TypesOf, IsMap, OnlyIndex
<1>2. CASE n = Tmp(Index)
  BY <1>1, <1>2
<1>3. CASE n = <<Index>>
  BY <1>1, <1>3 DEF OwnIndex, ReadAlready
<1>4. CASE n # Tmp(Index) /\ n # <<Index>>
  <2>1. Fresh(c, n)
    BY <1>4 DEF ReadsOf, OwnIndex
  <2>2. dir'[n] = dir[n] /\ dir[n] # 0 /\ inode'[dir[n]] = inode[dir[n]]
    BY <1>1, <1>4, <2>1 DEF Spared, Fresh, Exists
  <2> QED BY <2>1, <2>2 DEF Fresh, Exists, Blocks, ReadAlready
<1> QED BY <1>2, <1>3, <1>4

\* A tmp file belongs to an output that is still to be written.
LEMMA CreateTmpKeeps ==
  ASSUME MapsInv, DirInv, NEW c \in Creates, CreateInv(c), NEW o \in Outputs, CreateTmp(c, o)
  PROVE  CreateInv(c)'
<1> USE DEF CreateInv
<1>1. /\ pc[c] = "write" /\ pc'[c] = "write" /\ writing[c] = NoFile /\ o \in left[c]
      /\ left'[c] = left[c] /\ ReadAlready(c)
      /\ Index \in left[c] => o = Index
  BY DEF CreateTmp, ReadAlready, Noticed, MapsInv
<1>2. /\ DirInv' /\ NamesMove
      /\ dir'[Tmp(o)] \in 1 .. Len(inode') /\ inode'[dir'[Tmp(o)]] = None
      /\ Exists(Tmp(o)) => dir'[Tmp(o)] = dir[Tmp(o)]
      /\ writing'[c] = [name |-> o, node |-> dir'[Tmp(o)], blocks |-> 0]
      /\ \A n \in Names : n # Tmp(o) => Spared(n) /\ dir'[n] # dir'[Tmp(o)]
  BY CreateTmpIs
<1>3. /\ writing'[c].name = o /\ writing'[c].node = dir'[Tmp(o)]
      /\ writing'[c] \in [name : left[c], node : 1 .. Len(inode'), blocks : 0 .. FILE_BLOCKS]
  BY <1>1, <1>2 DEF FILE_BLOCKS
<1>4. TypesOf(c)'
  BY <1>1, <1>3 DEF TypesOf, ReadAlready
<1>5. PhaseOf(c)'
  BY <1>1, <1>3 DEF PhaseOf, OnlyIndex, ReadAlready
<1>6. ReadsOf(c)'
  <2>1. o = Index => OwnIndex(c, Tmp(Index))' \/ req[c].mode = "fused"
    BY <1>1, <1>3 DEF PhaseOf, OwnIndex, ReadAlready
  <2>2. writing[c].name # Index
    BY <1>1, NoFileIs
  <2> QED BY <1>1, <1>2, <2>1, <2>2, WritingSparesReads
<1>7. PresentTo(c)'
  <2> SUFFICES ASSUME NEW n \in inputs[c] \ disturbed[c], OnlyIndex(c), n # Tmp(Index)
               PROVE  Exists(n)'
    BY <1>1 DEF PresentTo, Reading, OnlyIndex, ReadAlready
  <2>1. Exists(n) /\ n \in Names
    BY <1>1 DEF PresentTo, Reading, TypesOf
  <2> QED BY <1>1, <1>2, <2>1 DEF OnlyIndex, Spared, Exists
<1>8. WritesOf(c)'
  BY <1>2, <1>3, NameFacts DEF WritesOf
<1>9. FailureOf(c)'
  BY <1>1 DEF FailureOf
<1>10. PlacedBy(c)'
  <2>1. {Index} \cup req[c].volumes \subseteq Outputs
    BY DEF TypesOf, Outputs
  <2> QED BY <1>1, <1>2, <2>1 DEF PlacedBy, NamesMove, ReadAlready
<1> QED BY <1>4, <1>5, <1>6, <1>7, <1>8, <1>9, <1>10

\* A block goes to the node the writer has open.
LEMMA WriteBlockKeeps ==
  ASSUME MapsInv, DirInv, NEW c \in Creates, CreateInv(c), WriteBlock(c)
  PROVE  CreateInv(c)'
<1> DEFINE w == writing[c]
<1> USE DEF CreateInv
<1>1. /\ pc[c] = "write" /\ pc'[c] = "write"
      /\ left'[c] = left[c] /\ ReadAlready(c)
  BY DEF WriteBlock, ReadAlready, Noticed, MapsInv
<1>2. /\ DirInv' /\ NamesMove
      /\ w # NoFile /\ w.node \in 1 .. Len(inode) /\ w.blocks + 1 \in 1 .. FILE_BLOCKS
      /\ w.name \in left[c]
      /\ dir' = dir /\ writing'[c] = [w EXCEPT !.blocks = w.blocks + 1]
      /\ \A n \in Names : dir[n] # w.node => Spared(n)
  BY WriteBlockIs
<1>3. /\ w \in [name : left[c], node : 1 .. Len(inode), blocks : 0 .. FILE_BLOCKS]
      /\ Index \in left[c] => w.name = Index
  BY <1>2 DEF TypesOf, PhaseOf
<1>4. /\ writing'[c].name = w.name /\ writing'[c].node = w.node
      /\ writing'[c] \in [name : left[c], node : 1 .. Len(inode'), blocks : 0 .. FILE_BLOCKS]
  <2>1. w.node \in 1 .. Len(inode')
    BY <1>2 DEF NamesMove, DirInv, IsSeq
  <2> QED BY <1>2, <1>3, <2>1 DEF FILE_BLOCKS
<1>5. TypesOf(c)'
  BY <1>1, <1>4 DEF TypesOf, ReadAlready
<1>6. PhaseOf(c)'
  BY <1>1, <1>3, <1>4 DEF PhaseOf, OnlyIndex, ReadAlready
<1>7. ReadsOf(c)'
  <2>1. w.name = Index => OwnIndex(c, Tmp(Index))' \/ req[c].mode = "fused"
    BY <1>1, <1>4 DEF PhaseOf, OwnIndex, ReadAlready
  <2>2. ASSUME NEW n \in Names, n # <<w.name>>, n # Tmp(w.name) PROVE Spared(n)
    <3>1. n[1] # w.name
      BY <2>2, NameFacts
    <3> QED BY <1>2, <3>1 DEF WritesOf
  <2> QED BY <1>1, <1>2, <1>3, <2>1, <2>2, WritingSparesReads
<1>8. PresentTo(c)' /\ FailureOf(c)' /\ PlacedBy(c)'
  BY <1>1, <1>2 DEF PresentTo, Reading, OnlyIndex, FailureOf, PlacedBy, Exists, ReadAlready
<1>9. WritesOf(c)'
  BY <1>1, <1>2, <1>4 DEF WritesOf, ReadAlready
<1> QED BY <1>5, <1>6, <1>7, <1>8, <1>9

\* A rename moves one output from those left to those in place.
LEMMA RenameKeeps ==
  ASSUME MapsInv, DirInv, NEW c \in Creates, CreateInv(c), Rename(c)
  PROVE  CreateInv(c)'
<1> DEFINE o == writing[c].name
<1> USE DEF CreateInv
<1>1. pc[c] = "write" /\ ReadAlready(c)
  BY DEF Rename, ReadAlready, Noticed, MapsInv
<1>2. /\ DirInv' /\ NamesMove
      /\ writing[c] # NoFile /\ writing'[c] = NoFile
      /\ o \in left[c] /\ left'[c] = left[c] \ {o}
      /\ dir'[Tmp(o)] = 0
      /\ dir'[<<o>>] = IF Exists(Tmp(o)) THEN dir[Tmp(o)] ELSE dir[<<o>>]
      /\ \A n \in Names : n # <<o>> /\ n # Tmp(o) => Spared(n)
  BY RenameIs
<1>3. /\ Index \in left[c] => o = Index
      /\ o \in Outputs /\ Index \notin left'[c] /\ left'[c] \subseteq Outputs
  BY <1>2 DEF TypesOf, PhaseOf
<1>4. \/ /\ Exists(Tmp(o))
         /\ pc'[c] = IF left'[c] = {} THEN "ok"
                     ELSE IF o = Index /\ req[c].mode = "legacy" THEN "encode" ELSE "write"
      \/ ~Exists(Tmp(o)) /\ pc'[c] = "error"
  BY DEF Rename, Goto, MapsInv
<1>5. DOMAIN encoded[c] = inputs[c] \/ (o = Index /\ req[c].mode = "legacy")
  BY <1>1, <1>3 DEF PhaseOf, OnlyIndex
<1>6. TypesOf(c)'
  BY <1>1, <1>2, <1>3, <1>4 DEF TypesOf, ReadAlready, Stopped
<1>7. PhaseOf(c)'
  BY <1>1, <1>2, <1>3, <1>4, <1>5 DEF PhaseOf, OnlyIndex, ReadAlready
<1>8. ReadsOf(c)'
  <2>1. o = Index => OwnIndex(c, Tmp(Index))' \/ req[c].mode = "fused"
    <3>1. Index \notin left'[c] /\ dir'[Tmp(o)] = 0
      BY <1>2, <1>3
    <3> QED BY <1>1, <3>1 DEF PhaseOf, OwnIndex, ReadAlready
  <2>2. pc'[c] # "read"
    BY <1>4
  <2>3. \A n \in Names : n # <<o>> /\ n # Tmp(o) => Spared(n)
    BY <1>2
  <2>4. o \in left[c] /\ (Index \in left[c] => o = Index)
    BY <1>2, <1>3
  <2> QED BY <1>1, <2>1, <2>2, <2>3, <2>4, WritingSparesReads
<1>9. PresentTo(c)'
  <2> SUFFICES ASSUME NEW n \in inputs[c] \ disturbed[c], pc'[c] = "encode", n # Tmp(Index)
               PROVE  Exists(n)'
    BY <1>1, <1>3, <1>4, <1>5 DEF PresentTo, Reading, OnlyIndex, PhaseOf, ReadAlready
  <2>1. OnlyIndex(c) /\ o = Index /\ Exists(Tmp(Index))
    BY <1>2, <1>4 DEF OnlyIndex
  <2>2. Exists(n) /\ n \in Names
    BY <1>1, <2>1 DEF PresentTo, Reading, TypesOf
  <2>3. CASE n = <<Index>>
    BY <1>2, <2>1, <2>3 DEF Exists
  <2>4. CASE n # <<Index>>
    BY <1>2, <2>1, <2>2, <2>4 DEF Spared, Exists
  <2> QED BY <2>3, <2>4
<1>10. WritesOf(c)'
  BY <1>2 DEF WritesOf
<1>11. FailureOf(c)'
  <2> SUFFICES ASSUME ~Exists(Tmp(o)) PROVE disturbed[c] # {}
    BY <1>1, <1>4 DEF FailureOf, ReadAlready
  <2>1. writing[c].node # 0
    BY <1>2 DEF TypesOf
  <2> QED BY <1>2, <2>1 DEF WritesOf, Exists
<1>12. PlacedBy(c)'
  <2> SUFFICES ASSUME NEW p \in {Index} \cup req[c].volumes, p \notin left'[c], Exists(Tmp(o))
               PROVE  Exists(<<p>>)'
    BY <1>1, <1>4 DEF PlacedBy, ReadAlready
  <2>1. CASE p = o
    BY <1>2, <2>1 DEF Exists
  <2>2. CASE p # o
    <3>1. Exists(<<p>>) /\ p \in Outputs
      BY <1>1, <1>2, <2>2 DEF PlacedBy, TypesOf, Outputs
    <3> QED BY <1>2, <3>1 DEF NamesMove
  <2> QED BY <2>1, <2>2
<1> QED BY <1>6, <1>7, <1>8, <1>9, <1>10, <1>11, <1>12

-----------------------------------------------------------------------------
(* What the files hold                                                     *)

\* The actions that change no file.
QuietStep(c) ==
  \/ Kill(c) \/ Begin(c)
  \/ \E n \in Names : Stat(c, n) \/ Map(c, n) \/ EncodeAgain(c, n)
  \/ Scan(c) \/ EncodeMapped(c) \/ Unmap(c) \/ ReadAll(c) \/ EncodedAll(c)

\* What a create writes does not change once it has begun to write it.
LEMMA SettledStays ==
  ASSUME MapsInv, NEW c \in Creates, CreateInv(c), Same(c) \/ Step(c) \/ Kill(c),
         NEW o, Settled(c, o)
  PROVE  Settled(c, o)' /\ Content(c, o)' = Content(c, o)
<1> DEFINE Stays == /\ inputs'[c] = inputs[c] /\ stat'[c] = stat[c] /\ scanned'[c] = scanned[c]
                    /\ o # Index => encoded'[c] = encoded[c]
                    /\ pc'[c] \notin {"idle", "read"}
<1>1. Stays => Settled(c, o)' /\ Content(c, o)' = Content(c, o)
  BY DEF Settled, Content, FileId
<1>2. CASE Same(c)
  BY <1>1, <1>2 DEF Same, Settled
<1>3. CASE Kill(c)
  BY <1>1, <1>3 DEF Kill, Goto, MapsInv
<1>4. CASE Step(c)
  <2>1. pc[c] \notin {"idle", "read"}
    BY DEF Settled
  <2>2. CASE \E n \in Names : EncodeAgain(c, n)
    <3>1. PICK n \in Names : EncodeAgain(c, n)
      BY <2>2
    <3>2. o = Index
      BY <3>1 DEF Settled, EncodeAgain
    <3> QED BY <1>1, <2>1, <3>1, <3>2 DEF EncodeAgain, Goto, MapsInv
  <2>3. CASE EncodedAll(c)
    BY <1>1, <2>3 DEF EncodedAll, Goto, MapsInv
  <2>4. CASE \E p \in Outputs : CreateTmp(c, p)
    BY <1>1, <2>1, <2>4 DEF CreateTmp
  <2>5. CASE WriteBlock(c)
    BY <1>1, <2>1, <2>5 DEF WriteBlock
  <2>6. CASE Rename(c)
    <3>1. pc'[c] \in {"ok", "encode", "write", "error"}
      BY <2>6 DEF Rename, Goto, MapsInv
    <3> QED BY <1>1, <2>6, <3>1 DEF Rename
  <2> QED BY <1>4, <2>1, <2>2, <2>3, <2>4, <2>5, <2>6
          DEF Step, Begin, Stat, Map, Scan, EncodeMapped, Unmap, ReadAll, Mapping
<1> QED BY <1>2, <1>3, <1>4

\* So a block of an output remains one.
BlocksStay == \A b, o, k : BlockOf(b, o, k) => BlockOf(b, o, k)'

\* What a create has settled about its outputs no step unsettles.
LEMMA BlocksStayOnes ==
  ASSUME MapsInv, \A c \in Creates : CreateInv(c),
         \A c \in Creates : Same(c) \/ Step(c) \/ Kill(c)
  PROVE  BlocksStay
<1> SUFFICES ASSUME NEW b, NEW o, NEW k, BlockOf(b, o, k) PROVE BlockOf(b, o, k)'
  BY DEF BlocksStay
<1>1. PICK c \in Creates : Settled(c, o) /\ b = <<Content(c, o), k>>
  BY DEF BlockOf
<1>2. Settled(c, o)' /\ Content(c, o)' = Content(c, o)
  BY <1>1, SettledStays
<1> QED BY <1>1, <1>2 DEF BlockOf

\* A file that is not written to, under its name or a new one.
LEMMA FileStays ==
  ASSUME BlocksStay, NEW m \in Names, NEW n \in Names, m[1] = n[1], FileInv(m),
         dir'[n] = dir[m], Exists(m) => inode'[dir[m]] = inode[dir[m]],
         \A k \in 1 .. FILE_BLOCKS : Exists(m) /\ Expected(dir[m], k) =>
           \E c \in Creates : writing'[c].node = dir[m] /\ writing'[c].blocks < k
  PROVE  FileInv(n)'
<1> SUFFICES ASSUME Exists(m) PROVE FileInv(n)'
  BY DEF FileInv, Exists
<1>1. Exists(n)' /\ Blocks(n)' = Blocks(m)
  BY DEF Blocks, Exists
<1>2. \A k \in 1 .. FILE_BLOCKS : Expected(dir[m], k) => Expected(dir[n], k)'
  BY DEF Expected
<1> QED BY <1>1, <1>2 DEF FileInv, BlocksStay

\* A step that writes nothing keeps what is known of the output files.
LEMMA QuietKeepsFiles ==
  ASSUME BlocksStay, UNCHANGED <<fs, writing>>, FilesInv, TmpInv
  PROVE  FilesInv' /\ TmpInv'
<1>1. FilesInv'
  <2> SUFFICES ASSUME NEW n \in Names, n[1] \in Outputs PROVE FileInv(n)'
    BY DEF FilesInv
  <2>1. dir' = dir /\ inode' = inode /\ writing' = writing
    BY DEF fs
  <2> QED BY <2>1, FileStays DEF FilesInv, Expected
<1>2. TmpInv'
  BY DEF fs, TmpInv, Exists
<1> QED BY <1>1, <1>2

\* An edit touches a source, never an output or a tmp file.
LEMMA EditKeepsFiles ==
  ASSUME BlocksStay, DirInv, FilesInv, TmpInv, NEW s \in Sources, Edit(s)
  PROVE  FilesInv' /\ TmpInv'
<1>1. writing' = writing /\ \A n \in Names : n # <<s>> => Spared(n)
  BY EditIs DEF Edit
<1>2. \A n \in Names : n[1] \in Outputs => Spared(n)
  <2>1. <<s>>[1] \notin Outputs
    BY NameFacts
  <2> QED BY <1>1, <2>1
<1>3. FilesInv'
  <2> SUFFICES ASSUME NEW n \in Names, n[1] \in Outputs PROVE FileInv(n)'
    BY DEF FilesInv
  <2> QED BY <1>1, <1>2, FileStays DEF FilesInv, Expected, Spared
<1>4. TmpInv'
  BY <1>1, <1>2, NameFacts DEF TmpInv, Spared, Exists
<1> QED BY <1>3, <1>4

\* A new tmp file, or the truncation of an old one, empties that tmp file only.
LEMMA CreateTmpKeepsFiles ==
  ASSUME BlocksStay, MapsInv, DirInv, FilesInv, TmpInv,
         NEW c \in Creates, NEW o \in Outputs, CreateTmp(c, o),
         \A d \in Creates \ {c} : Same(d)
  PROVE  FilesInv' /\ TmpInv'
<1>1. /\ dir'[Tmp(o)] \in 1 .. Len(inode') /\ inode'[dir'[Tmp(o)]] = None
      /\ writing'[c] = [name |-> o, node |-> dir'[Tmp(o)], blocks |-> 0]
      /\ \A n \in Names : n # Tmp(o) => Spared(n) /\ dir'[n] # dir'[Tmp(o)]
  BY CreateTmpIs
<1>2. writing[c] = NoFile
  BY DEF CreateTmp
<1>3. /\ writing'[c].name = o /\ writing'[c].node = dir'[Tmp(o)] /\ writing'[c].blocks = 0
      /\ writing'[c] # NoFile
  <2>1. /\ writing'[c].name = o /\ writing'[c].node = dir'[Tmp(o)] /\ writing'[c].blocks = 0
        /\ writing'[c].node # 0
    BY <1>1
  <2> QED BY <2>1, NoFileIs
<1>4. FilesInv'
  <2> SUFFICES ASSUME NEW n \in Names, n[1] \in Outputs PROVE FileInv(n)'
    BY DEF FilesInv
  <2>1. CASE n = Tmp(o)
    <3>1. Exists(n)' /\ Blocks(n)' = None /\ Len(None) = 0
      BY <1>1, <2>1 DEF Exists, Blocks, None
    <3>2. \A k \in 1 .. FILE_BLOCKS : Expected(dir[n], k)'
      BY <1>3, <2>1 DEF Expected, FILE_BLOCKS
    <3> QED BY <3>1, <3>2 DEF FileInv, FILE_BLOCKS
  <2>2. CASE n # Tmp(o)
    <3>1. dir'[n] = dir[n] /\ (Exists(n) => inode'[dir[n]] = inode[dir[n]])
      BY <1>1, <2>2 DEF Spared
    <3>2. ASSUME NEW k \in 1 .. FILE_BLOCKS, Exists(n), Expected(dir[n], k)
          PROVE  \E d \in Creates : writing'[d].node = dir[n] /\ writing'[d].blocks < k
      <4>1. PICK d \in Creates : writing[d].node = dir[n] /\ writing[d].blocks < k
        BY <3>2 DEF Expected
      <4>2. d # c
        BY <1>2, <3>2, <4>1, NoFileIs DEF Exists
      <4> QED BY <4>1, <4>2 DEF Same
    <3> QED BY <3>1, <3>2, FileStays DEF FilesInv
  <2> QED BY <2>1, <2>2
<1>5. TmpInv'
  <2> SUFFICES ASSUME NEW p \in Outputs, Exists(Tmp(p))'
               PROVE  \E d \in Creates : writing'[d] # NoFile /\ writing'[d].name = p
    BY DEF TmpInv
  <2>1. CASE p = o
    BY <1>3, <2>1
  <2>2. CASE p # o
    <3>1. Tmp(p) \in Names /\ Tmp(p) # Tmp(o)
      BY <2>2, NameFacts
    <3>2. PICK d \in Creates : writing[d] # NoFile /\ writing[d].name = p
      BY <1>1, <3>1 DEF TmpInv, Spared, Exists
    <3> QED BY <1>2, <3>2 DEF Same
  <2> QED BY <2>1, <2>2
<1> QED BY <1>4, <1>5

\* A block changes the node its writer has open, under whatever name that is.
LEMMA WriteBlockKeepsFiles ==
  ASSUME BlocksStay, MapsInv, DirInv, FilesInv, TmpInv,
         NEW c \in Creates, CreateInv(c), WriteBlock(c),
         \A d \in Creates \ {c} : Same(d)
  PROVE  FilesInv' /\ TmpInv'
<1> DEFINE w == writing[c]
<1>1. PICK i, k, o, old, now :
        /\ i = w.node /\ k = w.blocks + 1 /\ o = w.name
        /\ old = inode[w.node] /\ now = inode'[w.node]
  OBVIOUS
<1>2. /\ w # NoFile /\ i \in 1 .. Len(inode) /\ k \in 1 .. FILE_BLOCKS /\ o \in left[c]
      /\ dir' = dir /\ writing'[c] = [w EXCEPT !.blocks = k]
      /\ IsSeq(old) /\ IsSeq(now)
      /\ Len(now) = IF Len(old) > k THEN Len(old) ELSE k
      /\ now[k] = <<Content(c, o), k>>
      /\ \A j \in 1 .. Len(now) : j # k => now[j] = IF j <= Len(old) THEN old[j] ELSE Zero
      /\ \A n \in Names : dir[n] # i => Spared(n)
  BY <1>1, WriteBlockIs
<1>3. /\ w \in [name : left[c], node : 1 .. Len(inode), blocks : 0 .. FILE_BLOCKS]
      /\ w.blocks \in Nat
  BY <1>2 DEF CreateInv, TypesOf, FILE_BLOCKS
<1>4. /\ writing'[c].name = o /\ writing'[c].node = i /\ writing'[c].blocks = k
      /\ writing'[c] # NoFile
  <2>1. writing'[c].name = o /\ writing'[c].node = i /\ writing'[c].blocks = k
    BY <1>1, <1>2, <1>3
  <2>2. i # 0
    BY <1>2
  <2> QED BY <2>1, <2>2, NoFileIs
<1>5. BlockOf(now[k], o, k)
  <2>1. Settled(c, o)
    <3>1. pc[c] = "write" /\ (Index \in left[c] => o = Index)
      BY <1>1, <1>2 DEF WriteBlock, CreateInv, PhaseOf
    <3> QED BY <3>1 DEF Settled, CreateInv, PhaseOf, OnlyIndex
  <2> QED BY <1>2, <2>1 DEF BlockOf
<1>6. ASSUME NEW j \in 1 .. FILE_BLOCKS, j # k, Expected(i, j)
      PROVE  Expected(i, j)'
  <2>1. PICK d \in Creates : writing[d].node = i /\ writing[d].blocks < j
    BY <1>6 DEF Expected
  <2>2. CASE d = c
    <3>1. k < j
      BY <1>1, <1>3, <1>6, <2>1, <2>2
    <3> QED BY <1>4, <3>1 DEF Expected
  <2>3. CASE d # c
    BY <2>1, <2>3 DEF Expected, Same
  <2> QED BY <2>2, <2>3
<1>7. FilesInv'
  <2> SUFFICES ASSUME NEW n \in Names, n[1] \in Outputs PROVE FileInv(n)'
    BY DEF FilesInv
  <2>1. CASE dir[n] = i
    <3>1. /\ Exists(n) /\ Blocks(n) = old /\ n[1] = o
          /\ Exists(n)' /\ Blocks(n)' = now /\ dir'[n] = i
      BY <1>1, <1>2, <2>1 DEF Exists, Blocks, CreateInv, WritesOf
    <3>2. /\ Len(old) \in Nat /\ Len(old) <= FILE_BLOCKS
          /\ \A j \in 1 .. Len(old) : old[j] = Zero \/ BlockOf(old[j], o, j)
          /\ \A j \in 1 .. FILE_BLOCKS : Expected(i, j) \/ (j <= Len(old) /\ BlockOf(old[j], o, j))
      BY <1>2, <2>1, <3>1 DEF FilesInv, FileInv, IsSeq
    <3>3. Len(now) <= FILE_BLOCKS /\ Len(now) \in Nat /\ Len(old) <= Len(now) /\ k <= Len(now)
      BY <1>2, <3>2 DEF FILE_BLOCKS
    <3>4. ASSUME NEW j \in 1 .. Len(now) PROVE now[j] = Zero \/ BlockOf(now[j], o, j)'
      BY <1>2, <1>5, <3>2 DEF BlocksStay
    <3>5. ASSUME NEW j \in 1 .. FILE_BLOCKS
          PROVE  Expected(i, j)' \/ (j <= Len(now) /\ BlockOf(now[j], o, j)')
      <4>1. CASE j = k
        BY <1>5, <3>3, <4>1 DEF BlocksStay
      <4>2. CASE j # k /\ Expected(i, j)
        BY <1>6, <4>2
      <4>3. CASE j # k /\ j <= Len(old) /\ BlockOf(old[j], o, j)
        <5>1. j \in 1 .. Len(now) /\ now[j] = old[j]
          BY <1>2, <3>2, <3>3, <4>3
        <5> QED BY <4>3, <5>1 DEF BlocksStay
      <4> QED BY <3>2, <4>1, <4>2, <4>3
    <3> QED BY <3>1, <3>3, <3>4, <3>5 DEF FileInv
  <2>2. CASE dir[n] # i
    <3>1. dir'[n] = dir[n] /\ (Exists(n) => inode'[dir[n]] = inode[dir[n]])
      BY <1>2, <2>2 DEF Spared
    <3>2. ASSUME NEW j \in 1 .. FILE_BLOCKS, Exists(n), Expected(dir[n], j)
          PROVE  \E d \in Creates : writing'[d].node = dir[n] /\ writing'[d].blocks < j
      <4>1. PICK d \in Creates : writing[d].node = dir[n] /\ writing[d].blocks < j
        BY <3>2 DEF Expected
      <4>2. d # c
        BY <1>1, <2>2, <4>1
      <4> QED BY <4>1, <4>2 DEF Same
    <3> QED BY <3>1, <3>2, FileStays DEF FilesInv
  <2> QED BY <2>1, <2>2
<1>8. TmpInv'
  <2> SUFFICES ASSUME NEW p \in Outputs, Exists(Tmp(p))
               PROVE  \E d \in Creates : writing'[d] # NoFile /\ writing'[d].name = p
    BY <1>2 DEF TmpInv, Exists
  <2>1. PICK d \in Creates : writing[d] # NoFile /\ writing[d].name = p
    BY DEF TmpInv
  <2> QED BY <1>1, <1>4, <2>1 DEF Same
<1> QED BY <1>7, <1>8

\* What is renamed is complete as far as the create that renames it is
\* concerned.
LEMMA RenameKeepsFiles ==
  ASSUME BlocksStay, MapsInv, DirInv, FilesInv, TmpInv,
         NEW c \in Creates, CreateInv(c), Rename(c),
         \A d \in Creates \ {c} : Same(d)
  PROVE  FilesInv' /\ TmpInv'
<1>1. PICK o : o = writing[c].name
  OBVIOUS
<1>2. /\ writing[c] # NoFile /\ writing'[c] = NoFile
      /\ o \in left[c] /\ inode' = inode /\ dir'[Tmp(o)] = 0
      /\ dir'[<<o>>] = IF Exists(Tmp(o)) THEN dir[Tmp(o)] ELSE dir[<<o>>]
      /\ \A n \in Names : n # <<o>> /\ n # Tmp(o) => Spared(n)
  BY <1>1, RenameIs
<1>3. o \in Outputs /\ writing[c].blocks = FILE_BLOCKS
  BY <1>2 DEF CreateInv, TypesOf, Rename
<1>4. ASSUME NEW i, NEW k \in 1 .. FILE_BLOCKS, Expected(i, k)
      PROVE  \E d \in Creates : writing'[d].node = i /\ writing'[d].blocks < k
  <2>1. PICK d \in Creates : writing[d].node = i /\ writing[d].blocks < k
    BY <1>4 DEF Expected
  <2>2. d # c
    BY <1>3, <2>1 DEF FILE_BLOCKS
  <2> QED BY <2>1, <2>2 DEF Same
<1>5. FilesInv'
  <2> SUFFICES ASSUME NEW n \in Names, n[1] \in Outputs PROVE FileInv(n)'
    BY DEF FilesInv
  <2>1. CASE n = Tmp(o)
    BY <1>2, <2>1 DEF FileInv, Exists
  <2>2. PICK m \in Names : /\ n # Tmp(o) => dir'[n] = dir[m]
                           /\ m[1] = n[1]
    BY <1>2, <1>3, NameFacts DEF Spared
  <2>3. CASE n # Tmp(o)
    BY <1>2, <1>4, <2>2, <2>3, FileStays DEF FilesInv
  <2> QED BY <2>1, <2>3
<1>6. TmpInv'
  <2> SUFFICES ASSUME NEW p \in Outputs, Exists(Tmp(p))'
               PROVE  \E d \in Creates : writing'[d] # NoFile /\ writing'[d].name = p
    BY DEF TmpInv
  <2>1. p # o
    BY <1>2 DEF Exists
  <2>2. Tmp(p) \in Names /\ Tmp(p) # Tmp(o) /\ Tmp(p) # <<o>>
    BY <1>3, <2>1, NameFacts
  <2>3. PICK d \in Creates : writing[d] # NoFile /\ writing[d].name = p
    BY <1>2, <2>2 DEF TmpInv, Spared, Exists
  <2> QED BY <1>1, <2>1, <2>3 DEF Same
<1> QED BY <1>5, <1>6

-----------------------------------------------------------------------------
(* The invariant                                                           *)

\* In the beginning every source has an inode of its own and nothing else has
\* one.
LEMMA InitIsShared == Init => SharedInv
<1> SUFFICES ASSUME Init PROVE SharedInv
  OBVIOUS
<1> DEFINE N == Cardinality(Sources)
<1>1. PICK first \in [Sources -> Versions \ {None}], number \in [Sources -> 1 .. N] :
        /\ \A s, t \in Sources : number[s] = number[t] => s = t
        /\ dir = [n \in Names |-> IF Len(n) = 1 /\ n[1] \in Sources THEN number[n[1]] ELSE 0]
        /\ inode = [i \in 1 .. N |-> first[CHOOSE s \in Sources : number[s] = i]]
  BY DEF Init
<1>2. N \in Nat
  BY DirectoryAssumption, FS_CardinalityType
<1>3. \A i \in 1 .. N : \E s \in Sources : number[s] = i
  <2>1. IsFiniteSet(1 .. N) /\ Cardinality(1 .. N) = N
    BY <1>2, FS_Interval
  <2>2. number \in Injection(Sources, 1 .. N)
    BY <1>1 DEF Injection, IsInjective
  <2>3. number \in Surjection(Sources, 1 .. N)
    BY <2>1, <2>2, FS_Injection
  <2> QED BY <2>3 DEF Surjection
<1> HIDE DEF N
<1>4. MapsInv
  BY DEF Init, MapsInv
<1>5. \A n \in Names : /\ n[1] \in Sources /\ n = <<n[1]>> => dir[n] = number[n[1]]
                       /\ ~(n[1] \in Sources /\ n = <<n[1]>>) => dir[n] = 0
  <2>1. \A n \in Names : Len(n) = 1 <=> n = <<n[1]>>
    BY DEF Names, Tmp
  <2> QED BY <1>1, <2>1
<1>6. DirInv
  <2>1. \A n \in Names : dir[n] \in Nat /\ dir[n] <= N
    BY <1>1, <1>2, <1>5
  <2>2. IsSeq(inode) /\ Len(inode) = N
    BY <1>1, <1>2, IntervalIsSeq
  <2>3. \A i \in 1 .. N : IsSeq(inode[i])
    <3> SUFFICES ASSUME NEW i \in 1 .. N PROVE IsSeq(inode[i])
      OBVIOUS
    <3>1. inode[i] \in Versions
      BY <1>1, <1>3
    <3> QED BY <3>1, DirectoryAssumption, SeqIsSeq
  <2>4. \A m, n \in Names : dir[m] # 0 /\ dir[m] = dir[n] => m = n
    BY <1>1, <1>5
  <2>5. \A s \in Sources : dir[<<s>>] # 0
    <3> TAKE s \in Sources
    <3>1. <<s>> \in Names /\ <<s>>[1] = s
      BY NameFacts
    <3> QED BY <1>1, <1>5, <3>1
  <2>6. dir \in [Names -> Nat]
    BY <1>1, <2>1
  <2> QED BY <2>1, <2>2, <2>3, <2>4, <2>5, <2>6 DEF DirInv, Exists
<1>7. ASSUME NEW c \in Creates PROVE CreateInv(c)
  <2>1. /\ pc[c] = "idle" /\ inputs[c] = {} /\ writing[c] = NoFile /\ mapped[c] = NoMap
        /\ stat[c] = None /\ scanned[c] = None /\ encoded[c] = None /\ left[c] = {}
        /\ req[c].volumes = {}
    BY DEF Init
  <2>2. DOMAIN None = {} /\ IsMap(None, {}) /\ NoMap.name = None
    BY DEF None, IsMap, NoMap
  <2>3. TypesOf(c)
    BY <2>1, <2>2 DEF TypesOf
  <2>4. PhaseOf(c)
    BY <2>1 DEF PhaseOf
  <2> QED BY <2>1, <2>2, <2>3, <2>4
          DEF CreateInv, ReadsOf, PresentTo, Reading, WritesOf, FailureOf, PlacedBy
<1>8. \A n \in Names : n[1] \in Outputs => dir[n] = 0
  BY <1>5, NameFacts
<1>9. FilesInv /\ TmpInv
  BY <1>8, NameFacts DEF FilesInv, FileInv, TmpInv, Exists
<1> QED BY <1>4, <1>6, <1>7, <1>9 DEF SharedInv

\* What a create knows stays true when it reads.
LEMMA QuietKeeps ==
  ASSUME MapsInv, DirInv, NEW c \in Creates, CreateInv(c), QuietStep(c)
  PROVE  CreateInv(c)' /\ UNCHANGED <<fs, writing, disturbed>>
<1>1. CASE Kill(c)
  BY <1>1, KillKeeps DEF Kill
<1>2. CASE Begin(c)
  BY <1>2, BeginKeeps DEF Begin
<1>3. ASSUME NEW n \in Names, Stat(c, n)
      PROVE  CreateInv(c)' /\ UNCHANGED <<fs, writing, disturbed>>
  BY <1>3, StatKeeps DEF Stat
<1>4. ASSUME NEW n \in Names, Map(c, n)
      PROVE  CreateInv(c)' /\ UNCHANGED <<fs, writing, disturbed>>
  BY <1>4, MapKeeps DEF Map
<1>5. ASSUME NEW n \in Names, EncodeAgain(c, n)
      PROVE  CreateInv(c)' /\ UNCHANGED <<fs, writing, disturbed>>
  BY <1>5, EncodeAgainKeeps DEF EncodeAgain
<1>6. CASE Scan(c)
  BY <1>6, ScanKeeps DEF Scan
<1>7. CASE EncodeMapped(c)
  BY <1>7, EncodeMappedKeeps DEF EncodeMapped
<1>8. CASE Unmap(c)
  BY <1>8, UnmapKeeps DEF Unmap
<1>9. CASE ReadAll(c)
  BY <1>9, ReadAllKeeps DEF ReadAll
<1>10. CASE EncodedAll(c)
  BY <1>10, EncodedAllKeeps DEF EncodedAll
<1> QED BY <1>1, <1>2, <1>3, <1>4, <1>5, <1>6, <1>7, <1>8, <1>9, <1>10 DEF QuietStep

\* For every action: what it does to the directory and the files, and what it
\* keeps of the create that takes it.
LEMMA StepKeeps ==
  ASSUME SharedInv, NEW c \in Creates, Step(c) \/ Kill(c)
  PROVE  SharedInv'
<1>1. MapsInv' /\ \A d \in Creates \ {c} : Same(d)
  BY StepsAreLocal DEF SharedInv
<1>2. BlocksStay
  BY <1>1, BlocksStayOnes DEF SharedInv
<1>3. CASE QuietStep(c)
  <2>1. CreateInv(c)' /\ UNCHANGED <<fs, writing, disturbed>>
    BY <1>3, QuietKeeps DEF SharedInv
  <2>2. DirInv'
    BY <2>1 DEF SharedInv, DirInv, fs, Exists
  <2>3. ASSUME NEW d \in Creates \ {c} PROVE CreateInv(d)'
    <3>1. Beside(d) /\ NamesMove
      BY <2>1, QuietIsBeside DEF SharedInv
    <3> QED BY <1>1, <3>1, OthersKeep DEF SharedInv
  <2>4. FilesInv' /\ TmpInv'
    BY <1>2, <2>1, QuietKeepsFiles DEF SharedInv
  <2> QED BY <1>1, <2>1, <2>2, <2>3, <2>4 DEF SharedInv
<1>4. ASSUME DirInv', NamesMove, Noticed(c), CreateInv(c)', FilesInv', TmpInv'
      PROVE  SharedInv'
  <2>1. ASSUME NEW d \in Creates \ {c} PROVE CreateInv(d)'
    <3>1. inputs[d] \subseteq Names
      BY DEF SharedInv, CreateInv, TypesOf
    <3>2. Beside(d)
      BY <1>4, <3>1, NoticedByAll
    <3> QED BY <1>1, <1>4, <3>2, OthersKeep DEF SharedInv
  <2> QED BY <1>1, <1>4, <2>1 DEF SharedInv
<1>5. ASSUME NEW o \in Outputs, CreateTmp(c, o) PROVE SharedInv'
  <2>1. DirInv' /\ NamesMove
    BY <1>5, CreateTmpIs DEF SharedInv
  <2>2. CreateInv(c)'
    BY <1>5, CreateTmpKeeps DEF SharedInv
  <2>3. FilesInv' /\ TmpInv'
    BY <1>1, <1>2, <1>5, CreateTmpKeepsFiles DEF SharedInv
  <2> QED BY <1>4, <1>5, <2>1, <2>2, <2>3 DEF CreateTmp
<1>6. CASE WriteBlock(c)
  <2>1. DirInv' /\ NamesMove
    BY <1>6, WriteBlockIs DEF SharedInv
  <2>2. CreateInv(c)'
    BY <1>6, WriteBlockKeeps DEF SharedInv
  <2>3. FilesInv' /\ TmpInv'
    BY <1>1, <1>2, <1>6, WriteBlockKeepsFiles DEF SharedInv
  <2> QED BY <1>4, <1>6, <2>1, <2>2, <2>3 DEF WriteBlock
<1>7. CASE Rename(c)
  <2>1. DirInv' /\ NamesMove
    BY <1>7, RenameIs DEF SharedInv
  <2>2. CreateInv(c)'
    BY <1>7, RenameKeeps DEF SharedInv
  <2>3. FilesInv' /\ TmpInv'
    BY <1>1, <1>2, <1>7, RenameKeepsFiles DEF SharedInv
  <2> QED BY <1>4, <1>7, <2>1, <2>2, <2>3 DEF Rename
<1> QED BY <1>3, <1>5, <1>6, <1>7 DEF Step, QuietStep

\* An edit of a source keeps the whole invariant.
LEMMA EditKeeps ==
  ASSUME SharedInv, NEW s \in Sources, Edit(s)
  PROVE  SharedInv'
<1>1. MapsInv' /\ \A d \in Creates : Same(d)
  BY StepsAreLocal DEF SharedInv
<1>2. DirInv' /\ NamesMove
  BY EditIs DEF SharedInv
<1>3. ASSUME NEW d \in Creates PROVE CreateInv(d)'
  <2>1. inputs[d] \subseteq Names /\ d # "editor"
    BY DirectoryAssumption DEF SharedInv, CreateInv, TypesOf
  <2>2. Beside(d)
    BY <2>1, NoticedByAll DEF Edit
  <2> QED BY <1>1, <1>2, <2>2, OthersKeep DEF SharedInv
<1>4. BlocksStay
  BY <1>1, BlocksStayOnes DEF SharedInv
<1>5. FilesInv' /\ TmpInv'
  BY <1>4, EditKeepsFiles DEF SharedInv
<1> QED BY <1>1, <1>2, <1>3, <1>5 DEF SharedInv

\* A step of nobody.
LEMMA StutterKeeps == SharedInv /\ UNCHANGED vars => SharedInv'
<1> SUFFICES ASSUME SharedInv, UNCHANGED vars PROVE SharedInv'
  OBVIOUS
<1> USE DEF vars, fs
<1>1. MapsInv' /\ DirInv'
  BY DEF SharedInv, MapsInv, DirInv, Exists
<1>2. ASSUME NEW d \in Creates PROVE CreateInv(d)'
  <2>1. Same(d)
    BY DEF Same
  <2>2. Beside(d) /\ NamesMove
    BY QuietIsBeside DEF SharedInv
  <2> QED BY <2>1, <2>2, OthersKeep DEF SharedInv
<1>3. BlocksStay
  <2>1. \A d \in Creates : Same(d)
    BY DEF Same
  <2> QED BY <2>1, BlocksStayOnes DEF SharedInv
<1>4. FilesInv' /\ TmpInv'
  BY <1>3, QuietKeepsFiles DEF SharedInv
<1> QED BY <1>1, <1>2, <1>4 DEF SharedInv

\* SharedInv holds from the beginning and every step keeps it.
LEMMA SharedInvariant == Spec => []SharedInv
<1>1. SharedInv /\ [Next]_vars => SharedInv'
  BY StepKeeps, EditKeeps, StutterKeeps DEF Next
<1> QED BY <1>1, InitIsShared, PTL DEF Spec

-----------------------------------------------------------------------------
(* What the sources have held                                              *)

\* Whatever c has read of a source is a version that the source has held, and
\* all of it.
VersionsOf(c) ==
  \A s \in Sources : <<s>> \notin disturbed[c] =>
    /\ <<s>> \in DOMAIN scanned[c] => scanned[c][<<s>>] \in Held(s)
    /\ <<s>> \in DOMAIN encoded[c] => encoded[c][<<s>>] \in Held(s)

VersionsInv ==
  /\ IsSeq(edits)
  /\ \A c \in Creates : VersionsOf(c)

\* No version is forgotten.
Remembers == \A s \in Sources : Held(s) \subseteq Held(s)'

\* A step that leaves the sources alone forgets nothing.
LEMMA SourcesStay ==
  ASSUME edits' = edits, \A s \in Sources : Spared(<<s>>)
  PROVE  Remembers
BY DEF Remembers, Held, Spared, Blocks, Exists

\* The index is not a source: what a create has read of a source it has read
\* twice alike, or the source is still the same.
LEMMA SourcesAreRead ==
  ASSUME NEW c \in Creates, CreateInv(c), NEW s \in Sources,
         <<s>> \in DOMAIN stat[c], <<s>> \notin disturbed[c]
  PROVE  IF <<s>> \in DOMAIN scanned[c] \cap DOMAIN encoded[c]
         THEN scanned[c][<<s>>] = encoded[c][<<s>>] /\ Len(scanned[c][<<s>>]) = stat[c][<<s>>]
         ELSE Fresh(c, <<s>>)
<1>1. <<s>> # <<Index>> /\ <<s>> # Tmp(Index)
  BY DirectoryAssumption, NameFacts DEF Outputs
<1> QED BY <1>1 DEF CreateInv, ReadsOf, OwnIndex

\* The same after a step.
LEMMA SourcesAreReadNext ==
  ASSUME NEW c \in Creates, CreateInv(c)', NEW s \in Sources,
         <<s>> \in DOMAIN stat'[c], <<s>> \notin disturbed'[c]
  PROVE  IF <<s>> \in DOMAIN scanned'[c] \cap DOMAIN encoded'[c]
         THEN scanned'[c][<<s>>] = encoded'[c][<<s>>] /\ Len(scanned'[c][<<s>>]) = stat'[c][<<s>>]
         ELSE Fresh(c, <<s>>)'
<1>1. <<s>> # <<Index>> /\ <<s>> # Tmp(Index)
  BY DirectoryAssumption, NameFacts DEF Outputs
<1> QED BY <1>1 DEF CreateInv, ReadsOf, OwnIndex

\* A create reads one of its two ways at a time.
LEMMA OneReadAtATime ==
  ASSUME NEW c \in Creates, Step(c) \/ Kill(c)
  PROVE  scanned' = scanned \/ encoded' = encoded
BY DEF Step, Kill, Begin, Stat, Map, EncodeAgain, Scan, EncodeMapped, Unmap, ReadAll, EncodedAll,
       CreateTmp, WriteBlock, Rename

\* A step of a create changes no source and keeps the record of the edits.
LEMMA StepsSpareSources ==
  ASSUME SharedInv, NEW c \in Creates, Step(c) \/ Kill(c)
  PROVE  /\ Remembers /\ edits' = edits
         /\ \A d \in Creates : disturbed[d] \subseteq disturbed'[d]
         /\ disturbed'[c] = disturbed[c]
<1>1. ASSUME NEW s \in Sources PROVE <<s>> \in Names /\ <<s>>[1] = s /\ s \notin Outputs
  BY NameFacts, DirectoryAssumption
<1>2. CASE QuietStep(c)
  <2>1. UNCHANGED <<fs, writing, disturbed>>
    BY <1>2, QuietKeeps DEF SharedInv
  <2>2. edits' = edits
    BY <1>2 DEF QuietStep, Kill, Begin, Stat, Map, EncodeAgain, Scan, EncodeMapped, Unmap, ReadAll,
                EncodedAll
  <2>3. \A s \in Sources : Spared(<<s>>)
    BY <2>1 DEF Spared, fs
  <2> QED BY <2>1, <2>2, <2>3, SourcesStay
<1>3. ASSUME \A s \in Sources : Spared(<<s>>), edits' = edits, Noticed(c)
      PROVE  /\ Remembers /\ edits' = edits
             /\ \A d \in Creates : disturbed[d] \subseteq disturbed'[d]
             /\ disturbed'[c] = disturbed[c]
  BY <1>3, SourcesStay DEF Noticed
<1>4. ASSUME NEW o \in Outputs, CreateTmp(c, o)
      PROVE  (\A s \in Sources : Spared(<<s>>)) /\ edits' = edits /\ Noticed(c)
  <2>1. \A n \in Names : n # Tmp(o) => Spared(n)
    BY <1>4, CreateTmpIs DEF SharedInv
  <2>2. \A s \in Sources : <<s>> # Tmp(o)
    BY NameFacts
  <2> QED BY <1>4, <1>1, <2>1, <2>2 DEF CreateTmp
<1>5. CASE WriteBlock(c)
  <2>1. writing[c] # NoFile /\ writing[c].name \in left[c] /\ \A n \in Names : dir[n] # writing[c].node => Spared(n)
    BY <1>5, WriteBlockIs DEF SharedInv
  <2>2. writing[c].name \in Outputs
    BY <2>1 DEF SharedInv, CreateInv, TypesOf
  <2>3. \A n \in Names : dir[n] = writing[c].node => n[1] = writing[c].name
    BY <2>1 DEF SharedInv, CreateInv, WritesOf
  <2>4. \A s \in Sources : Spared(<<s>>)
    BY <1>1, <2>1, <2>2, <2>3
  <2> QED BY <1>5, <2>4, <1>3 DEF WriteBlock
<1>6. CASE Rename(c)
  <2>1. writing[c].name \in left[c] /\ \A n \in Names : n # <<writing[c].name>> /\ n # Tmp(writing[c].name) => Spared(n)
    BY <1>6, RenameIs DEF SharedInv
  <2>2. writing[c].name \in Outputs
    BY <2>1 DEF SharedInv, CreateInv, TypesOf
  <2>3. \A s \in Sources : <<s>> # Tmp(writing[c].name) /\ <<s>> # <<writing[c].name>>
    BY <1>1, <2>2, NameFacts
  <2>4. \A s \in Sources : Spared(<<s>>)
    BY <1>1, <2>1, <2>3
  <2> QED BY <1>6, <2>4, <1>3 DEF Rename
<1> QED BY <1>2, <1>4, <1>5, <1>6, <1>3 DEF Step, QuietStep

\* An edit puts the version it overwrites on record.
LEMMA EditRemembers ==
  ASSUME SharedInv, VersionsInv, NEW t \in Sources, Edit(t)
  PROVE  /\ Remembers /\ IsSeq(edits')
         /\ \A d \in Creates : disturbed[d] \subseteq disturbed'[d]
<1> DEFINE e == [source |-> t, was |-> Blocks(<<t>>)]
<1>1. edits' = Append(edits, e) /\ IsSeq(edits)
  BY DEF Edit, VersionsInv
<1>2. /\ IsSeq(edits') /\ Len(edits') = Len(edits) + 1 /\ edits'[Len(edits) + 1] = e
      /\ \A i \in 1 .. Len(edits) : edits'[i] = edits[i]
  BY <1>1, Appended
<1>3. DOMAIN edits = 1 .. Len(edits) /\ DOMAIN edits' = 1 .. Len(edits) + 1 /\ Len(edits) \in Nat
  BY <1>1, <1>2 DEF IsSeq
<1>4. ASSUME NEW s \in Sources, NEW v \in Held(s) PROVE v \in Held(s)'
  <2>1. CASE \E i \in DOMAIN edits : edits[i].source = s /\ v = edits[i].was
    <3>1. PICK i \in 1 .. Len(edits) : edits[i].source = s /\ v = edits[i].was
      BY <1>3, <2>1
    <3>2. i \in DOMAIN edits' /\ edits'[i] = edits[i]
      BY <1>2, <1>3, <3>1
    <3> QED BY <3>1, <3>2 DEF Held
  <2>2. CASE v = Blocks(<<s>>) /\ s = t
    <3>1. Len(edits) + 1 \in DOMAIN edits'
      BY <1>3
    <3>2. edits'[Len(edits) + 1].source = s /\ edits'[Len(edits) + 1].was = v
      BY <1>2, <2>2
    <3> QED BY <3>1, <3>2 DEF Held
  <2>3. CASE v = Blocks(<<s>>) /\ s # t
    <3>1. Spared(<<s>>)
      BY <2>3, EditIs, NameFacts DEF SharedInv
    <3> QED BY <2>3, <3>1 DEF Held, Spared, Blocks, Exists
  <2> QED BY <1>4, <2>1, <2>2, <2>3 DEF Held
<1>5. \A d \in Creates : disturbed[d] \subseteq disturbed'[d]
  BY DEF Edit, Noticed
<1> QED BY <1>2, <1>4, <1>5 DEF Remembers

\* What was a version of a source remains one.
LEMMA VersionsStay ==
  ASSUME Remembers, NEW c \in Creates, VersionsOf(c), Same(c), disturbed[c] \subseteq disturbed'[c]
  PROVE  VersionsOf(c)'
BY DEF Remembers, VersionsOf, Same

\* What a step adds to what c has read of a source is the version it has now, or
\* what c has read of it already.
LEMMA StepKeepsVersions ==
  ASSUME SharedInv, SharedInv', NEW c \in Creates, VersionsOf(c), Step(c) \/ Kill(c)
  PROVE  VersionsOf(c)'
<1>1. Remembers /\ disturbed'[c] = disturbed[c]
  BY StepsSpareSources
<1> SUFFICES ASSUME NEW s \in Sources, <<s>> \notin disturbed[c]
             PROVE  /\ <<s>> \in DOMAIN scanned'[c] => scanned'[c][<<s>>] \in Held(s)'
                    /\ <<s>> \in DOMAIN encoded'[c] => encoded'[c][<<s>>] \in Held(s)'
  BY <1>1 DEF VersionsOf
<1> DEFINE n == <<s>>
<1>2. CASE n \in DOMAIN scanned'[c] /\ n \in DOMAIN encoded'[c]
  <2>1. n \in DOMAIN stat'[c] /\ CreateInv(c)'
    BY <1>2 DEF SharedInv, CreateInv, TypesOf, IsMap
  <2>2. scanned'[c][n] = encoded'[c][n]
    BY <1>1, <1>2, <2>1, SourcesAreReadNext
  <2>3. \/ n \in DOMAIN scanned[c] /\ scanned'[c][n] = scanned[c][n]
        \/ n \in DOMAIN encoded[c] /\ encoded'[c][n] = encoded[c][n]
    BY <1>2, OneReadAtATime
  <2> QED BY <1>1, <2>2, <2>3 DEF VersionsOf, Remembers
<1>3. CASE ~(n \in DOMAIN scanned'[c] /\ n \in DOMAIN encoded'[c])
  <2> SUFFICES ASSUME n \in DOMAIN scanned'[c] \/ n \in DOMAIN encoded'[c]
               PROVE  Fresh(c, n)'
    BY <1>3 DEF Fresh, Held
  <2>1. n \in DOMAIN stat'[c] /\ CreateInv(c)'
    BY DEF SharedInv, CreateInv, TypesOf, IsMap
  <2> QED BY <1>1, <1>3, <2>1, SourcesAreReadNext
<1> QED BY <1>2, <1>3

\* VersionsInv holds from the beginning and every step keeps it.
LEMMA VersionsInvariant == Spec => []VersionsInv
<1>1. Init => VersionsInv
  <2> SUFFICES ASSUME Init PROVE VersionsInv
    OBVIOUS
  <2>1. IsSeq(edits)
    BY DEF Init, IsSeq
  <2>2. ASSUME NEW c \in Creates PROVE DOMAIN scanned[c] = {} /\ DOMAIN encoded[c] = {}
    BY DEF Init, None
  <2> QED BY <2>1, <2>2 DEF VersionsInv, VersionsOf
<1>2. SharedInv /\ SharedInv' /\ VersionsInv /\ [Next]_vars => VersionsInv'
  <2> SUFFICES ASSUME SharedInv, SharedInv', VersionsInv, [Next]_vars PROVE VersionsInv'
    OBVIOUS
  <2>1. ASSUME NEW c \in Creates, Step(c) \/ Kill(c) PROVE VersionsInv'
    <3>1. \A d \in Creates \ {c} : Same(d)
      BY <2>1, StepsAreLocal DEF SharedInv
    <3>2. Remembers /\ edits' = edits /\ \A d \in Creates : disturbed[d] \subseteq disturbed'[d]
      BY <2>1, StepsSpareSources
    <3>3. VersionsOf(c)'
      BY <2>1, StepKeepsVersions DEF VersionsInv
    <3>4. \A d \in Creates \ {c} : VersionsOf(d)'
      BY <3>1, <3>2, VersionsStay DEF VersionsInv
    <3> QED BY <3>2, <3>3, <3>4 DEF VersionsInv
  <2>2. ASSUME NEW s \in Sources, Edit(s) PROVE VersionsInv'
    <3>1. \A d \in Creates : Same(d)
      BY <2>2, StepsAreLocal DEF SharedInv
    <3>2. Remembers /\ IsSeq(edits') /\ \A d \in Creates : disturbed[d] \subseteq disturbed'[d]
      BY <2>2, EditRemembers
    <3> QED BY <3>1, <3>2, VersionsStay DEF VersionsInv
  <2>3. CASE UNCHANGED vars
    <3>1. Remembers
      BY <2>3, SourcesStay DEF vars, fs, Spared
    <3>2. \A d \in Creates : Same(d) /\ disturbed[d] \subseteq disturbed'[d]
      BY <2>3 DEF vars, Same
    <3>3. edits' = edits
      BY <2>3 DEF vars
    <3> QED BY <3>1, <3>2, <3>3, VersionsStay DEF VersionsInv
  <2> QED BY <2>1, <2>2, <2>3 DEF Next
<1> QED BY <1>1, <1>2, SharedInvariant, PTL DEF Spec

\* A block of an output is from a create that had read all its inputs for it.
LEMMA ContentsAreSettled ==
  ASSUME SharedInv, NEW o \in Outputs, NEW content \in Contents(<<o>>)
  PROVE  \E c \in Creates : Settled(c, o) /\ content = Content(c, o)
<1>1. PICK k \in 1 .. Len(Blocks(<<o>>)) :
        Blocks(<<o>>)[k] # Zero /\ content = Blocks(<<o>>)[k][1]
  BY DEF Contents, Written
<1>2. <<o>> \in Names /\ <<o>>[1] = o
  BY NameFacts
<1>3. Exists(<<o>>)
  BY <1>1 DEF Blocks, None
<1>4. PICK c \in Creates : Settled(c, o) /\ Blocks(<<o>>)[k] = <<Content(c, o), k>>
  BY <1>1, <1>2, <1>3 DEF SharedInv, FilesInv, FileInv, BlockOf
<1> QED BY <1>1, <1>4

-----------------------------------------------------------------------------
(* Theorems                                                                *)

\* However many creates run at once, whatever they are given to read and
\* whoever edits it: what a create records of a file is of one version of it,
\* unless somebody else changed the file while the create was at work on it, or
\* it is the index that the CLI replaces between the scan and the encode.
THEOREM RecordsOneVersion == Spec => []SetIsOfOneVersion
<1>1. SharedInv => SetIsOfOneVersion
  BY DEF SharedInv, CreateInv, ReadsOf, TypesOf, IsMap, SetIsOfOneVersion
<1> QED BY <1>1, SharedInvariant, PTL

\* A create that nobody disturbs does not fail, except for the tmp file of the
\* index among the inputs of the CLI.
THEOREM UndisturbedSucceeds == Spec => []FailsOnlyIfDisturbed
<1>1. SharedInv => FailsOnlyIfDisturbed
  BY DEF SharedInv, CreateInv, FailureOf, FailsOnlyIfDisturbed
<1> QED BY <1>1, SharedInvariant, PTL

\* Whatever volumes earlier creates, finished or killed, left in the directory:
\* one with the set id of the index has the recovery data of what the index
\* records, but for a source that was edited beyond its first 16 KiB at the same
\* length, and for what was read while somebody interfered.
THEOREM LeftoversFit == Spec => []VolumesFitTheIndex
<1>1. SharedInv /\ VersionsInv => VolumesFitTheIndex
  <2> SUFFICES ASSUME SharedInv, VersionsInv, NEW v \in Volumes,
                      NEW volume \in Contents(<<v>>), NEW index \in Contents(<<Index>>),
                      volume.setId = index.setId,
                      NEW s \in Sources, <<s>> \in DOMAIN index.critical,
                      ~LooksUnedited(s),
                      ~OfDisturbed(volume, v, <<s>>), ~OfDisturbed(index, Index, <<s>>)
               PROVE  volume.data[<<s>>] = index.critical[<<s>>]
    BY DEF VolumesFitTheIndex
  <2> DEFINE n == <<s>>
  <2>1. PICK c \in Creates : Settled(c, v) /\ volume = Content(c, v)
    BY ContentsAreSettled DEF Outputs
  <2>2. PICK d \in Creates : Settled(d, Index) /\ index = Content(d, Index)
    BY ContentsAreSettled DEF Outputs
  <2>3. v # Index
    BY DirectoryAssumption
  <2>4. /\ volume.setId = {FileId(c, m) : m \in inputs[c]} /\ volume.data = encoded[c]
        /\ index.setId = {FileId(d, m) : m \in inputs[d]} /\ index.critical = scanned[d]
    BY <2>1, <2>2, <2>3 DEF Content
  <2>5. n \notin disturbed[c] /\ n \notin disturbed[d]
    BY <2>1, <2>2 DEF OfDisturbed, ReadyToWrite, Settled
  <2>6. n \in inputs[d]
    BY <2>2, <2>4 DEF Settled
  <2>7. PICK m \in inputs[c] : FileId(c, m) = FileId(d, n)
    BY <2>4, <2>6
  <2>8. /\ n \in inputs[c] /\ stat[c][n] = stat[d][n]
        /\ scanned[c][n][1] = scanned[d][n][1]
    BY <2>7 DEF FileId
  <2>9. CreateInv(c) /\ CreateInv(d) /\ VersionsOf(c) /\ VersionsOf(d)
    BY DEF SharedInv, VersionsInv
  <2>10. n \in DOMAIN scanned[c] \cap DOMAIN encoded[c] /\ n \in DOMAIN scanned[d]
    BY <2>1, <2>2, <2>3, <2>6, <2>8 DEF Settled
  <2>11. n \in DOMAIN stat[c] /\ n \in DOMAIN stat[d]
    BY <2>9, <2>10 DEF CreateInv, TypesOf, IsMap
  <2>12. scanned[c][n] = encoded[c][n] /\ Len(scanned[c][n]) = stat[c][n]
    BY <2>5, <2>9, <2>10, <2>11, SourcesAreRead
  <2>13. Len(scanned[d][n]) = stat[d][n] /\ stat[d][n] # 0
    <3>1. stat[d][n] # 0
      BY <2>9, <2>11 DEF CreateInv, TypesOf
    <3>2. CASE n \in DOMAIN encoded[d]
      BY <2>5, <2>9, <2>10, <2>11, <3>1, <3>2, SourcesAreRead
    <3>3. CASE n \notin DOMAIN encoded[d]
      <4>1. Fresh(d, n)
        BY <2>5, <2>9, <2>11, <3>3, SourcesAreRead
      <4> QED BY <2>10, <3>1, <4>1 DEF Fresh
    <3> QED BY <3>2, <3>3
  <2>14. scanned[c][n] \in Held(s) /\ scanned[d][n] \in Held(s)
    BY <2>5, <2>9, <2>10 DEF VersionsOf
  <2>15. scanned[c][n] # None /\ scanned[d][n] # None
    BY <2>8, <2>12, <2>13 DEF None
  <2>16. scanned[c][n] = scanned[d][n]
    BY <2>8, <2>12, <2>13, <2>14, <2>15 DEF LooksUnedited
  <2> QED BY <2>4, <2>12, <2>16
<1> QED BY <1>1, SharedInvariant, VersionsInvariant, PTL

\* Any number of creates at once, under the same tmp names: when all have
\* returned, none was killed and all wrote the same, those that returned Ok
\* have all their files, whole, and no tmp file is left.
THEOREM SameRequestsEndWhole == Spec => []SameRequestEndsWhole
<1>1. SharedInv => SameRequestEndsWhole
  <2> SUFFICES ASSUME SharedInv,
                      \A c \in Creates : pc[c] \in {"idle", "ok", "error", "EmptyFile"},
                      \A c, other \in Creates : ReadyToWrite(c) /\ ReadyToWrite(other) =>
                        \A o \in Outputs : Content(c, o) = Content(other, o),
                      NEW c \in Creates, pc[c] = "ok",
                      NEW o \in {Index} \cup req[c].volumes
               PROVE  Holds(<<o>>, Content(c, o)) /\ ~Exists(Tmp(o))
    BY DEF SameRequestEndsWhole
  <2>1. \A d \in Creates : CreateInv(d) /\ writing[d] = NoFile
    BY DEF SharedInv, CreateInv, PhaseOf
  <2>2. o \in Outputs /\ <<o>> \in Names /\ <<o>>[1] = o
    BY <2>1, NameFacts DEF CreateInv, TypesOf, Outputs
  <2>3. ~Exists(Tmp(o))
    BY <2>1, <2>2 DEF SharedInv, TmpInv
  <2>4. Exists(<<o>>) /\ ReadyToWrite(c)
    BY <2>1 DEF CreateInv, PlacedBy, PhaseOf, ReadyToWrite
  <2>5. \A d \in Creates : Settled(d, o) => Content(d, o) = Content(c, o)
    BY <2>2, <2>4 DEF Settled, ReadyToWrite
  <2>6. \A k \in 1 .. FILE_BLOCKS : ~Expected(dir[<<o>>], k)
    BY <2>1, <2>4, NoFileIs DEF Expected, Exists
  <2>7. /\ Len(Blocks(<<o>>)) <= FILE_BLOCKS
        /\ \A k \in 1 .. FILE_BLOCKS : k <= Len(Blocks(<<o>>)) /\ BlockOf(Blocks(<<o>>)[k], o, k)
    BY <2>2, <2>4, <2>6 DEF SharedInv, FilesInv, FileInv
  <2>8. IsSeq(Blocks(<<o>>))
    <3>1. dir[<<o>>] \in 1 .. Len(inode)
      BY <2>2, <2>4 DEF SharedInv, DirInv, Exists, IsSeq
    <3> QED BY <2>4, <3>1 DEF SharedInv, DirInv, Blocks
  <2>9. Len(Blocks(<<o>>)) = FILE_BLOCKS
    <3>1. FILE_BLOCKS = 2 /\ FILE_BLOCKS \in 1 .. FILE_BLOCKS
      BY DEF FILE_BLOCKS
    <3>2. FILE_BLOCKS <= Len(Blocks(<<o>>)) /\ Len(Blocks(<<o>>)) <= FILE_BLOCKS
      BY <2>7, <3>1, Zenon
    <3>3. Len(Blocks(<<o>>)) \in Nat
      BY <2>8 DEF IsSeq
    <3>4. \A a, b \in Nat : a <= b /\ b <= a => b = a
      OBVIOUS
    <3>5. FILE_BLOCKS \in Nat
      BY <3>1
    <3> QED BY <3>2, <3>3, <3>4, <3>5, Zenon
  <2>10. \A k \in 1 .. FILE_BLOCKS : Blocks(<<o>>)[k] = <<Content(c, o), k>>
    BY <2>5, <2>7 DEF BlockOf
  <2>11. Blocks(<<o>>) = [k \in 1 .. FILE_BLOCKS |-> <<Content(c, o), k>>]
    BY <2>8, <2>9, <2>10 DEF IsSeq
  <2> QED BY <2>3, <2>4, <2>11 DEF Holds
<1> QED BY <1>1, SharedInvariant, PTL
=============================================================================
