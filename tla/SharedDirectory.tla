--------------------------- MODULE SharedDirectory ---------------------------
(***************************************************************************)
(* Several creates, one after the other or at once, in one directory that  *)
(* holds the sources and receives the output, while somebody may edit a    *)
(* source: what each create reads of a file, when, and through which name. *)
(*                                                                         *)
(* Names lead to inodes; a mapping or an open file keeps to its inode.     *)
(* run_create_fused stats every input, then maps one at a time and scans   *)
(* and encodes it side by side.  The CLI scans each input, writes the      *)
(* index, and only then opens the inputs again to encode them.             *)
(*                                                                         *)
(* A file is a sequence of blocks.  A block is one slice and the first     *)
(* block of a file its first 16 KiB; mappings succeed, and one pass over a *)
(* file sees one version of it.                                            *)
(***************************************************************************)
EXTENDS Integers, Sequences, FiniteSets

CONSTANTS
  Creates,   \* each runs once
  Sources,
  Versions,  \* what a source may hold, as sequences of blocks
  Layouts,   \* the volume names of a create
  MaxEdits   \* bound: edits of sources

Index == "index"
Volumes == UNION Layouts
Outputs == {Index} \cup Volumes

ASSUME DirectoryAssumption ==
  /\ Versions \subseteq Seq(Seq(Nat))
  /\ MaxEdits \in Nat
  /\ IsFiniteSet(Sources) /\ Sources # {}
  /\ Sources \cap Outputs = {}  \* a source is not the output of a create here
  /\ Index \notin Volumes
  /\ "editor" \notin Creates

Tmp(name) == <<name, ".par2rust.tmp">>
Names == {<<s>> : s \in Sources} \cup {<<o>> : o \in Outputs} \cup {Tmp(o) : o \in Outputs}

VARIABLES
  dir,        \* the inode each name leads to, 0 for none
  inode,      \* the blocks of each inode
  edits,      \* ghost: the edits so far, [source, was], with what was overwritten
  pc,         \* of each create
  req,        \* its mode and volumes
  inputs,     \* the names it was given
  stat,       \* name -> length from metadata
  mapped,     \* the file it has mapped: [name, node, length]
  scanned,    \* name -> the blocks the scan hashed
  encoded,    \* name -> the blocks the encode multiplied
  left,       \* outputs still to be written
  writing,    \* the output being written: [name, node, blocks]
  disturbed   \* ghost: the names somebody else changed between the create's stat
              \* and its last read of them, or while it wrote to them, and
              \* the inputs somebody else took away

fs == <<dir, inode>>
vars == <<fs, edits, pc, req, inputs, stat, mapped, scanned, encoded, left,
          writing, disturbed>>

None == <<>>
Zero == <<>>  \* a block of zeros, and of a hole in a file
NoMap == [name |-> None, node |-> 0, length |-> 0]
NoFile == [name |-> "", node |-> 0, blocks |-> 0]

Init ==
  /\ \E first \in [Sources -> Versions \ {None}], number \in [Sources -> 1 .. Cardinality(Sources)] :
       /\ \A s, t \in Sources : number[s] = number[t] => s = t
       /\ dir = [n \in Names |-> IF Len(n) = 1 /\ n[1] \in Sources THEN number[n[1]] ELSE 0]
       /\ inode = [i \in 1 .. Cardinality(Sources) |->
                     first[CHOOSE s \in Sources : number[s] = i]]
  /\ edits = <<>>
  /\ pc = [c \in Creates |-> "idle"]
  /\ req = [c \in Creates |-> [mode |-> "none", volumes |-> {}]]
  /\ inputs = [c \in Creates |-> {}]
  /\ stat = [c \in Creates |-> None]
  /\ mapped = [c \in Creates |-> NoMap]
  /\ scanned = [c \in Creates |-> None] /\ encoded = [c \in Creates |-> None]
  /\ left = [c \in Creates |-> {}]
  /\ writing = [c \in Creates |-> NoFile]
  /\ disturbed = [c \in Creates |-> {}]

Exists(n) == dir[n] # 0
Blocks(n) == IF Exists(n) THEN inode[dir[n]] ELSE None

Put(f, n, value) == [m \in DOMAIN f \cup {n} |-> IF m = n THEN value ELSE f[m]]

Goto(c, to) == pc' = [pc EXCEPT ![c] = to]

\* A change of the directory or of a file, and the creates at work there.
Window(c) == (DOMAIN stat[c] \ (DOMAIN scanned[c] \cap DOMAIN encoded[c]))
             \cup {Tmp(o) : o \in Outputs \cap {writing[c].name}}

Noticed(who) ==
  disturbed' = [c \in Creates |->
    IF c = who THEN disturbed[c]
    ELSE disturbed[c] \cup {n \in Window(c) :
           dir'[n] # dir[n] \/ (Exists(n) /\ inode'[dir'[n]] # inode[dir[n]])}
         \cup {n \in inputs[c] : Exists(n) /\ dir'[n] = 0}]

-----------------------------------------------------------------------------
(* The rest of the world.                                                  *)

\* A source is rewritten in place.
Edit(s) ==
  /\ Len(edits) < MaxEdits
  /\ edits' = Append(edits, [source |-> s, was |-> Blocks(<<s>>)])
  /\ \E v \in Versions : inode' = [inode EXCEPT ![dir[<<s>>]] = v]
  /\ UNCHANGED dir
  /\ Noticed("editor")
  /\ UNCHANGED <<pc, req, inputs, stat, mapped, scanned, encoded, left, writing>>

Stopped == {"ok", "error", "EmptyFile", "panic", "killed"}

Kill(c) ==
  /\ pc[c] \notin {"idle"} \cup Stopped
  /\ Goto(c, "killed")
  /\ mapped' = [mapped EXCEPT ![c] = NoMap]
  /\ UNCHANGED <<fs, edits, req, inputs, stat, scanned, encoded, left, writing, disturbed>>

-----------------------------------------------------------------------------
(* Reading.                                                                *)

\* The inputs are the sources, or whatever the directory holds: expand_input_paths
\* with --recurse, or a library caller's own listing.
Begin(c) ==
  /\ pc[c] = "idle"
  /\ \E mode \in {"legacy", "fused"}, volumes \in Layouts, recurse \in BOOLEAN :
       /\ req' = [req EXCEPT ![c] = [mode |-> mode, volumes |-> volumes]]
       /\ inputs' = [inputs EXCEPT ![c] =
            IF recurse THEN {n \in Names : Exists(n)} ELSE {<<s>> : s \in Sources}]
       /\ left' = [left EXCEPT ![c] = {Index} \cup volumes]
  /\ Goto(c, "read")
  /\ UNCHANGED <<fs, edits, stat, mapped, scanned, encoded, writing, disturbed>>

Unread(c) == {n \in inputs[c] : n \notin DOMAIN stat[c]}

\* std::fs::metadata: legacy, just before the file is opened; fused, of every
\* input up front.  An empty file is refused.
Stat(c, n) ==
  /\ pc[c] = "read" /\ mapped[c] = NoMap
  /\ n \in Unread(c)
  /\ req[c].mode = "legacy" => DOMAIN stat[c] = DOMAIN scanned[c]
  /\ IF Blocks(n) = None
     THEN Goto(c, IF Exists(n) THEN "EmptyFile" ELSE "error") /\ UNCHANGED stat
     ELSE /\ stat' = [stat EXCEPT ![c] = Put(@, n, Len(Blocks(n)))]
          /\ UNCHANGED pc
  /\ UNCHANGED <<fs, edits, req, inputs, mapped, scanned, encoded, left, writing, disturbed>>

\* File::open and Mmap::map: the mapping has the length the file has now.
Map(c, n) ==
  /\ pc[c] = "read" /\ mapped[c] = NoMap
  /\ n \in DOMAIN stat[c] \ DOMAIN scanned[c]
  /\ req[c].mode = "fused" => Unread(c) = {}
  /\ IF Exists(n)
     THEN /\ mapped' = [mapped EXCEPT ![c] =
                          [name |-> n, node |-> dir[n], length |-> Len(Blocks(n))]]
          /\ UNCHANGED pc
     ELSE Goto(c, "error") /\ UNCHANGED mapped
  /\ UNCHANGED <<fs, edits, req, inputs, stat, scanned, encoded, left, writing, disturbed>>

Mapping(c) == pc[c] = "read" /\ mapped[c] # NoMap

InMemory(c) == inode[mapped[c].node]

\* A file that was truncated under its mapping: SIGBUS.
Truncated(c) == Len(InMemory(c)) < mapped[c].length

\* scan_via_mmap hashes the whole mapping, and slices the first 16 KiB out of
\* it by the length from metadata.
Scan(c) ==
  LET n == mapped[c].name
  IN  /\ Mapping(c) /\ n \notin DOMAIN scanned[c]
      /\ IF Truncated(c) THEN Goto(c, "killed") /\ UNCHANGED scanned
         ELSE IF mapped[c].length = 0 THEN Goto(c, "panic") /\ UNCHANGED scanned
         ELSE /\ scanned' = [scanned EXCEPT ![c] =
                   Put(@, n, SubSeq(InMemory(c), 1, mapped[c].length))]
              /\ UNCHANGED pc
      /\ UNCHANGED <<fs, edits, req, inputs, stat, mapped, encoded, left, writing, disturbed>>

\* Mutant: the slices are counted without the last, partial one.
MutEncodeMapped(c) ==
  LET n == mapped[c].name
  IN  /\ Mapping(c) /\ req[c].mode = "fused" /\ n \notin DOMAIN encoded[c]
      /\ mapped[c].length >= stat[c][n] /\ ~Truncated(c)
      /\ encoded' = [encoded EXCEPT ![c] =
           Put(@, n, SubSeq(InMemory(c), 1, stat[c][n] - 1))]
      /\ UNCHANGED <<fs, edits, pc, req, inputs, stat, mapped, scanned, left,
                     writing, disturbed>>

\* encode_file_slices_into_buffers, the other arm of the join: mmap[start..end]
\* up to the length from metadata, which panics beyond the mapping.
EncodeMapped(c) ==
  LET n == mapped[c].name
  IN  /\ Mapping(c) /\ req[c].mode = "fused" /\ n \notin DOMAIN encoded[c]
      /\ IF Truncated(c) THEN Goto(c, "killed") /\ UNCHANGED encoded
         ELSE IF mapped[c].length < stat[c][n] THEN Goto(c, "panic") /\ UNCHANGED encoded
         ELSE /\ encoded' = [encoded EXCEPT ![c] =
                   Put(@, n, SubSeq(InMemory(c), 1, stat[c][n]))]
              /\ UNCHANGED pc
      /\ UNCHANGED <<fs, edits, req, inputs, stat, mapped, scanned, left, writing, disturbed>>

Unmap(c) ==
  /\ Mapping(c)
  /\ mapped[c].name \in DOMAIN scanned[c]
  /\ req[c].mode = "fused" => mapped[c].name \in DOMAIN encoded[c]
  /\ mapped' = [mapped EXCEPT ![c] = NoMap]
  /\ UNCHANGED <<fs, edits, pc, req, inputs, stat, scanned, encoded, left, writing, disturbed>>

\* Every input is scanned: the index comes next.
ReadAll(c) ==
  /\ pc[c] = "read" /\ mapped[c] = NoMap
  /\ DOMAIN scanned[c] = inputs[c]
  /\ Goto(c, "write")
  /\ UNCHANGED <<fs, edits, req, inputs, stat, mapped, scanned, encoded, left,
                 writing, disturbed>>

\* encode_all_recovery_blocks opens the file by its path again and reads as
\* many slices as were scanned; what is missing is read as zeros.
EncodeAgain(c, n) ==
  /\ pc[c] = "encode" /\ n \in inputs[c] \ DOMAIN encoded[c]
  /\ IF Exists(n)
     THEN /\ encoded' = [encoded EXCEPT ![c] = Put(@, n,
               [k \in 1 .. Len(scanned[c][n]) |->
                  IF k <= Len(Blocks(n)) THEN Blocks(n)[k] ELSE Zero])]
          /\ UNCHANGED pc
     ELSE Goto(c, "error") /\ UNCHANGED encoded
  /\ UNCHANGED <<fs, edits, req, inputs, stat, mapped, scanned, left, writing, disturbed>>

EncodedAll(c) ==
  /\ pc[c] = "encode" /\ DOMAIN encoded[c] = inputs[c]
  /\ Goto(c, "write")
  /\ UNCHANGED <<fs, edits, req, inputs, stat, mapped, scanned, encoded, left,
                 writing, disturbed>>

-----------------------------------------------------------------------------
(* Writing: write_atomic, for one output after the other.                  *)

\* Mutant: the file id is made without the length.
MutFileId(c, n) == <<n, 0, scanned[c][n][1]>>

\* compute_file_id: name, length and the first 16 KiB.
FileId(c, n) == <<n, stat[c][n], scanned[c][n][1]>>

\* What is written: the critical packets, and the recovery data in a volume.
Content(c, output) ==
  [setId    |-> {FileId(c, n) : n \in inputs[c]},
   length   |-> stat[c],
   critical |-> scanned[c],
   data     |-> IF output = Index THEN None ELSE encoded[c]]

FILE_BLOCKS == 2

\* Mutant: create_new, which refuses a tmp file that a killed create left.
MutCreateTmp(c, output) ==
  LET tmp == Tmp(output)
  IN  /\ pc[c] = "write" /\ writing[c] = NoFile
      /\ output \in left[c]
      /\ Index \in left[c] => output = Index
      /\ IF Exists(tmp) THEN Goto(c, "error") /\ UNCHANGED <<fs, writing>>
         ELSE /\ inode' = Append(inode, None)
              /\ dir' = [dir EXCEPT ![tmp] = Len(inode')]
              /\ writing' = [writing EXCEPT ![c] =
                               [name |-> output, node |-> Len(inode'), blocks |-> 0]]
              /\ UNCHANGED pc
      /\ Noticed(c)
      /\ UNCHANGED <<edits, req, inputs, stat, mapped, scanned, encoded, left>>

CreateTmp(c, output) ==
  LET tmp == Tmp(output)
      new == Len(inode) + 1
  IN  /\ pc[c] = "write" /\ writing[c] = NoFile
      /\ output \in left[c]
      /\ Index \in left[c] => output = Index
      /\ IF Exists(tmp)  \* File::create truncates it
         THEN inode' = [inode EXCEPT ![dir[tmp]] = None] /\ UNCHANGED dir
         ELSE inode' = Append(inode, None) /\ dir' = [dir EXCEPT ![tmp] = new]
      /\ writing' = [writing EXCEPT ![c] = [name |-> output, node |-> dir'[tmp], blocks |-> 0]]
      /\ Noticed(c)
      /\ UNCHANGED <<edits, pc, req, inputs, stat, mapped, scanned, encoded, left>>

\* Mutant: the tmp file is opened for appending.
MutWriteBlock(c) ==
  LET w == writing[c]
  IN  /\ pc[c] = "write" /\ w # NoFile /\ w.blocks < FILE_BLOCKS
      /\ inode' = [inode EXCEPT ![w.node] = Append(@, <<Content(c, w.name), w.blocks + 1>>)]
      /\ writing' = [writing EXCEPT ![c].blocks = @ + 1]
      /\ UNCHANGED dir
      /\ Noticed(c)
      /\ UNCHANGED <<edits, pc, req, inputs, stat, mapped, scanned, encoded, left>>

\* write_all: at the writer's own offset, whatever became of the file.
WriteBlock(c) ==
  LET w == writing[c]
      k == w.blocks + 1
      old == inode[w.node]
      last == IF Len(old) > k THEN Len(old) ELSE k
  IN  /\ pc[c] = "write" /\ w # NoFile /\ w.blocks < FILE_BLOCKS
      /\ inode' = [inode EXCEPT ![w.node] =
           [j \in 1 .. last |-> IF j = k THEN <<Content(c, w.name), k>>
                                ELSE IF j <= Len(old) THEN old[j] ELSE Zero]]
      /\ writing' = [writing EXCEPT ![c].blocks = k]
      /\ UNCHANGED dir
      /\ Noticed(c)
      /\ UNCHANGED <<edits, pc, req, inputs, stat, mapped, scanned, encoded, left>>

\* sync_all and rename, of whatever inode the tmp name leads to by now; then
\* the next output, or, legacy and after the index, the encode.
Rename(c) ==
  LET output == writing[c].name
  IN  /\ pc[c] = "write" /\ writing[c].blocks = FILE_BLOCKS
      /\ writing' = [writing EXCEPT ![c] = NoFile]
      /\ left' = [left EXCEPT ![c] = @ \ {output}]
      /\ IF Exists(Tmp(output))
         THEN /\ dir' = [dir EXCEPT ![<<output>>] = dir[Tmp(output)], ![Tmp(output)] = 0]
              /\ Goto(c, IF left'[c] = {} THEN "ok"
                         ELSE IF output = Index /\ req[c].mode = "legacy" THEN "encode"
                         ELSE "write")
         ELSE UNCHANGED dir /\ Goto(c, "error")
      /\ UNCHANGED inode
      /\ Noticed(c)
      /\ UNCHANGED <<edits, req, inputs, stat, mapped, scanned, encoded>>

-----------------------------------------------------------------------------

Step(c) ==
  \/ Begin(c)
  \/ \E n \in Names : Stat(c, n) \/ Map(c, n) \/ EncodeAgain(c, n)
  \/ Scan(c) \/ EncodeMapped(c) \/ Unmap(c) \/ ReadAll(c) \/ EncodedAll(c)
  \/ \E o \in Outputs : CreateTmp(c, o)
  \/ WriteBlock(c) \/ Rename(c)

Next ==
  \/ \E c \in Creates : Step(c) \/ Kill(c)
  \/ \E s \in Sources : Edit(s)

Spec == Init /\ [][Next]_vars

-----------------------------------------------------------------------------
(* Properties                                                              *)

\* The length, the checksums and the recovery data that a create records of a
\* file are those of one version of it, unless somebody else changed it between
\* its stat and its last read -- or the file is the old index, among the inputs
\* of a create that writes the index before it encodes.  The create's own
\* writes never spoil anything else, though --recurse gives it the output of
\* earlier creates, and the tmp files of killed ones, for input.
SetIsOfOneVersion ==
  \A c \in Creates : \A n \in DOMAIN scanned[c] \cap DOMAIN encoded[c] :
    \/ scanned[c][n] = encoded[c][n] /\ Len(scanned[c][n]) = stat[c][n]
    \/ n \in disturbed[c]
    \/ req[c].mode = "legacy" /\ n = <<Index>>

\* A create whose files nobody disturbs, and that finds no empty file among its
\* inputs, fails for one reason only: the tmp file of a killed create's index is
\* among the inputs of the CLI, whose own index takes that name away before the
\* encode opens it.
FailsOnlyIfDisturbed ==
  \A c \in Creates :
    pc[c] \in {"error", "panic"} =>
      \/ disturbed[c] # {}
      \/ req[c].mode = "legacy" /\ Tmp(Index) \in inputs[c]

Written(n) == {Blocks(n)[k] : k \in 1 .. Len(Blocks(n))}

\* The file holds one content, from its first block to its last.
Holds(n, content) == Exists(n) /\ Blocks(n) = [k \in 1 .. FILE_BLOCKS |-> <<content, k>>]

ReadyToWrite(c) == DOMAIN stat[c] # {} /\ inputs[c] = DOMAIN scanned[c]

\* Two creates at once use the same tmp names, truncate each other's tmp file
\* and rename what the other is writing.  When they write the same bytes and
\* neither is killed, a create that returned Ok has all of its files, whole, once
\* the other has returned too, and no tmp file of its outputs is left.
SameRequestEndsWhole ==
  (/\ \A c \in Creates : pc[c] \in {"idle", "ok", "error", "EmptyFile"}
   /\ \A c, other \in Creates : ReadyToWrite(c) /\ ReadyToWrite(other) =>
        \A o \in Outputs : Content(c, o) = Content(other, o))
  => \A c \in Creates : pc[c] = "ok" =>
       \A o \in {Index} \cup req[c].volumes :
         Holds(<<o>>, Content(c, o)) /\ ~Exists(Tmp(o))

Contents(n) == {b[1] : b \in Written(n) \ {Zero}}

\* What a source has held up to now.
Held(s) == {Blocks(<<s>>)} \cup
           {edits[i].was : i \in {j \in DOMAIN edits : edits[j].source = s}}

\* Two of its versions have the same length and first 16 KiB, and differ.
LooksUnedited(s) ==
  \E v, w \in Held(s) \ {None} : v # w /\ Len(v) = Len(w) /\ v[1] = w[1]

\* The content is that of a create that somebody disturbed in its reading of n.
OfDisturbed(content, o, n) ==
  \E c \in Creates : ReadyToWrite(c) /\ content = Content(c, o) /\ n \in disturbed[c]

\* A create, and a crash in the middle of one even more so, leaves volumes of
\* earlier creates next to the new index.  A volume that carries the set id of
\* the index, whenever it was written, has the recovery data of the very bytes
\* whose checksums are in the index -- but for a source that was edited beyond
\* its first 16 KiB at the same length: its old volumes pass for new ones.
\* (Unless what is in one of the two was read while somebody interfered.)
VolumesFitTheIndex ==
  \A v \in Volumes :
    \A volume \in Contents(<<v>>), index \in Contents(<<Index>>) :
      volume.setId = index.setId =>
        \A s \in Sources : <<s>> \in DOMAIN index.critical =>
          \/ volume.data[<<s>>] = index.critical[<<s>>]
          \/ LooksUnedited(s)
          \/ OfDisturbed(volume, v, <<s>>) \/ OfDisturbed(index, Index, <<s>>)

=============================================================================
