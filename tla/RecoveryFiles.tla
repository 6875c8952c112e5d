---------------------------- MODULE RecoveryFiles ----------------------------
(***************************************************************************)
(* The files that a create leaves: the encode loop (EncodeBuffers) fills   *)
(* the recovery buffers, and the packets (Packets) carry them and the      *)
(* description of the sources into the index and the volumes.  Legacy, the *)
(* index is written before the encode and the volumes in any order;        *)
(* fused, the index after it and the volumes in turn.                      *)
(***************************************************************************)
EXTENDS EncodeBuffers, Packets

CONSTANTS
  Comments,  \* CreateOptions.comments
  NameLens,  \* of the files' display names
  IdTables,  \* the file ids that the files may have, in ascending order
  Layouts    \* block counts that resolve_volume_sizes may return

\* The blocks of the volumes before volume v of a layout.
BlocksBefore(layout, v) ==
  LET sum[u \in 1 .. Len(layout) + 1] == IF u = 1 THEN 0 ELSE sum[u - 1] + layout[u - 1]
  IN  sum[v]

ASSUME FilesAssumption ==
  /\ Comments \in Seq(Seq(Nat)) /\ NameLens \in [Files -> Nat]
  /\ IdTables \subseteq [Files -> Nat]
  /\ \A ids \in IdTables : \A f \in Files : \A g \in 1 .. f - 1 :
       /\ ids[g] <= ids[f]
       /\ ids[g] = ids[f] => FileWords[g] = FileWords[f] /\ NameLens[g] = NameLens[f]
  /\ \A layout \in Layouts :
       /\ layout \in Seq(Nat \ {0})
       /\ BlocksBefore(layout, Len(layout) + 1) = Recovery

VARIABLES
  fileIds, \* compute_file_id of each file
  index,   \* the packets of the index, <<>> before it is written
  sizes,   \* the layout, <<>> before it is resolved
  volumes  \* the packets of each volume written, by <<first_exp, count>>

files == <<fileIds, index, sizes, volumes>>

FInit ==
  /\ Init
  /\ fileIds \in IdTables
  /\ index = <<>> /\ sizes = <<>>
  /\ volumes = [v \in {} |-> <<>>]

-----------------------------------------------------------------------------

\* The words of slice s of a file when it is cut into slices of n words.
ScannedSlice(f, s, n) ==
  [k \in 0 .. n - 1 |-> IF s * n + k < FileWords[f] THEN <<f, s * n + k>> ELSE Zero]

\* The SourceFile that a scan returns.  The file id is the hash of the first
\* 16 KiB, the length and the name.
Source(f) ==
  [name            |-> [i \in 1 .. NameLens[f] |-> f],
   length          |-> 4 * FileWords[f],
   hash_full       |-> Md5(<<f, "whole">>),
   hash16k         |-> Md5(<<f, "first 16k">>),
   file_id         |-> fileIds[f],
   slice_checksums |-> [s \in 1 .. SlicesOf(f) |-> Md5(ScannedSlice(f, s - 1, scanned))]]

Critical == CriticalPackets(4 * SliceWords, [i \in DOMAIN sources |-> Source(sources[i])],
                            Comments)

WriteIndex ==
  /\ index = <<>>
  /\ CASE mode = "legacy" -> pc = "file" /\ nth = 1
       [] mode = "fused"  -> pc = "done"
  /\ index' = Critical
  /\ UNCHANGED <<vars, fileIds, sizes, volumes>>

Encode ==
  /\ mode = "legacy" => index # <<>>
  /\ Next
  /\ UNCHANGED files

ResolveVolumes ==
  /\ pc = "done" /\ index # <<>> /\ sizes = <<>>
  /\ sizes' \in Layouts
  /\ UNCHANGED <<vars, fileIds, index, volumes>>

FirstExp(v) == BlocksBefore(sizes, v)

NameOf(v) == <<FirstExp(v), sizes[v]>>

\* Mutant: the slots of a volume start one too late, and the last one wraps.
MutSlots(v) == [i \in 1 .. sizes[v] |-> buf[(FirstExp(v) + i) % Recovery]]

\* recovery_buffers[r_start..r_end]
Slots(v) == [i \in 1 .. sizes[v] |-> buf[FirstExp(v) + i - 1]]

\* Mutant: first_exp is not advanced.
MutWriteVolume(v) ==
  /\ NameOf(v) \notin DOMAIN volumes
  /\ mode = "fused" => \A u \in 1 .. v - 1 : NameOf(u) \in DOMAIN volumes
  /\ volumes' = [name \in DOMAIN volumes \cup {NameOf(v)} |->
                   IF name = NameOf(v)
                   THEN BuildVolumePacket(index[1].setId, index, Slots(v), 0)
                   ELSE volumes[name]]
  /\ UNCHANGED <<vars, fileIds, index, sizes>>

WriteVolume(v) ==
  /\ NameOf(v) \notin DOMAIN volumes
  /\ mode = "fused" => \A u \in 1 .. v - 1 : NameOf(u) \in DOMAIN volumes
  /\ volumes' = [name \in DOMAIN volumes \cup {NameOf(v)} |->
                   IF name = NameOf(v)
                   THEN BuildVolumePacket(index[1].setId, index, Slots(v), FirstExp(v))
                   ELSE volumes[name]]
  /\ UNCHANGED <<vars, fileIds, index, sizes>>

FNext ==
  \/ WriteIndex \/ Encode \/ ResolveVolumes
  \/ \E v \in DOMAIN sizes : WriteVolume(v)

FSpec == FInit /\ [][FNext]_<<vars, files>>

\* The calling thread and the pool go on.
FFairSpec == FSpec /\ WF_<<vars, files>>(FNext)

-----------------------------------------------------------------------------
(* A reader, who has one of the files and nothing else.                    *)

OfType(file, type) == {p \in Range(file) : p.type = type}

\* What a reader accepts as a packet of the set.
Sound(p, setId) ==
  /\ p.setId = setId /\ p.hash = Md5(<<p.setId, p.type, p.body>>)
  /\ p.len = HEADER_SIZE + Bytes(p.body) /\ p.len % 4 = 0

FileIds(main) == [i \in 1 .. main.body[2][1] |-> main.body[i + 2][1]]

\* Every input slice in the order of the main packet, as a reader finds it
\* from the lengths in the descriptions.
ReaderSlices(file, main) ==
  LET LengthOf(id) == (CHOOSE p \in OfType(file, "FileDesc") : p.body[1][1] = id).body[4][1]
      ids == FileIds(main)
  IN  FlattenSeq([i \in DOMAIN ids |->
        [s \in 1 .. DivCeil(LengthOf(ids[i]), main.body[1][1]) |-> <<i, s - 1>>]])

\* One description and one list of checksums for each file, and the checksums
\* are those of the slices.
Described(file, main) ==
  \A i \in DOMAIN FileIds(main) :
    LET id    == FileIds(main)[i]
        descs == {p \in OfType(file, "FileDesc") : p.body[1][1] = id}
        ifscs == {p \in OfType(file, "IFSC") : p.body[1][1] = id}
        words == main.body[1][1] \div 4
    IN  /\ Cardinality(descs) = 1 /\ Cardinality(ifscs) = 1
        /\ \A p \in ifscs :
             Tail(p.body) = [s \in 1 .. DivCeil(FileWords[i], words) |->
                               <<Md5(ScannedSlice(i, s - 1, words)), 20>>]

\* Each recovery packet is the combination of the slices, in the order of the
\* main packet, that its exponent says.
Decodable(file, main) ==
  LET slices == ReaderSlices(file, main)
  IN  \A p \in OfType(file, "RecvSlic"), k \in Words :
        p.body[2][1][k] = Reference(slices, Len(slices), p.body[1][1], k)

Linked(file) ==
  \A p \in OfType(file, "CommUni") :
    \E q \in OfType(file, "CommASCI") :
      /\ q.hash = p.body[1][1]
      /\ IsAscii(q.body[1][1])

StandsAlone(file) ==
  \E main \in OfType(file, "Main") :
    /\ main.setId = Md5(main.body)
    /\ \A p \in Range(file) : Sound(p, main.setId)
    /\ Described(file, main) /\ Decodable(file, main)
    /\ Linked(file)

-----------------------------------------------------------------------------
(* Properties                                                              *)

Ascending == \A i \in 1 .. Len(sources) - 1 : sources[i] < sources[i + 1]

TellApart == \A f, g \in Files : f # g => fileIds[f] # fileIds[g]

\* A reader with one volume and nothing else can frame it, describe the files
\* and decode with its recovery slices exactly when the files were scanned
\* with the slice size of the create, were given in the order of their ids,
\* and no two of them share their base name, length and first 16 KiB.
\* run_create checks none of the three, and returns Ok without them.
VolumesStandAlone ==
  \A v \in DOMAIN volumes :
    StandsAlone(volumes[v]) <=> scanned = SliceWords /\ Ascending /\ TellApart

AllWritten == sizes # <<>> /\ DOMAIN volumes = {NameOf(v) : v \in DOMAIN sizes}

\* The volumes of a set share the exponents out: each recovery slice is in
\* one volume, once, and no name is written twice.
BlocksOnce ==
  AllWritten =>
    /\ Cardinality(DOMAIN volumes) = Len(sizes)
    /\ \A e \in 0 .. Recovery - 1 :
         \E v \in DOMAIN volumes :
           /\ Cardinality({i \in DOMAIN volumes[v] :
                 volumes[v][i].type = "RecvSlic" /\ volumes[v][i].body[1][1] = e}) = 1
           /\ \A u \in DOMAIN volumes \ {v} :
                \A p \in OfType(volumes[u], "RecvSlic") : p.body[1][1] # e

\* "improves the chance that the index can be reconstructed from any single
\* volume file alone" (creator.rs:1024): whatever run of packets a volume
\* loses, as long as it is no longer than one copy of the index and the
\* recovery packets between, everything in the index is still there.
SurvivesABurst ==
  \A v \in DOMAIN volumes :
    LET file == volumes[v]
        burst == Len(index) + Cardinality(OfType(file, "RecvSlic"))
    IN  \A from \in 1 .. Len(file) - burst + 1 :
          Range(index) \subseteq
            Range(SubSeq(file, 1, from - 1) \o SubSeq(file, from + burst, Len(file)))

\* The loops end, every slice is encoded and every file is written.
SetIsWritten ==
  <>(/\ pc = "done" /\ counter = Len(SliceList(sources))
     /\ index # <<>> /\ AllWritten)

\* README.md:5-6: "any standard PAR2 verifier ... can verify and repair files
\* using the output".  The order of the files is recorded in the main packet
\* alone, as ascending file ids, and that is all the set id depends on; so the
\* recovery data must be that of the files in this order.
RecoveryMatchesMainPacket ==
  scanned = SliceWords /\ TellApart =>
    \A v \in DOMAIN volumes : Decodable(volumes[v], index[1])

=============================================================================
