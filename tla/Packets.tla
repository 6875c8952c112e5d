------------------------------- MODULE Packets -------------------------------
(***************************************************************************)
(* The packets of a PAR2 file (format.rs and packet/): how each body is    *)
(* made, how build_packet frames it, and how creator.rs puts packets       *)
(* together.                                                               *)
(*                                                                         *)
(* A body is a sequence of fields <<value, bytes>>; a packet is a record   *)
(* of its header's fields and the body; MD5 is injective.  A text is a     *)
(* sequence of code points.                                                *)
(***************************************************************************)
EXTENDS Integers, Sequences, FiniteSets, SequencesExt

HEADER_SIZE == 64

Md5(value) == <<"md5", value>>

\* (n + 3) & !3
RoundUp4(n) == ((n + 3) \div 4) * 4

\* The bytes of the fields together.
Bytes(body) ==
  LET sum[i \in 1 .. Len(body) + 1] == IF i = 1 THEN 0 ELSE sum[i - 1] + body[i - 1][2]
  IN  sum[Len(body) + 1]

BuildPacket(setId, type, body) ==
  [len   |-> HEADER_SIZE + Bytes(body),
   hash  |-> Md5(<<setId, type, body>>),
   setId |-> setId,
   type  |-> type,
   body  |-> body]

\* Zeros up to a multiple of 4.
Pad(body) == body \o << <<"zeros", RoundUp4(Bytes(body)) - Bytes(body)>> >>

\* sort_unstable
Sorted(ids) ==
  LET order == CHOOSE p \in SetToSeqs(DOMAIN ids) :
                 \A i, j \in DOMAIN ids : i < j => ids[p[i]] <= ids[p[j]]
  IN  [i \in DOMAIN ids |-> ids[order[i]]]

\* The set id is the hash of the body of the main packet.
MainBody(sliceSize, fileIds) ==
  LET sorted == Sorted(fileIds)
  IN  << <<sliceSize, 8>>, <<Len(fileIds), 4>> >>
      \o [i \in DOMAIN fileIds |-> <<sorted[i], 16>>]

SetIdHash(sliceSize, fileIds) == Md5(MainBody(sliceSize, fileIds))

BuildMainPacket(sliceSize, fileIds) ==
  BuildPacket(SetIdHash(sliceSize, fileIds), "Main", MainBody(sliceSize, fileIds))

\* src: a SourceFile
BuildFileDescPacket(setId, src) ==
  BuildPacket(setId, "FileDesc",
    Pad(<< <<src.file_id, 16>>, <<src.hash_full, 16>>, <<src.hash16k, 16>>,
           <<src.length, 8>>, <<src.name, Len(src.name)>> >>))

\* The MD5 and the CRC-32 of a slice are one checksum of 20 bytes.
BuildFileVerifyPacket(setId, src) ==
  BuildPacket(setId, "IFSC",
    << <<src.file_id, 16>> >>
    \o [s \in DOMAIN src.slice_checksums |-> <<src.slice_checksums[s], 20>>])

BuildRecoveryPacket(setId, exponent, slice) ==
  BuildPacket(setId, "RecvSlic", << <<exponent, 4>>, <<slice, 4 * Cardinality(DOMAIN slice)>> >>)

\* CREATOR_STRING
BuildCreatorPacket(setId) ==
  BuildPacket(setId, "Creator", Pad(<< <<"Created by par2rust v0.1.0", 26>> >>))

-----------------------------------------------------------------------------
(* Comments.                                                               *)

IsAscii(text) == \A i \in DOMAIN text : text[i] < 128

QUESTION_MARK == 63

\* char by char; whatever ASCII does not have becomes a question mark
Transliterated(text) ==
  [i \in DOMAIN text |-> IF text[i] < 128 THEN text[i] ELSE QUESTION_MARK]

\* encode_utf16: two surrogates for what does not fit into one unit
Utf16(text) ==
  FlattenSeq([i \in DOMAIN text |->
    IF text[i] < 65536 THEN <<text[i]>>
    ELSE LET c == text[i] - 65536
         IN  <<55296 + c \div 1024, 56320 + (c % 1024)>>])

BuildAsciiCommentPacket(setId, text) ==
  BuildPacket(setId, "CommASCI", Pad(<< <<Transliterated(text), Len(text)>> >>))

\* Mutant: the units are not padded to 4 bytes.
MutBuildUnicodeCommentPacket(setId, text, asciiLink) ==
  BuildPacket(setId, "CommUni",
    << <<asciiLink, 16>>, <<Utf16(text), 2 * Len(Utf16(text))>> >>)

BuildUnicodeCommentPacket(setId, text, asciiLink) ==
  BuildPacket(setId, "CommUni",
    Pad(<< <<asciiLink, 16>>, <<Utf16(text), 2 * Len(Utf16(text))>> >>))

\* The Unicode packet follows the ASCII one and carries its hash.
BuildCommentPacketPair(setId, text) ==
  LET ascii == BuildAsciiCommentPacket(setId, text)
  IN  <<ascii>> \o (IF IsAscii(text) THEN <<>>
                    ELSE <<BuildUnicodeCommentPacket(setId, text, ascii.hash)>>)

BuildCommentPackets(setId, comments) ==
  FlattenSeq([i \in DOMAIN comments |-> BuildCommentPacketPair(setId, comments[i])])

-----------------------------------------------------------------------------
(* Files.                                                                  *)

\* What every file of the set begins with.
CriticalPackets(sliceSize, srcs, comments) ==
  LET ids   == [i \in DOMAIN srcs |-> srcs[i].file_id]
      setId == SetIdHash(sliceSize, ids)
  IN  <<BuildMainPacket(sliceSize, ids)>>
      \o FlattenSeq([i \in DOMAIN srcs |->
                       <<BuildFileDescPacket(setId, srcs[i]),
                         BuildFileVerifyPacket(setId, srcs[i])>>])
      \o <<BuildCreatorPacket(setId)>>
      \o BuildCommentPackets(setId, comments)

\* Mutant: the critical packets are not repeated at the end.
MutBuildVolumePacket(setId, critical, slots, firstExponent) ==
  critical
  \o [i \in DOMAIN slots |-> BuildRecoveryPacket(setId, firstExponent + i - 1, slots[i])]

BuildVolumePacket(setId, critical, slots, firstExponent) ==
  critical
  \o [i \in DOMAIN slots |-> BuildRecoveryPacket(setId, firstExponent + i - 1, slots[i])]
  \o critical

=============================================================================
