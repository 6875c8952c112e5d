---------------------------- MODULE MCFusedCreate ----------------------------
(* Two runs over one directory, each through either entry point.  A        *)
(* volume's name is <<first_exp, count>>; the layouts are what             *)
(* VolumeLayout gives Uniform for 3 blocks and for 1, and that of a create *)
(* without recovery blocks.  Two input files of 1 and 2 slices.            *)
EXTENDS FusedCreate

MCIndex == <<0, 0>>

MCLayouts == {<<>>, <<<<0, 1>>, <<1, 1>>, <<2, 1>>>>, <<<<0, 1>>>>}

MCNames == {MCIndex} \cup UNION {Volumes(l) : l \in MCLayouts}

MCFileBlocks == <<1, 2>>
=============================================================================
