------------------------- MODULE MCSharedDirectory -------------------------
(* Two creates over one source, which is edited once at most; the versions *)
(* differ beyond the first block and in length.                            *)
EXTENDS SharedDirectory, TLC

MCVersions == {<<<<1>>, <<1>>>>, <<<<1>>, <<2>>>>, <<<<1>>>>, <<>>}
MCSymmetry == Permutations(Creates)

MCLayouts == {{"vol0+2"}, {"vol0+1"}}
=============================================================================
