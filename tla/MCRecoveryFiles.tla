--------------------------- MODULE MCRecoveryFiles ---------------------------
(* Files of 5, 3 and 3 words in slices of 3: full and partial slices; two  *)
(* of the files may have the same id.  Five buffers in chunks of 2, 2 and  *)
(* 1; windows that do and do not divide the slice; sources scanned with    *)
(* the right, a smaller and a larger slice size; names and comments of     *)
(* several lengths modulo 4, with ASCII, one-unit and two-unit characters. *)
EXTENDS RecoveryFiles

MCFileWords == <<5, 3, 3>>
MCNameLens == <<4, 1, 1>>
MCIdTables == {<<1, 2, 3>>, <<1, 2, 2>>}
MCComments == << <<97>>, <<104, 233, 128190>>, <<97, 98, 233>> >>
MCLayouts == {<<5>>, <<1, 1, 2, 1>>, <<2, 3>>}
=============================================================================
