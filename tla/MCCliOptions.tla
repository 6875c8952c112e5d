---------------------------- MODULE MCCliOptions ----------------------------
(* 8-bit and 5-bit integers; numbers on both sides of what they hold, and  *)
(* of multiples of the slice size.  Library callers come with up to one    *)
(* file too many, of lengths around multiples of the slice sizes, so that  *)
(* tails, empty files and every error occur.                               *)
EXTENDS CliOptions, SequencesExt

MCShift == [u \in {"b", "k", "m", "g"} |->
              CASE u = "b" -> 0 [] u = "k" -> 2 [] u = "m" -> 4 [] u = "g" -> 6]

MCSizes ==
  [n : {0, 1, 3, 4, 12, 65, 255, 256}, unit : {"b", "k", "g"}]
    \cup {[n |-> NotANumber, unit |-> "b"]}

MCRedundancies ==
  [n : {NotANumber, 0, 1, 5, 9, 70}, unit : {"k", "m", "g"}]
    \cup [n : {NotANumber, 0, 1, 5, 30, 31, 32}, unit : {"%"}]

MCCliFileLists == {<<1>>, <<9, 30>>, <<64, 4>>, <<255, 17>>, <<5, 0>>, <<7, 7, 7>>}

MCFileLists == BoundedSeq({0, 1, 4, 5, 8, 13, 37}, 4)
=============================================================================
