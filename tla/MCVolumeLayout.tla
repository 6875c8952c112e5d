--------------------------- MODULE MCVolumeLayout ---------------------------
(* VolumeLayout on small totals, with every kind of scheme and up to two   *)
(* Limited layers, valid and invalid ones.                                 *)
EXTENDS VolumeLayout, Functions

CapLists == {<<>>, <<0>>, <<1>>, <<2>>, <<3>>, <<5>>, <<2, 3>>, <<4, 3>>, <<3, 0>>}

ExplicitLists ==
  {<<>>, <<1>>, <<4>>, <<2, 3>>, <<3, 0, 1>>, <<1, 4, 2>>, <<6, 6>>, <<1, 1, 1, 5>>, <<13, 1>>}

MCSchemes ==
  {[kind |-> k, count |-> 0, list |-> <<>>, caps |-> cs] :
      k \in {"single", "exponential"}, cs \in CapLists}
  \cup {[kind |-> "uniform", count |-> n, list |-> <<>>, caps |-> cs] :
      n \in 0 .. 5, cs \in CapLists}
  \cup {[kind |-> "explicit", count |-> 0, list |-> l, caps |-> cs] :
      l \in ExplicitLists, cs \in CapLists}

SumOf(s) == FoldFunction(LAMBDA a, b : a + b, 0, s)

\* What the doc comments of VolumeScheme ask of a scheme for a given total.
Valid ==
  /\ \A l \in DOMAIN scheme.caps : scheme.caps[l] > 0
  /\ scheme.kind = "uniform" => scheme.count > 0 /\ scheme.count <= total
  /\ scheme.kind = "explicit" =>
       /\ scheme.list # <<>>
       /\ \A i \in DOMAIN scheme.list : scheme.list[i] > 0
       /\ SumOf(scheme.list) = total

\* Every request is answered, and as it should be: a scheme that can be laid
\* out gets its volumes and the others are refused; no splitter loops for ever
\* and no conversion of an exponent fails.
Answered == <>(pc = IF Valid THEN "done" ELSE "rejected")
=============================================================================
