---------------------------- MODULE VolumeLayout ----------------------------
(***************************************************************************)
(* How the recovery blocks 0 .. total-1 of one create are dealt out to     *)
(* volume files: resolve_volume_sizes and its splitters turn a             *)
(* VolumeScheme into block counts, and the loop of                         *)
(* run_create_with_progress turns the counts into (first_exp, count)       *)
(* pairs, first_exp being a u16.  One action is one iteration of a loop of *)
(* the source, so that the arithmetic of every loop can be reasoned about  *)
(* for every total.                                                        *)
(*                                                                         *)
(* Nested Box<VolumeScheme>s of Limited are flattened: caps lists the      *)
(* max_blocks_per_volume of the Limited layers, outermost first, and kind  *)
(* is the innermost scheme.                                                *)
(***************************************************************************)
EXTENDS Integers, Sequences

CONSTANTS
  MAX_RECOVERY_BLOCKS, \* creator.rs: 65 535
  U16_MAX,             \* the largest first_exp a u16 holds
  Schemes              \* the volume schemes a caller may ask for

Kinds == {"single", "exponential", "uniform", "explicit"}

\* VolumeScheme.  count belongs to "uniform", list to "explicit".
SchemeType == [kind : Kinds, count : Nat, list : Seq(Nat), caps : Seq(Nat)]

ASSUME LayoutAssumption ==
  /\ U16_MAX \in Nat
  /\ MAX_RECOVERY_BLOCKS \in 0 .. U16_MAX
  /\ Schemes \subseteq SchemeType

VARIABLES
  pc,        \* which loop is running
  scheme,
  total,     \* recovery_block_count
  depth,     \* Limited layers entered and not yet applied
  sizes,     \* the Vec<u32> being built
  acc,       \* the sum of sizes: the source's sum for Explicit, else a ghost
  remaining, \* blocks still to place: of total, or of the entry being capped
  next,      \* exponential: the next power of two
  src,       \* the entries being capped
  firstExp,
  volumes    \* Vec<(first_exp, count)>

vars == <<pc, scheme, total, depth, sizes, acc, remaining, next, src,
          firstExp, volumes>>

request == <<scheme, total>>
built   == <<sizes, acc>>
loop    == <<remaining, next, src>>
named   == <<firstExp, volumes>>

Init ==
  /\ pc = "resolve"
  /\ scheme \in Schemes
  /\ total \in 1 .. MAX_RECOVERY_BLOCKS \* a total of 0, or of more, never gets here
  /\ depth = 0
  /\ sizes = <<>> /\ acc = 0
  /\ remaining = 0 /\ next = 1 /\ src = <<>>
  /\ firstExp = 0 /\ volumes = <<>>

Goto(from, to) == pc = from /\ pc' = to

Push(n) == sizes' = Append(sizes, n) /\ acc' = acc + n

-----------------------------------------------------------------------------
(* resolve_volume_sizes: down through the Limited layers, whose caps are   *)
(* checked on the way, to the innermost scheme.                            *)

Innermost == depth = Len(scheme.caps)

EnterLimited ==
  /\ Goto("resolve", "resolve")
  /\ ~Innermost
  /\ scheme.caps[depth + 1] > 0
  /\ depth' = depth + 1
  /\ UNCHANGED <<request, built, loop, named>>

ResolveSingle ==
  /\ Goto("resolve", "resolved")
  /\ Innermost /\ scheme.kind = "single"
  /\ Push(total)
  /\ UNCHANGED <<request, depth, loop, named>>

ResolveExponential ==
  /\ Goto("resolve", "exponential")
  /\ Innermost /\ scheme.kind = "exponential"
  /\ remaining' = total
  /\ UNCHANGED <<request, depth, built, next, src, named>>

ResolveUniform ==
  /\ Goto("resolve", "uniform")
  /\ Innermost /\ scheme.kind = "uniform"
  /\ scheme.count \in 1 .. total
  /\ UNCHANGED <<request, depth, built, loop, named>>

ResolveExplicit ==
  /\ Goto("resolve", "explicit")
  /\ Innermost /\ scheme.kind = "explicit"
  /\ scheme.list # <<>>
  /\ \A i \in DOMAIN scheme.list : scheme.list[i] # 0
  /\ UNCHANGED <<request, depth, built, loop, named>>

\* What resolve_volume_sizes refuses before it builds anything.
Refused ==
  \/ ~Innermost /\ scheme.caps[depth + 1] = 0
  \/ /\ Innermost /\ scheme.kind = "uniform"
     /\ scheme.count \notin 1 .. total
  \/ /\ Innermost /\ scheme.kind = "explicit"
     /\ scheme.list = <<>> \/ \E i \in DOMAIN scheme.list : scheme.list[i] = 0

RejectScheme ==
  /\ Goto("resolve", "rejected")
  /\ Refused
  /\ UNCHANGED <<request, depth, built, loop, named>>

-----------------------------------------------------------------------------
(* The splitters, one iteration at a time                                  *)

\* Mutant: the powers double from the first volume on.
MutDoubleAtOnce ==
  LET take == IF next <= remaining THEN next ELSE remaining
  IN  /\ Goto("exponential", IF take = remaining THEN "resolved" ELSE pc)
      /\ Push(take)
      /\ remaining' = remaining - take
      /\ next' = 2 * next
      /\ UNCHANGED <<request, depth, src, named>>

\* exponential_split: 1, 1, 2, 4, 8, ... until nothing remains.
ExponentialTake ==
  LET take == IF next <= remaining THEN next ELSE remaining
  IN  /\ Goto("exponential", IF take = remaining THEN "resolved" ELSE pc)
      /\ Push(take)
      /\ remaining' = remaining - take
      /\ next' = IF Len(sizes') >= 2 THEN 2 * next ELSE next
      /\ UNCHANGED <<request, depth, src, named>>

\* Mutant: the remainder of the division is dropped.
MutDropRemainder ==
  /\ Goto("uniform", IF Len(sizes) = scheme.count - 1 THEN "resolved" ELSE pc)
  /\ Push(total \div scheme.count)
  /\ UNCHANGED <<request, depth, loop, named>>

\* uniform_split: count - 1 even volumes, then one with the remainder too.
UniformPush ==
  LET base == total \div scheme.count
      last == Len(sizes) = scheme.count - 1
  IN  /\ Goto("uniform", IF last THEN "resolved" ELSE pc)
      /\ Push(IF last THEN base + (total - base * scheme.count) ELSE base)
      /\ UNCHANGED <<request, depth, loop, named>>

\* Explicit: the sum over the whole list decides; the list is returned as is.
ExplicitPush ==
  /\ Goto("explicit", "explicit")
  /\ Len(sizes) < Len(scheme.list)
  /\ Push(scheme.list[Len(sizes) + 1])
  /\ UNCHANGED <<request, depth, loop, named>>

ExplicitSum ==
  /\ Goto("explicit", IF acc = total THEN "resolved" ELSE "rejected")
  /\ Len(sizes) = Len(scheme.list)
  /\ UNCHANGED <<request, depth, built, loop, named>>

\* Returning through the Limited layers, innermost first.
StartCap ==
  /\ Goto("resolved", "cap")
  /\ depth > 0
  /\ src' = sizes /\ remaining' = sizes[1]
  /\ sizes' = <<>> /\ acc' = 0
  /\ UNCHANGED <<request, depth, next, named>>

\* Mutant: an entry as large as the cap leaves an empty rest.
MutFullAtCap ==
  /\ Goto("cap", "cap")
  /\ remaining >= scheme.caps[depth]
  /\ Push(scheme.caps[depth])
  /\ remaining' = remaining - scheme.caps[depth]
  /\ UNCHANGED <<request, depth, next, src, named>>

\* cap_volume_sizes: full cap-sized volumes of the entry at the head of src,
\* then what is left of it, which is never 0.
CapFull ==
  /\ Goto("cap", "cap")
  /\ remaining > scheme.caps[depth]
  /\ Push(scheme.caps[depth])
  /\ remaining' = remaining - scheme.caps[depth]
  /\ UNCHANGED <<request, depth, next, src, named>>

\* Mutants: where the recursion through the Limited layers goes on from here.
CapRestThen(outer) ==
  LET more == Len(src) > 1
  IN  /\ Goto("cap", IF more THEN "cap" ELSE "resolved")
      /\ remaining <= scheme.caps[depth]
      /\ Push(remaining)
      /\ src' = Tail(src)
      /\ remaining' = IF more THEN src[2] ELSE 0
      /\ depth' = IF more THEN depth ELSE outer
      /\ UNCHANGED <<request, next, named>>

MutInnermostCapOnly == CapRestThen(0)

MutSameLayerAgain == CapRestThen(depth)

CapRest ==
  LET more == Len(src) > 1
  IN  /\ Goto("cap", IF more THEN "cap" ELSE "resolved")
      /\ remaining <= scheme.caps[depth]
      /\ Push(remaining)
      /\ src' = Tail(src)
      /\ remaining' = IF more THEN src[2] ELSE 0
      /\ depth' = IF more THEN depth ELSE depth - 1
      /\ UNCHANGED <<request, next, named>>

-----------------------------------------------------------------------------
(* run_create_with_progress: the sizes are resolved; name the volumes      *)

StartNaming ==
  /\ Goto("resolved", "naming")
  /\ depth = 0
  /\ UNCHANGED <<request, depth, built, loop, named>>

\* first_exp.try_into().expect(..): a u16 that does not fit panics.
NameVolume ==
  /\ pc = "naming" /\ Len(volumes) < Len(sizes)
  /\ LET count == sizes[Len(volumes) + 1]
     IN  IF firstExp > U16_MAX
         THEN Goto("naming", "panic") /\ UNCHANGED named
         ELSE /\ Goto("naming", "naming")
              /\ volumes' = Append(volumes, <<firstExp, count>>)
              /\ firstExp' = firstExp + count
  /\ UNCHANGED <<request, depth, built, loop>>

FinishNaming ==
  /\ Goto("naming", "done")
  /\ Len(volumes) = Len(sizes)
  /\ UNCHANGED <<request, depth, built, loop, named>>

Next ==
  \/ EnterLimited \/ RejectScheme
  \/ ResolveSingle \/ ResolveExponential \/ ResolveUniform \/ ResolveExplicit
  \/ ExponentialTake \/ UniformPush \/ ExplicitPush \/ ExplicitSum
  \/ StartCap \/ CapFull \/ CapRest
  \/ StartNaming \/ NameVolume \/ FinishNaming

Spec == Init /\ [][Next]_vars

\* A sequential function keeps running until it returns.
FairSpec == Spec /\ WF_vars(Next)

-----------------------------------------------------------------------------
(* Properties                                                              *)

\* Every variable keeps its type; block counts are positive once in a list.
TypeOK ==
  /\ pc \in {"resolve", "exponential", "uniform", "explicit", "resolved", "cap",
             "naming", "done", "rejected", "panic"}
  /\ scheme \in SchemeType
  /\ total \in 1 .. MAX_RECOVERY_BLOCKS
  /\ depth \in 0 .. Len(scheme.caps)
  /\ sizes \in Seq(Nat \ {0}) /\ src \in Seq(Nat \ {0})
  /\ acc \in Nat /\ remaining \in Nat /\ next \in Nat \ {0}
  /\ firstExp \in Nat
  /\ volumes \in Seq((0 .. U16_MAX) \X (Nat \ {0}))

\* The volumes handed to the writers cut 0 .. total-1 into consecutive
\* non-empty ranges: recovery_buffers[r_start..r_end] is never out of range,
\* no recovery block is written twice and none is left out.
Contiguous(vs) ==
  \A i \in 1 .. Len(vs) - 1 : vs[i + 1][1] = vs[i][1] + vs[i][2]

CoversAllBlocks ==
  pc = "done" =>
    /\ volumes # <<>>
    /\ volumes[1][1] = 0
    /\ Contiguous(volumes)
    /\ volumes[Len(volumes)][1] + volumes[Len(volumes)][2] = total

\* first_exp always fits its u16: the expect() of the naming loop holds.
NoPanic == pc # "panic"

\* Once the Limited layers are left, every volume is within every one of
\* their caps, however the layers were nested.
WithinCaps ==
  pc \in {"naming", "done"} =>
    \A i \in DOMAIN sizes, l \in DOMAIN scheme.caps : sizes[i] <= scheme.caps[l]

\* Volume i of exponential_split, if the blocks last: 1, 1, then each twice the
\* volume before.
FullVolume(s, i) == IF i <= 2 THEN 1 ELSE 2 * s[i - 1]

\* What each kind of scheme makes of the total, when no cap cuts it.
KindShape ==
  LET n == Len(sizes)
  IN  /\ scheme.kind = "single" => sizes = <<total>>
      /\ scheme.kind = "exponential" =>
           /\ \A i \in 1 .. n - 1 : sizes[i] = FullVolume(sizes, i)
           /\ sizes[n] <= FullVolume(sizes, n)
      /\ scheme.kind = "uniform" =>
           /\ n = scheme.count
           /\ \A i \in 1 .. n - 1 : sizes[i] = sizes[1]
           /\ sizes[n] - sizes[1] \in 0 .. n - 1
      /\ scheme.kind = "explicit" => sizes = scheme.list

\* Uncapped splits have the shape of par2cmdline's: 1, 1, 2, 4, ... with a
\* short last volume; or count even volumes, the last at most count-1 larger.
SplitShape == pc = "done" /\ scheme.caps = <<>> => KindShape

=============================================================================
