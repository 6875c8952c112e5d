------------------------ MODULE VolumeLayoutProofs ------------------------
(***************************************************************************)
(* Theorems about VolumeLayout, for every total and every scheme.          *)
(*                                                                         *)
(* A sum over a sequence is spoken of without recursion: Prefix(e, s, n)   *)
(* says that e gives the sum of every prefix of s, and n is that of s.     *)
(***************************************************************************)
EXTENDS VolumeLayout, SequenceTheorems, TLAPS

Prefix(e, s, n) ==
  /\ e \in [0 .. Len(s) -> 0 .. n]
  /\ e[0] = 0 /\ e[Len(s)] = n
  /\ \A i \in 1 .. Len(s) : e[i] = e[i - 1] + s[i]
  /\ \A i, j \in 0 .. Len(s) : i <= j => e[i] <= e[j]

Sums(s, n) == \E e \in [0 .. Len(s) -> 0 .. n] : Prefix(e, s, n)

\* The empty sequence sums to 0 and to nothing else.
LEMMA SumsEmpty ==
  /\ Sums(<<>>, 0)
  /\ \A n \in Nat : Sums(<<>>, n) => n = 0
<1>1. Prefix([i \in 0 .. 0 |-> 0], <<>>, 0)
  BY DEF Prefix
<1>2. Sums(<<>>, 0)
  BY <1>1 DEF Sums, Prefix
<1>3. \A n \in Nat : Sums(<<>>, n) => n = 0
  BY DEF Sums, Prefix
<1> QED BY <1>2, <1>3

\* Appending k adds k to the sum.
LEMMA SumsAppend ==
  ASSUME NEW s \in Seq(Nat), NEW n \in Nat, NEW k \in Nat, Sums(s, n)
  PROVE  Sums(Append(s, k), n + k)
<1>1. PICK e \in [0 .. Len(s) -> 0 .. n] : Prefix(e, s, n)
  BY DEF Sums
<1> DEFINE t == Append(s, k)
           f == [i \in 0 .. Len(s) + 1 |-> IF i = Len(s) + 1 THEN n + k ELSE e[i]]
<1>2. /\ Len(s) \in Nat /\ Len(t) = Len(s) + 1 /\ t[Len(s) + 1] = k
      /\ \A i \in 1 .. Len(s) : t[i] = s[i]
  OBVIOUS
<1>3. f \in [0 .. Len(t) -> 0 .. n + k]
  BY <1>1, <1>2 DEF Prefix
<1>4. f[0] = 0 /\ f[Len(t)] = n + k
  BY <1>1, <1>2 DEF Prefix
<1>5. ASSUME NEW i \in 1 .. Len(t) PROVE f[i] = f[i - 1] + t[i]
  <2>1. CASE i = Len(s) + 1
    BY <2>1, <1>1, <1>2 DEF Prefix
  <2>2. CASE i \in 1 .. Len(s)
    BY <2>2, <1>1, <1>2 DEF Prefix
  <2> QED BY <2>1, <2>2, <1>2
<1>6. ASSUME NEW i \in 0 .. Len(t), NEW j \in 0 .. Len(t), i <= j PROVE f[i] <= f[j]
  <2>1. CASE j = Len(s) + 1
    BY <2>1, <1>2, <1>3, <1>4
  <2>2. CASE j \in 0 .. Len(s)
    BY <2>2, <1>6, <1>1, <1>2 DEF Prefix
  <2> QED BY <2>1, <2>2, <1>2
<1> HIDE DEF f
<1>7. Prefix(f, t, n + k)
  BY <1>3, <1>4, <1>5, <1>6 DEF Prefix
<1> QED BY <1>3, <1>7 DEF Sums

\* The tail sums to what the head leaves.
LEMMA SumsTail ==
  ASSUME NEW s \in Seq(Nat), NEW n \in Nat, s # <<>>, Sums(s, n)
  PROVE  /\ Tail(s) \in Seq(Nat)
         /\ s[1] \in 0 .. n
         /\ Sums(Tail(s), n - s[1])
<1>1. PICK e \in [0 .. Len(s) -> 0 .. n] : Prefix(e, s, n)
  BY DEF Sums
<1> DEFINE t == Tail(s)
           f == [i \in 0 .. Len(t) |-> e[i + 1] - e[1]]
<1>2. /\ Len(s) \in Nat \ {0} /\ Len(t) = Len(s) - 1 /\ t \in Seq(Nat) /\ s[1] \in Nat
      /\ \A i \in 1 .. Len(t) : t[i] = s[i + 1]
  OBVIOUS
<1>3. e[1] = s[1] /\ e[1] \in 0 .. n
  BY <1>1, <1>2 DEF Prefix
<1>4. f \in [0 .. Len(t) -> 0 .. n - s[1]]
  <2>1. ASSUME NEW i \in 0 .. Len(t) PROVE e[i + 1] - e[1] \in 0 .. n - s[1]
    <3>1. i + 1 \in 0 .. Len(s) /\ 1 \in 0 .. Len(s) /\ 1 <= i + 1
      BY <1>2
    <3>2. e[1] <= e[i + 1] /\ e[i + 1] \in 0 .. n
      BY <3>1, <1>1 DEF Prefix
    <3> QED BY <3>2, <1>3
  <2> QED BY <2>1
<1>5. f[0] = 0 /\ f[Len(t)] = n - s[1]
  BY <1>1, <1>2, <1>3 DEF Prefix
<1>6. ASSUME NEW i \in 1 .. Len(t) PROVE f[i] = f[i - 1] + t[i]
  <2>1. i + 1 \in 1 .. Len(s) /\ i \in 0 .. Len(s) /\ t[i] = s[i + 1]
    BY <1>2
  <2>2. e[i + 1] = e[i] + s[i + 1] /\ e[i] \in Nat /\ s[i + 1] \in Nat
    BY <2>1, <1>1, <1>2 DEF Prefix
  <2> QED BY <2>1, <2>2, <1>2, <1>3
<1>7. ASSUME NEW i \in 0 .. Len(t), NEW j \in 0 .. Len(t), i <= j PROVE f[i] <= f[j]
  <2>1. i + 1 \in 0 .. Len(s) /\ j + 1 \in 0 .. Len(s) /\ i + 1 <= j + 1
    BY <1>2, <1>7
  <2>2. e[i + 1] <= e[j + 1] /\ e[i + 1] \in Nat /\ e[j + 1] \in Nat
    <3>1. \A a, b \in 0 .. Len(s) : a <= b => e[a] <= e[b] /\ e[a] \in Nat /\ e[b] \in Nat
      <4>1. \A a \in 0 .. Len(s) : e[a] \in Nat
        BY <1>2
      <4>2. \A a, b \in 0 .. Len(s) : a <= b => e[a] <= e[b]
        BY <1>1, Zenon DEF Prefix
      <4> QED BY <4>1, <4>2
    <3> QED BY <2>1, <3>1
  <2> QED BY <2>2, <1>3
<1> HIDE DEF f
<1>8. Prefix(f, t, n - s[1])
  BY <1>4, <1>5, <1>6, <1>7 DEF Prefix
<1>9. Sums(t, n - s[1])
  BY <1>4, <1>8 DEF Sums
<1> QED BY <1>2, <1>3, <1>9

\* What Tail leaves of a sequence that is not empty.
LEMMA TailFacts ==
  ASSUME NEW s \in Seq(Nat \ {0}), s # <<>>
  PROVE  /\ Tail(s) \in Seq(Nat \ {0}) /\ Len(Tail(s)) = Len(s) - 1
         /\ \A i \in 1 .. Len(s) - 1 : Tail(s)[i] = s[i + 1]
         /\ Len(s) = 1 => Tail(s) = <<>>
         /\ Len(s) > 1 => Tail(s) # <<>> /\ Tail(s)[1] = s[2] /\ s[2] \in Nat \ {0}
<1>1. Len(s) \in Nat \ {0} /\ Tail(s) \in Seq(Nat \ {0}) /\ Len(Tail(s)) = Len(s) - 1
  OBVIOUS
<1>2. \A i \in 1 .. Len(s) - 1 : Tail(s)[i] = s[i + 1]
  OBVIOUS
<1>3. ASSUME Len(s) = 1 PROVE Tail(s) = <<>>
  <2>1. Tail(s) \in Seq(Nat \ {0}) /\ Len(Tail(s)) = 0
    BY <1>1, <1>3
  <2> QED BY <2>1, EmptySeq
<1>4. ASSUME Len(s) > 1 PROVE Tail(s) # <<>> /\ Tail(s)[1] = s[2] /\ s[2] \in Nat \ {0}
  <2>1. 1 \in 1 .. Len(s) - 1 /\ 2 \in 1 .. Len(s)
    BY <1>1, <1>4
  <2>2. Tail(s)[1] = s[2]
    BY <1>2, <2>1
  <2>3. s[2] \in Nat \ {0}
    BY <2>1
  <2>4. Tail(s) # <<>>
    <3>1. Len(Tail(s)) # 0
      BY <1>1, <1>4
    <3> QED BY <3>1, <1>1, EmptySeq
  <2> QED BY <2>2, <2>3, <2>4
<1> QED BY <1>1, <1>2, <1>3, <1>4
-----------------------------------------------------------------------------
(* The invariant.  In every loop, what has been pushed and what remains    *)
(* make up the total; the Limited layers already left have cut everything  *)
(* to their caps; and firstExp is the sum of the volumes named so far.     *)

SumInv ==
  /\ Sums(sizes, acc)
  /\ pc = "resolve" => sizes = <<>> /\ acc = 0
  /\ pc = "exponential" => remaining > 0 /\ acc + remaining = total
  /\ pc = "uniform" =>
       /\ scheme.count \in 1 .. total
       /\ Len(sizes) < scheme.count
       /\ acc = (total \div scheme.count) * Len(sizes)
  /\ pc = "explicit" => \A i \in DOMAIN scheme.list : scheme.list[i] # 0
  /\ pc \in {"resolved", "naming", "done"} => acc = total
  /\ pc = "cap" =>
       /\ src # <<>>
       /\ remaining \in 1 .. src[1]
       /\ acc + remaining <= total
       /\ Sums(Tail(src), total - acc - remaining)

\* Every entry of s is within the caps of the layers from l inwards.
Within(s, l) ==
  \A i \in DOMAIN s, k \in DOMAIN scheme.caps : k >= l => s[i] <= scheme.caps[k]

CapInv ==
  /\ \A k \in 1 .. depth : scheme.caps[k] > 0
  /\ pc \in {"exponential", "uniform", "explicit"} => Innermost
  /\ pc = "resolved" => Within(sizes, depth + 1)
  /\ pc = "cap" => depth > 0 /\ Within(sizes, depth) /\ Within(src, depth + 1)
  /\ pc \in {"naming", "done"} => Within(sizes, 1)

NameInv ==
  /\ pc # "panic"
  /\ pc \notin {"naming", "done"} => volumes = <<>> /\ firstExp = 0
  /\ pc \in {"naming", "done"} =>
       /\ Len(volumes) <= Len(sizes)
       /\ \E e \in [0 .. Len(sizes) -> 0 .. acc] :
            /\ Prefix(e, sizes, acc)
            /\ firstExp = e[Len(volumes)]
            /\ \A i \in 1 .. Len(volumes) : volumes[i] = <<e[i - 1], sizes[i]>>
  /\ pc = "done" => Len(volumes) = Len(sizes)

LayoutInv == TypeOK /\ SumInv /\ CapInv /\ NameInv

\* What is pushed is never 0: the facts about the loops that say so.
LEMMA PushedIsPositive ==
  ASSUME LayoutInv
  PROVE  /\ total \in Nat \ {0} /\ total <= U16_MAX
         /\ scheme.caps \in Seq(Nat) /\ scheme.list \in Seq(Nat) /\ scheme.count \in Nat
         /\ sizes \in Seq(Nat) /\ src \in Seq(Nat) /\ src \in Seq(Nat \ {0})
         /\ pc = "uniform" =>
              /\ total \div scheme.count \in Nat \ {0}
              /\ total - (total \div scheme.count) * scheme.count \in Nat
         /\ pc = "cap" => scheme.caps[depth] \in Nat \ {0} /\ remaining \in Nat \ {0}
<1>1. total \in Nat \ {0} /\ total <= U16_MAX
  BY LayoutAssumption DEF LayoutInv, TypeOK
<1>2. /\ scheme.caps \in Seq(Nat) /\ scheme.list \in Seq(Nat) /\ scheme.count \in Nat
      /\ sizes \in Seq(Nat) /\ src \in Seq(Nat) /\ src \in Seq(Nat \ {0})
  BY DEF LayoutInv, TypeOK, SchemeType
<1>3. ASSUME pc = "uniform"
      PROVE  /\ total \div scheme.count \in Nat \ {0}
             /\ total - (total \div scheme.count) * scheme.count \in Nat
  <2>1. scheme.count \in Nat \ {0} /\ scheme.count <= total
    BY <1>1, <1>2, <1>3 DEF LayoutInv, SumInv
  <2>2. \A a \in Nat, b \in Nat \ {0} :
          b <= a => a \div b \in Nat \ {0} /\ a - (a \div b) * b \in Nat
    OBVIOUS
  <2> QED BY <1>1, <2>1, <2>2
<1>4. ASSUME pc = "cap" PROVE scheme.caps[depth] \in Nat \ {0} /\ remaining \in Nat \ {0}
  <2>1. remaining \in Nat /\ remaining > 0
    BY <1>4 DEF LayoutInv, TypeOK, SumInv
  <2>2. depth \in 1 .. Len(scheme.caps)
    BY <1>4, <1>2 DEF LayoutInv, TypeOK, CapInv
  <2>3. scheme.caps[depth] \in Nat
    BY <1>2, <2>2
  <2>4. scheme.caps[depth] > 0
    BY <2>2 DEF LayoutInv, CapInv
  <2> QED BY <2>1, <2>3, <2>4
<1> QED BY <1>1, <1>2, <1>3, <1>4

\* Pushing a positive count keeps the types of the list and of its sum.
LEMMA PushType ==
  ASSUME TypeOK, NEW k \in Nat \ {0}, Push(k)
  PROVE  sizes' \in Seq(Nat \ {0}) /\ acc' \in Nat
BY DEF TypeOK, Push

\* Every action keeps the types.
LEMMA NextLayoutType == LayoutInv /\ [Next]_vars => TypeOK'
<1> SUFFICES ASSUME LayoutInv, [Next]_vars PROVE TypeOK'
  OBVIOUS
<1>p. /\ total \in Nat \ {0} /\ total <= U16_MAX
      /\ scheme.caps \in Seq(Nat) /\ scheme.list \in Seq(Nat) /\ scheme.count \in Nat
      /\ sizes \in Seq(Nat) /\ src \in Seq(Nat) /\ src \in Seq(Nat \ {0})
  BY PushedIsPositive
<1>t. TypeOK
  BY DEF LayoutInv
<1> USE <1>t DEF TypeOK, Goto, request, built, loop, named
<1>1. CASE EnterLimited
  BY <1>1, <1>p DEF EnterLimited, Innermost
<1>2. CASE ResolveSingle
  BY <1>2, <1>p, PushType DEF ResolveSingle
<1>3. CASE ResolveExponential
  BY <1>3, <1>p DEF ResolveExponential
<1>4. CASE \/ ResolveUniform \/ ResolveExplicit \/ RejectScheme \/ ExplicitSum
           \/ StartNaming \/ FinishNaming
  BY <1>4 DEF ResolveUniform, ResolveExplicit, RejectScheme, ExplicitSum, StartNaming,
     FinishNaming
<1>5. CASE ExponentialTake
  <2> DEFINE take == IF next <= remaining THEN next ELSE remaining
  <2>1. take \in Nat \ {0} /\ remaining - take \in Nat
    BY <1>5 DEF ExponentialTake, LayoutInv, SumInv
  <2>2. sizes' \in Seq(Nat \ {0}) /\ acc' \in Nat
    BY <1>5, <2>1, PushType DEF ExponentialTake
  <2> QED BY <1>5, <2>1, <2>2 DEF ExponentialTake
<1>6. CASE UniformPush
  <2>1. sizes' \in Seq(Nat \ {0}) /\ acc' \in Nat
    <3> DEFINE base == total \div scheme.count
               rest == total - base * scheme.count
    <3>1. base \in Nat \ {0} /\ rest \in Nat
      BY <1>6, PushedIsPositive DEF UniformPush
    <3>2. base + rest \in Nat \ {0}
      BY <3>1
    <3>3. Push(base) \/ Push(base + rest)
      BY <1>6 DEF UniformPush
    <3> QED BY <3>1, <3>2, <3>3, PushType
  <2> QED BY <1>6, <2>1 DEF UniformPush
<1>7. CASE ExplicitPush
  <2>1. scheme.list[Len(sizes) + 1] \in Nat \ {0}
    <3>1. Len(sizes) + 1 \in DOMAIN scheme.list
      BY <1>7, <1>p DEF ExplicitPush
    <3> QED BY <1>7, <1>p, <3>1 DEF ExplicitPush, LayoutInv, SumInv
  <2>2. sizes' \in Seq(Nat \ {0}) /\ acc' \in Nat
    BY <1>7, <2>1, PushType DEF ExplicitPush
  <2> QED BY <1>7, <2>2 DEF ExplicitPush
<1>8. CASE StartCap
  <2>1. sizes # <<>>
    BY <1>8, <1>p, SumsEmpty DEF StartCap, LayoutInv, SumInv
  <2> QED BY <1>8, <1>p, <2>1 DEF StartCap
<1>9. CASE CapFull
  <2>1. scheme.caps[depth] \in Nat \ {0} /\ remaining \in Nat \ {0}
    BY <1>9, PushedIsPositive DEF CapFull
  <2>2. sizes' \in Seq(Nat \ {0}) /\ acc' \in Nat
    BY <1>9, <2>1, PushType DEF CapFull
  <2>3. /\ pc' = "cap" /\ remaining' = remaining - scheme.caps[depth]
        /\ remaining > scheme.caps[depth]
        /\ UNCHANGED <<scheme, total, depth, next, src, firstExp, volumes>>
    BY <1>9, Zenon DEF CapFull
  <2>4. remaining' \in Nat
    BY <2>1, <2>3
  <2> QED BY <2>2, <2>3, <2>4
<1>10. CASE CapRest
  <2>1. src # <<>> /\ remaining > 0 /\ depth > 0
    BY <1>10 DEF CapRest, LayoutInv, SumInv, CapInv
  <2>2. Tail(src) \in Seq(Nat \ {0}) /\ (Len(src) > 1 => src[2] \in Nat)
    BY <2>1, <1>p
  <2>3. sizes' \in Seq(Nat \ {0}) /\ acc' \in Nat
    <3>1. remaining \in Nat \ {0} /\ Push(remaining)
      BY <1>10, <2>1 DEF CapRest
    <3> QED BY <3>1, PushType
  <2> QED BY <1>10, <2>1, <2>2, <2>3 DEF CapRest
<1>11. CASE NameVolume
  <2>1. sizes[Len(volumes) + 1] \in Nat \ {0}
    BY <1>11 DEF NameVolume
  <2>2. CASE firstExp > U16_MAX
    BY <1>11, <2>2 DEF NameVolume
  <2>3. CASE firstExp <= U16_MAX
    <3>1. /\ volumes' = Append(volumes, <<firstExp, sizes[Len(volumes) + 1]>>)
          /\ firstExp' = firstExp + sizes[Len(volumes) + 1]
          /\ pc' = "naming" /\ UNCHANGED <<request, depth, built, loop>>
      BY <1>11, <2>3, LayoutAssumption DEF NameVolume
    <3>2. <<firstExp, sizes[Len(volumes) + 1]>> \in (0 .. U16_MAX) \X (Nat \ {0})
      BY <2>1, <2>3, LayoutAssumption
    <3> QED BY <2>1, <3>1, <3>2
  <2> QED BY <2>2, <2>3, LayoutAssumption
<1>12. CASE UNCHANGED vars
  BY <1>12 DEF vars
<1> QED
  BY <1>1, <1>2, <1>3, <1>4, <1>5, <1>6, <1>7, <1>8, <1>9, <1>10, <1>11, <1>12 DEF Next

\* Pushing k adds k to the sum of the list.
LEMMA PushSum ==
  ASSUME TypeOK, Sums(sizes, acc), NEW k \in Nat, Push(k)
  PROVE  /\ Sums(sizes', acc') /\ acc' = acc + k /\ acc \in Nat
         /\ Len(sizes') = Len(sizes) + 1
<1>1. sizes \in Seq(Nat) /\ acc \in Nat
  BY DEF TypeOK
<1> QED BY <1>1, SumsAppend DEF Push

\* uniform_split: n - 1 even shares and the last one, with the remainder, make
\* up the total.
LEMMA SharesAddUp ==
  ASSUME NEW base \in Nat, NEW n \in Nat, NEW t \in Nat, NEW L \in Nat, L = n - 1
  PROVE  base * L + (base + (t - base * n)) = t
<1>1. base * n = base * L + base
  OBVIOUS
<1> QED BY <1>1

\* Every action keeps the sums.
LEMMA NextSum == LayoutInv /\ [Next]_vars => SumInv'
<1> SUFFICES ASSUME LayoutInv, [Next]_vars PROVE SumInv'
  OBVIOUS
<1>p. /\ total \in Nat \ {0} /\ total <= U16_MAX
      /\ scheme.caps \in Seq(Nat) /\ scheme.list \in Seq(Nat) /\ scheme.count \in Nat
      /\ sizes \in Seq(Nat) /\ src \in Seq(Nat) /\ src \in Seq(Nat \ {0})
  BY PushedIsPositive
<1>t. TypeOK /\ SumInv
  BY DEF LayoutInv
<1>n. acc \in Nat /\ remaining \in Nat /\ next \in Nat \ {0} /\ Sums(sizes, acc)
  BY <1>t DEF TypeOK, SumInv
<1> USE DEF Goto, request, built, loop, named
<1>1. CASE \/ EnterLimited \/ ResolveExponential \/ ResolveExplicit
           \/ RejectScheme \/ StartNaming \/ FinishNaming \/ NameVolume
  BY <1>1, <1>t, <1>p, <1>n DEF EnterLimited, ResolveExponential, ResolveExplicit,
     RejectScheme, StartNaming, FinishNaming, NameVolume, SumInv
<1>2. CASE ResolveUniform
  <2>1. sizes = <<>> /\ acc = 0 /\ scheme.count \in 1 .. total /\ Len(sizes) = 0
    BY <1>2, <1>t DEF ResolveUniform, SumInv
  <2>2. 0 = (total \div scheme.count) * Len(sizes)
    BY <2>1, <1>p
  <2> QED BY <1>2, <2>1, <2>2, <1>t, <1>p DEF ResolveUniform, SumInv
<1>3. CASE ResolveSingle
  <2>1. Sums(sizes', acc') /\ acc' = acc + total
    BY <1>3, <1>t, <1>n, <1>p, PushSum DEF ResolveSingle
  <2> QED BY <1>3, <2>1, <1>t, <1>p DEF ResolveSingle, SumInv
<1>4. CASE ExponentialTake
  <2> DEFINE take == IF next <= remaining THEN next ELSE remaining
  <2>0. take \in Nat /\ take <= remaining
    BY <1>n
  <2>1. /\ remaining' = remaining - take /\ Push(take) /\ pc = "exponential"
        /\ pc' = IF take = remaining THEN "resolved" ELSE pc
        /\ scheme' = scheme /\ total' = total
    BY <1>4, Zenon DEF ExponentialTake
  <2> HIDE DEF take
  <2>2. Sums(sizes', acc') /\ acc' = acc + take
    BY <2>0, <2>1, <1>t, <1>n, PushSum
  <2>3. acc + remaining = total
    BY <2>1, <1>t DEF SumInv
  <2>4. CASE take = remaining
    BY <2>1, <2>2, <2>3, <2>4 DEF SumInv
  <2>5. CASE take # remaining
    <3>1. remaining' > 0 /\ acc' + remaining' = total'
      BY <2>0, <2>1, <2>2, <2>3, <2>5, <1>n
    <3>2. pc' = "exponential"
      BY <2>1, <2>5
    <3> QED BY <2>2, <3>1, <3>2 DEF SumInv
  <2> QED BY <2>4, <2>5
<1>5. CASE UniformPush
  <2> DEFINE base == total \div scheme.count
             n == scheme.count
             L == Len(sizes)
  <2>0. pc = "uniform" /\ UNCHANGED <<scheme, total>>
    BY <1>5, Zenon DEF UniformPush
  <2>1. base \in Nat /\ n \in Nat \ {0} /\ total - base * n \in Nat /\ L \in Nat
        /\ L < n /\ n <= total /\ acc = base * L /\ UNCHANGED <<scheme, total>>
    <3>1. base \in Nat /\ total - base * n \in Nat
      BY <2>0, PushedIsPositive
    <3>2. n \in 1 .. total /\ L < n /\ acc = base * L
      BY <2>0, <1>t, Zenon DEF SumInv
    <3>3. L \in Nat
      BY <1>p
    <3> HIDE DEF base, n, L
    <3> QED BY <2>0, <3>1, <3>2, <3>3, <1>p
  <2>2. CASE L = n - 1
    <3>1. Push(base + (total - base * n)) /\ pc' = "resolved"
      BY <1>5, <2>2 DEF UniformPush
    <3>2. Sums(sizes', acc') /\ acc' = acc + (base + (total - base * n))
      BY <3>1, <2>1, <1>t, <1>n, PushSum
    <3> HIDE DEF base, n, L
    <3>3. base * L + (base + (total - base * n)) = total
      BY <2>1, <2>2, <1>p, SharesAddUp
    <3>4. acc' = total
      BY <3>2, <3>3, <2>1, Zenon
    <3> QED BY <3>1, <3>2, <3>4, <2>1 DEF SumInv
  <2>3. CASE L # n - 1
    <3>1. Push(base) /\ pc' = "uniform"
      BY <1>5, <2>3 DEF UniformPush
    <3>2. Sums(sizes', acc') /\ acc' = acc + base /\ Len(sizes') = L + 1
      BY <3>1, <2>1, <1>t, <1>n, PushSum
    <3>3. L + 1 < n
      BY <2>1, <2>3
    <3>4. acc' = (total' \div scheme'.count) * Len(sizes')
      <4>1. base' = base /\ n' = n
        BY <2>1
      <4>2. acc' = base * (L + 1)
        <5> HIDE DEF base, n, L
        <5> QED BY <3>2, <2>1
      <4> QED BY <4>1, <4>2, <3>2
    <3>5. scheme'.count \in 1 .. total' /\ Len(sizes') < scheme'.count
      BY <2>1, <3>2, <3>3, <1>p
    <3> QED BY <3>1, <3>2, <3>4, <3>5, Zenon DEF SumInv
  <2> QED BY <2>2, <2>3
<1>6. CASE ExplicitPush
  <2>1. scheme.list[Len(sizes) + 1] \in Nat
    <3>1. Len(sizes) + 1 \in DOMAIN scheme.list
      BY <1>6, <1>p DEF ExplicitPush
    <3> QED BY <1>p, <3>1
  <2>2. Sums(sizes', acc')
    BY <1>6, <2>1, <1>t, <1>n, PushSum DEF ExplicitPush
  <2> QED BY <1>6, <2>2, <1>t DEF ExplicitPush, SumInv
<1>7. CASE ExplicitSum
  BY <1>7, <1>t DEF ExplicitSum, SumInv
<1>8. CASE StartCap
  <2>1. sizes # <<>> /\ acc = total
    BY <1>8, <1>t, <1>p, SumsEmpty DEF StartCap, SumInv
  <2>2. sizes[1] \in 0 .. total /\ Sums(Tail(sizes), total - sizes[1])
    BY <2>1, <1>n, <1>p, SumsTail
  <2>3. sizes[1] > 0
    BY <2>1, <1>t DEF TypeOK
  <2>4. /\ pc' = "cap" /\ src' = sizes /\ remaining' = sizes[1] /\ sizes' = <<>>
        /\ acc' = 0 /\ UNCHANGED <<scheme, total>>
    BY <1>8 DEF StartCap
  <2>5. total - 0 - sizes[1] = total - sizes[1]
    BY <2>2, <1>p
  <2> QED BY <2>1, <2>2, <2>3, <2>4, <2>5, <1>p, SumsEmpty DEF SumInv
<1>9. CASE CapFull
  <2> DEFINE k == scheme.caps[depth]
  <2>1. k \in Nat \ {0} /\ k < remaining
    BY <1>9, <1>n, PushedIsPositive DEF CapFull
  <2>2. Sums(sizes', acc') /\ acc' = acc + k
    BY <1>9, <2>1, <1>t, <1>n, PushSum DEF CapFull
  <2>3. /\ src # <<>> /\ remaining <= src[1] /\ acc + remaining <= total
        /\ Sums(Tail(src), total - acc - remaining) /\ src[1] \in Nat
    BY <1>9, <1>t, <1>p DEF CapFull, SumInv
  <2>4. /\ remaining' = remaining - k /\ pc' = "cap" /\ src' = src
        /\ UNCHANGED <<scheme, total>>
    BY <1>9 DEF CapFull
  <2> HIDE DEF k
  <2>5. total' - acc' - remaining' = total - acc - remaining
    BY <2>1, <2>2, <2>4, <1>n, <1>p
  <2>6. Sums(Tail(src'), total' - acc' - remaining')
    BY <2>3, <2>4, <2>5
  <2>7. src' # <<>> /\ remaining' \in 1 .. src'[1] /\ acc' + remaining' <= total'
    BY <2>1, <2>2, <2>3, <2>4, <1>n, <1>p
  <2> QED BY <2>2, <2>4, <2>6, <2>7 DEF SumInv
<1>10. CASE CapRest
  <2>1. /\ src # <<>> /\ remaining > 0 /\ acc + remaining <= total
        /\ Sums(Tail(src), total - acc - remaining)
    BY <1>10, <1>t DEF CapRest, SumInv
  <2>2. Sums(sizes', acc') /\ acc' = acc + remaining
    BY <1>10, <1>t, <1>n, PushSum DEF CapRest
  <2>3. Tail(src) \in Seq(Nat) /\ Tail(src) \in Seq(Nat \ {0})
    BY <2>1, <1>p, TailFacts
  <2>4. src' = Tail(src) /\ scheme' = scheme /\ total' = total
    BY <1>10 DEF CapRest
  <2> DEFINE m == total - acc - remaining
  <2>5. m \in Nat /\ Sums(Tail(src), m) /\ m = total' - acc'
    BY <2>1, <2>2, <2>4, <1>n, <1>p
  <2> HIDE DEF m
  <2>6. CASE Len(src) > 1
    <3>1. Tail(src) # <<>> /\ Tail(src)[1] = src[2] /\ src[2] \in Nat \ {0}
      BY <2>1, <2>6, <1>p, TailFacts
    <3>2. src[2] \in 0 .. m /\ Sums(Tail(Tail(src)), m - src[2])
      BY <3>1, <2>3, <2>5, SumsTail
    <3>3. pc' = "cap" /\ remaining' = src[2]
      BY <1>10, <2>6 DEF CapRest
    <3>4. total' - acc' - remaining' = m - src[2]
      BY <2>5, <3>3
    <3>5. Sums(Tail(src'), total' - acc' - remaining')
      BY <2>4, <3>2, <3>4
    <3>6. src' # <<>> /\ remaining' \in 1 .. src'[1] /\ acc' + remaining' <= total'
      <4>1. src' # <<>> /\ src'[1] = remaining' /\ remaining' \in Nat \ {0}
        BY <2>4, <3>1, <3>3
      <4>2. acc' + remaining' <= total'
        BY <2>2, <2>5, <3>2, <3>3, <2>4, <1>n, <1>p
      <4> QED BY <4>1, <4>2
    <3> QED BY <2>2, <3>3, <3>5, <3>6 DEF SumInv
  <2>7. CASE Len(src) = 1
    <3>1. Tail(src) = <<>>
      BY <2>1, <2>7, <1>p, TailFacts
    <3>2. m = 0
      BY <2>5, <3>1, SumsEmpty
    <3>3. pc' = "resolved"
      BY <1>10, <2>7 DEF CapRest
    <3>4. acc' = total'
      BY <2>2, <2>4, <2>5, <3>2, <1>n, <1>p
    <3> QED BY <2>2, <3>3, <3>4 DEF SumInv
  <2>8. Len(src) \in Nat /\ Len(src) # 0
    BY <2>1, <1>p
  <2> QED BY <2>6, <2>7, <2>8
<1>11. CASE UNCHANGED vars
  BY <1>11, <1>t DEF vars, SumInv
<1> QED
  BY <1>1, <1>2, <1>3, <1>4, <1>5, <1>6, <1>7, <1>8, <1>9, <1>10, <1>11 DEF Next

\* A list within the caps stays so when an entry within them is appended,
\* and when its head is taken away.
LEMMA WithinAppend ==
  ASSUME NEW s \in Seq(Nat), NEW n \in Nat, NEW l \in Nat, Within(s, l),
         \A k \in DOMAIN scheme.caps : k >= l => n <= scheme.caps[k]
  PROVE  Within(Append(s, n), l)
<1> DEFINE t == Append(s, n)
<1>1. /\ Len(s) \in Nat /\ DOMAIN s = 1 .. Len(s) /\ DOMAIN t = 1 .. Len(s) + 1
      /\ t[Len(s) + 1] = n /\ \A i \in 1 .. Len(s) : t[i] = s[i]
  OBVIOUS
<1>2. ASSUME NEW i \in DOMAIN t, NEW k \in DOMAIN scheme.caps, k >= l
      PROVE  t[i] <= scheme.caps[k]
  <2>1. CASE i = Len(s) + 1
    BY <1>1, <1>2, <2>1
  <2>2. CASE i \in 1 .. Len(s)
    BY <1>1, <1>2, <2>2 DEF Within
  <2> QED BY <1>1, <2>1, <2>2
<1> QED BY <1>2 DEF Within

\* The tail of a list within the caps is within them.
LEMMA WithinTail ==
  ASSUME NEW s \in Seq(Nat \ {0}), s # <<>>, NEW l \in Nat, Within(s, l)
  PROVE  Within(Tail(s), l)
<1>1. /\ Tail(s) \in Seq(Nat \ {0}) /\ Len(Tail(s)) = Len(s) - 1
      /\ \A i \in 1 .. Len(s) - 1 : Tail(s)[i] = s[i + 1]
  BY TailFacts
<1>2. ASSUME NEW i \in DOMAIN Tail(s), NEW k \in DOMAIN scheme.caps, k >= l
      PROVE  Tail(s)[i] <= scheme.caps[k]
  <2>1. i \in 1 .. Len(s) - 1 /\ i + 1 \in DOMAIN s
    BY <1>1
  <2> QED BY <1>1, <1>2, <2>1 DEF Within
<1> QED BY <1>2 DEF Within

\* Every action keeps the caps.
LEMMA NextCap == LayoutInv /\ [Next]_vars => CapInv'
<1> SUFFICES ASSUME LayoutInv, [Next]_vars PROVE CapInv'
  OBVIOUS
<1>p. /\ scheme.caps \in Seq(Nat) /\ sizes \in Seq(Nat) /\ src \in Seq(Nat \ {0})
  BY PushedIsPositive
<1>t. TypeOK /\ SumInv /\ CapInv /\ depth \in Nat /\ DOMAIN scheme.caps = 1 .. Len(scheme.caps)
  BY <1>p DEF LayoutInv, TypeOK
<1> USE DEF Goto, request, built, loop, named
<1>1. CASE EnterLimited
  BY <1>1, <1>t DEF EnterLimited, CapInv
<1>2. CASE ResolveSingle \/ ExponentialTake \/ UniformPush \/ ExplicitSum
  <2>1. /\ depth = Len(scheme.caps) /\ depth' = depth /\ scheme' = scheme
        /\ pc' \in {"exponential", "uniform", "resolved", "rejected"}
    BY <1>2, <1>t DEF ResolveSingle, ExponentialTake, UniformPush, ExplicitSum, CapInv,
       Innermost
  <2>2. \A k \in DOMAIN scheme'.caps : ~(k >= depth' + 1)
    BY <2>1, <1>t, <1>p
  <2> QED BY <2>1, <2>2, <1>t DEF CapInv, Innermost, Within
<1>3. CASE ResolveExponential \/ ResolveUniform \/ ResolveExplicit \/ RejectScheme
           \/ ExplicitPush \/ FinishNaming \/ NameVolume
  BY <1>3, <1>t DEF ResolveExponential, ResolveUniform, ResolveExplicit, RejectScheme,
     ExplicitPush, FinishNaming, NameVolume, CapInv, Innermost, Within
<1>4. CASE StartCap
  <2>1. /\ depth > 0 /\ depth' = depth /\ scheme' = scheme /\ src' = sizes /\ sizes' = <<>>
        /\ pc' = "cap" /\ pc = "resolved"
    BY <1>4 DEF StartCap
  <2> QED BY <2>1, <1>t DEF CapInv, Within
<1>5. CASE CapFull
  <2> DEFINE c == scheme.caps[depth]
  <2>1. /\ pc = "cap" /\ pc' = "cap" /\ depth' = depth /\ scheme' = scheme /\ src' = src
        /\ sizes' = Append(sizes, c) /\ remaining > c
    BY <1>5 DEF CapFull, Push
  <2>2. /\ depth > 0 /\ Within(sizes, depth) /\ Within(src, depth + 1)
        /\ remaining <= src[1] /\ 1 \in DOMAIN src /\ remaining \in Nat /\ src[1] \in Nat
    BY <2>1, <1>t, <1>p DEF CapInv, SumInv, TypeOK
  <2>3. c \in Nat /\ c <= src[1]
    BY <2>1, <2>2, PushedIsPositive
  <2>4. ASSUME NEW k \in DOMAIN scheme.caps, k >= depth PROVE c <= scheme.caps[k]
    <3>1. CASE k = depth
      BY <3>1, <2>3
    <3>2. CASE k >= depth + 1
      <4>1. src[1] <= scheme.caps[k] /\ scheme.caps[k] \in Nat
        BY <3>2, <2>2, <1>p DEF Within
      <4> QED BY <4>1, <2>2, <2>3
    <3> QED BY <3>1, <3>2, <2>4, <1>t
  <2> HIDE DEF c
  <2>5. Within(Append(sizes, c), depth)
    BY <2>2, <2>3, <2>4, <1>t, <1>p, WithinAppend
  <2> QED BY <2>1, <2>2, <2>5, <1>t DEF CapInv, Within
<1>6. CASE CapRest
  <2>1. /\ pc = "cap" /\ scheme' = scheme /\ src' = Tail(src)
        /\ sizes' = Append(sizes, remaining) /\ remaining <= scheme.caps[depth]
        /\ \/ pc' = "cap" /\ depth' = depth
           \/ pc' = "resolved" /\ depth' = depth - 1
    BY <1>6 DEF CapRest, Push
  <2>2. /\ depth > 0 /\ Within(sizes, depth) /\ Within(src, depth + 1) /\ src # <<>>
        /\ remaining <= src[1] /\ 1 \in DOMAIN src /\ remaining \in Nat /\ src[1] \in Nat
    BY <2>1, <1>t, <1>p DEF CapInv, SumInv, TypeOK
  <2>3. ASSUME NEW k \in DOMAIN scheme.caps, k >= depth PROVE remaining <= scheme.caps[k]
    <3>1. CASE k = depth
      BY <3>1, <2>1
    <3>2. CASE k >= depth + 1
      <4>1. src[1] <= scheme.caps[k] /\ scheme.caps[k] \in Nat
        BY <3>2, <2>2, <1>p DEF Within
      <4> QED BY <4>1, <2>2
    <3> QED BY <3>1, <3>2, <2>3, <1>t
  <2>4. Within(Append(sizes, remaining), depth)
    BY <2>2, <2>3, <1>t, <1>p, WithinAppend
  <2>5. Within(Tail(src), depth + 1)
    BY <2>2, <1>t, <1>p, WithinTail
  <2>6. CASE pc' = "cap" /\ depth' = depth
    BY <2>1, <2>2, <2>4, <2>5, <2>6, <1>t DEF CapInv, Within
  <2>7. CASE pc' = "resolved" /\ depth' = depth - 1
    <3>1. depth' + 1 = depth /\ depth' \in Nat
      BY <2>7, <2>2, <1>t
    <3>2. \A k \in 1 .. depth' : scheme.caps[k] > 0
      <4>1. \A k \in 1 .. depth' : k \in 1 .. depth
        <5>1. \A a, b \in Nat : a + 1 = b => \A k \in 1 .. a : k \in 1 .. b
          OBVIOUS
        <5>2. depth \in Nat
          BY <1>t
        <5> QED BY <3>1, <5>1, <5>2
      <4>2. \A k \in 1 .. depth : scheme.caps[k] > 0
        BY <1>t DEF CapInv
      <4> QED BY <4>1, <4>2
    <3> QED BY <2>1, <2>4, <2>7, <3>1, <3>2, <1>t DEF CapInv, Within
  <2> QED BY <2>1, <2>6, <2>7
<1>7. CASE StartNaming
  BY <1>7, <1>t DEF StartNaming, CapInv, Within
<1>8. CASE UNCHANGED vars
  BY <1>8, <1>t DEF vars, CapInv, Innermost, Within
<1> QED
  BY <1>1, <1>2, <1>3, <1>4, <1>5, <1>6, <1>7, <1>8 DEF Next

\* Every action keeps the volumes named so far at the sums of their sizes.
LEMMA NextName == LayoutInv /\ [Next]_vars => NameInv'
<1> SUFFICES ASSUME LayoutInv, [Next]_vars PROVE NameInv'
  OBVIOUS
<1>p. /\ total \in Nat /\ total <= U16_MAX /\ U16_MAX \in Nat /\ sizes \in Seq(Nat)
      /\ volumes \in Seq((0 .. U16_MAX) \X (Nat \ {0}))
  BY PushedIsPositive, LayoutAssumption DEF LayoutInv, TypeOK
<1>t. TypeOK /\ SumInv /\ NameInv /\ acc \in Nat
  BY DEF LayoutInv, TypeOK
<1> USE DEF Goto, request, built, loop, named
<1>1. CASE \/ EnterLimited \/ RejectScheme
           \/ ResolveSingle \/ ResolveExponential \/ ResolveUniform \/ ResolveExplicit
           \/ ExponentialTake \/ UniformPush \/ ExplicitPush \/ ExplicitSum
           \/ StartCap \/ CapFull \/ CapRest
  <2>1. /\ pc \notin {"naming", "done"} /\ pc' \notin {"naming", "done", "panic"}
        /\ volumes' = volumes /\ firstExp' = firstExp
    BY <1>1, Zenon DEF EnterLimited, RejectScheme, ResolveSingle, ResolveExponential,
       ResolveUniform, ResolveExplicit, ExponentialTake, UniformPush, ExplicitPush,
       ExplicitSum, StartCap, CapFull, CapRest
  <2> QED BY <2>1, <1>t DEF NameInv
<1>2. CASE StartNaming
  <2>1. /\ pc' = "naming" /\ sizes' = sizes /\ acc' = acc /\ volumes' = <<>> /\ firstExp' = 0
    BY <1>2, <1>t DEF StartNaming, NameInv
  <2>2. PICK e \in [0 .. Len(sizes) -> 0 .. acc] : Prefix(e, sizes, acc)
    BY <1>t DEF SumInv, Sums
  <2>3. Len(<<>>) = 0 /\ 0 <= Len(sizes) /\ e[0] = 0 /\ 1 .. 0 = {}
    BY <2>2, <1>p DEF Prefix
  <2> QED BY <2>1, <2>2, <2>3 DEF NameInv
<1>3. CASE NameVolume
  <2> DEFINE n == Len(volumes)
  <2>1. pc = "naming" /\ n < Len(sizes) /\ sizes' = sizes /\ acc' = acc
    BY <1>3 DEF NameVolume
  <2>2. PICK e \in [0 .. Len(sizes) -> 0 .. acc] :
          /\ Prefix(e, sizes, acc)
          /\ firstExp = e[n]
          /\ \A i \in 1 .. n : volumes[i] = <<e[i - 1], sizes[i]>>
    BY <2>1, <1>t DEF NameInv
  <2>3. n \in Nat /\ Len(sizes) \in Nat
    BY <1>p
  <2>4. firstExp <= U16_MAX
    <3>1. firstExp \in 0 .. acc /\ acc = total
      BY <2>1, <2>2, <2>3, <1>t DEF SumInv
    <3> QED BY <3>1, <1>p
  <2>5. /\ volumes' = Append(volumes, <<firstExp, sizes[n + 1]>>)
        /\ firstExp' = firstExp + sizes[n + 1] /\ pc' = "naming"
    <3>1. ~(firstExp > U16_MAX)
      BY <2>2, <2>3, <2>4, <1>p
    <3> QED BY <3>1, <1>3 DEF NameVolume
  <2>6. firstExp' = e[n + 1] /\ n + 1 <= Len(sizes)
    <3>1. n + 1 \in 1 .. Len(sizes) /\ (n + 1) - 1 = n
      BY <2>1, <2>3
    <3>2. e[n + 1] = e[n] + sizes[n + 1]
      BY <2>2, <3>1 DEF Prefix
    <3> QED BY <2>2, <2>5, <3>1, <3>2
  <2>7. /\ Len(volumes') = n + 1 /\ volumes'[n + 1] = <<e[n], sizes[n + 1]>>
        /\ \A i \in 1 .. n : volumes'[i] = volumes[i]
    BY <2>2, <2>5, <1>p
  <2>8. ASSUME NEW i \in 1 .. Len(volumes') PROVE volumes'[i] = <<e[i - 1], sizes[i]>>
    <3>1. CASE i = n + 1
      BY <3>1, <2>3, <2>7
    <3>2. CASE i \in 1 .. n
      BY <3>2, <2>2, <2>7
    <3> QED BY <3>1, <3>2, <2>3, <2>7
  <2> HIDE DEF n
  <2> QED BY <2>1, <2>2, <2>5, <2>6, <2>7, <2>8 DEF NameInv
<1>4. CASE FinishNaming
  <2>1. /\ pc = "naming" /\ pc' = "done" /\ Len(volumes) = Len(sizes)
        /\ sizes' = sizes /\ acc' = acc /\ volumes' = volumes /\ firstExp' = firstExp
    BY <1>4 DEF FinishNaming
  <2> QED BY <2>1, <1>t DEF NameInv
<1>5. CASE UNCHANGED vars
  BY <1>5, <1>t DEF vars, NameInv
<1> QED
  BY <1>1, <1>2, <1>3, <1>4, <1>5 DEF Next

\* The layout invariant holds in every state.
THEOREM LayoutInvariant == Spec => []LayoutInv
<1>1. Init => LayoutInv
  <2> SUFFICES ASSUME Init PROVE LayoutInv
    OBVIOUS
  <2>1. TypeOK
    BY LayoutAssumption DEF Init, TypeOK, SchemeType
  <2>2. SumInv
    BY SumsEmpty DEF Init, SumInv
  <2>3. CapInv
    BY DEF Init, CapInv
  <2>4. NameInv
    BY DEF Init, NameInv
  <2> QED BY <2>1, <2>2, <2>3, <2>4 DEF LayoutInv
<1>2. LayoutInv /\ [Next]_vars => LayoutInv'
  BY NextLayoutType, NextSum, NextCap, NextName DEF LayoutInv
<1> QED BY <1>1, <1>2, PTL DEF Spec

\* Every variable keeps its type, and no volume is ever given 0 blocks:
\* none of the loops of resolve_volume_sizes pushes an empty entry.
THEOREM LayoutTypeCorrect == Spec => []TypeOK
<1>1. LayoutInv => TypeOK
  BY DEF LayoutInv
<1> QED BY <1>1, LayoutInvariant, PTL

\* The expect() of the naming loop holds: every first_exp fits its u16,
\* whatever total and scheme.
THEOREM NamingNeverPanics == Spec => []NoPanic
<1>1. LayoutInv => NoPanic
  BY DEF LayoutInv, NameInv, NoPanic
<1> QED BY <1>1, LayoutInvariant, PTL

\* However the Limited layers are nested, every volume ends up within every
\* one of their caps.
THEOREM EveryCapHolds == Spec => []WithinCaps
<1>1. LayoutInv => WithinCaps
  <2> SUFFICES ASSUME LayoutInv, pc \in {"naming", "done"},
                      NEW i \in DOMAIN sizes, NEW l \in DOMAIN scheme.caps
               PROVE  sizes[i] <= scheme.caps[l]
    BY DEF WithinCaps
  <2>1. Within(sizes, 1)
    BY DEF LayoutInv, CapInv
  <2>2. l >= 1
    BY PushedIsPositive
  <2> QED BY <2>1, <2>2 DEF Within
<1> QED BY <1>1, LayoutInvariant, PTL

\* The volumes cut the recovery blocks 0 .. total-1 into consecutive
\* non-empty ranges: none is written twice and none is left out.
THEOREM EveryBlockInOneVolume == Spec => []CoversAllBlocks
<1>1. LayoutInv => CoversAllBlocks
  <2> SUFFICES ASSUME LayoutInv, pc = "done" PROVE CoversAllBlocks
    BY DEF CoversAllBlocks
  <2> DEFINE n == Len(volumes)
  <2>1. /\ sizes \in Seq(Nat) /\ acc = total /\ total \in Nat \ {0} /\ n = Len(sizes)
        /\ volumes \in Seq((0 .. U16_MAX) \X (Nat \ {0})) /\ Sums(sizes, acc)
    BY PushedIsPositive DEF LayoutInv, SumInv, NameInv, TypeOK
  <2>2. PICK e \in [0 .. Len(sizes) -> 0 .. acc] :
          /\ Prefix(e, sizes, acc)
          /\ \A i \in 1 .. n : volumes[i] = <<e[i - 1], sizes[i]>>
    BY DEF LayoutInv, NameInv
  <2>3. n \in Nat \ {0} /\ volumes # <<>>
    <3>1. sizes # <<>>
      BY <2>1, SumsEmpty
    <3>2. Len(sizes) \in Nat \ {0}
      BY <2>1, <3>1, EmptySeq
    <3> QED BY <2>1, <3>2
  <2>4. \A i \in 1 .. n : /\ volumes[i][1] = e[i - 1]
                          /\ volumes[i][1] + volumes[i][2] = e[i]
    <3>1. \A i \in 1 .. n : e[i] = e[i - 1] + sizes[i]
      BY <2>1, <2>2 DEF Prefix
    <3>2. \A i \in 1 .. n : volumes[i][1] = e[i - 1] /\ volumes[i][2] = sizes[i]
      BY <2>2
    <3> QED BY <3>1, <3>2
  <2>5. volumes[1][1] = 0
    <3>1. 1 \in 1 .. n /\ 1 - 1 = 0
      BY <2>3
    <3> QED BY <2>2, <2>4, <3>1 DEF Prefix
  <2>6. volumes[n][1] + volumes[n][2] = total
    <3>1. n \in 1 .. n
      BY <2>3
    <3> QED BY <2>1, <2>2, <2>4, <3>1 DEF Prefix
  <2>7. Contiguous(volumes)
    <3> SUFFICES ASSUME NEW i \in 1 .. n - 1
                 PROVE  volumes[i + 1][1] = volumes[i][1] + volumes[i][2]
      BY DEF Contiguous
    <3>1. i \in 1 .. n /\ i + 1 \in 1 .. n /\ (i + 1) - 1 = i
      BY <2>3
    <3> QED BY <2>4, <3>1
  <2> QED BY <2>3, <2>5, <2>6, <2>7 DEF CoversAllBlocks
<1> QED BY <1>1, LayoutInvariant, PTL

-----------------------------------------------------------------------------
(* The shape of the splits that no cap cuts, with an invariant of its own  *)
(* on top of LayoutInv: what each splitter has pushed so far.              *)

ShapeInv ==
  scheme.caps = <<>> =>
    /\ pc # "cap"
    /\ pc = "resolve" => next = 1
    /\ pc = "exponential" =>
         /\ scheme.kind = "exponential"
         /\ next = FullVolume(sizes, Len(sizes) + 1)
         /\ \A i \in 1 .. Len(sizes) : sizes[i] = FullVolume(sizes, i)
    /\ pc = "uniform" =>
         /\ scheme.kind = "uniform"
         /\ \A i \in 1 .. Len(sizes) : sizes[i] = total \div scheme.count
    /\ pc = "explicit" =>
         /\ scheme.kind = "explicit"
         /\ Len(sizes) <= Len(scheme.list)
         /\ \A i \in 1 .. Len(sizes) : sizes[i] = scheme.list[i]
    /\ pc \in {"resolved", "naming", "done"} => KindShape

\* A push changes no entry that is there.
LEMMA PushExtends ==
  ASSUME sizes \in Seq(Nat), NEW k \in Nat, Push(k)
  PROVE  /\ Len(sizes) \in Nat /\ Len(sizes') = Len(sizes) + 1
         /\ sizes'[Len(sizes) + 1] = k
         /\ \A i \in 1 .. Len(sizes) : sizes'[i] = sizes[i]
BY DEF Push

\* Every step keeps the shape.
LEMMA NextShape == LayoutInv /\ ShapeInv /\ [Next]_vars => ShapeInv'
<1> SUFFICES ASSUME LayoutInv, ShapeInv, [Next]_vars, scheme'.caps = <<>> PROVE ShapeInv'
  BY DEF ShapeInv
<1>k. scheme' = scheme /\ scheme.caps = <<>> /\ total' = total
  BY Zenon DEF Next, vars, EnterLimited, RejectScheme, ResolveSingle, ResolveExponential,
     ResolveUniform, ResolveExplicit, ExponentialTake, UniformPush, ExplicitPush, ExplicitSum,
     StartCap, CapFull, CapRest, StartNaming, NameVolume, FinishNaming, request
<1>p. /\ total \in Nat \ {0} /\ scheme.list \in Seq(Nat) /\ scheme.count \in Nat
      /\ sizes \in Seq(Nat) /\ depth = 0 /\ remaining \in Nat /\ next \in Nat
      /\ pc # "cap" /\ pc' # "panic"
  <2>1. depth = 0
    BY <1>k DEF LayoutInv, TypeOK
  <2>2. pc' # "panic"
    BY NextName DEF NameInv
  <2> QED BY <1>k, <2>1, <2>2, PushedIsPositive DEF LayoutInv, TypeOK, ShapeInv
<1> USE DEF Goto, request, built, loop, named
<1>1. CASE EnterLimited
  BY <1>1, <1>k, <1>p DEF EnterLimited, Innermost
<1>2. CASE RejectScheme
  BY <1>2 DEF RejectScheme, ShapeInv
<1>3. CASE ResolveSingle
  <2>1. sizes' = <<total>> /\ pc' = "resolved" /\ scheme.kind = "single"
    BY <1>3, <1>p DEF ResolveSingle, Push, LayoutInv, SumInv
  <2>2. KindShape'
    BY <2>1, <1>k DEF KindShape
  <2> QED BY <2>1, <2>2 DEF ShapeInv
<1>4. CASE ResolveExponential
  <2>1. /\ sizes' = <<>> /\ next' = 1 /\ pc' = "exponential" /\ scheme.kind = "exponential"
    BY <1>4, <1>k DEF ResolveExponential, LayoutInv, SumInv, ShapeInv
  <2> QED BY <2>1, <1>k DEF ShapeInv, FullVolume
<1>5. CASE ResolveUniform
  <2>1. sizes' = <<>> /\ pc' = "uniform" /\ scheme.kind = "uniform"
    BY <1>5 DEF ResolveUniform, LayoutInv, SumInv
  <2> QED BY <2>1, <1>k DEF ShapeInv
<1>6. CASE ResolveExplicit
  <2>1. sizes' = <<>> /\ pc' = "explicit" /\ scheme.kind = "explicit"
    BY <1>6 DEF ResolveExplicit, LayoutInv, SumInv
  <2> QED BY <2>1, <1>k, <1>p DEF ShapeInv
<1>7. CASE ExponentialTake
  <2> DEFINE take == IF next <= remaining THEN next ELSE remaining
             n == Len(sizes)
  <2>1. /\ scheme.kind = "exponential" /\ next = FullVolume(sizes, n + 1)
        /\ \A i \in 1 .. n : sizes[i] = FullVolume(sizes, i)
    BY <1>7, <1>k DEF ExponentialTake, ShapeInv
  <2>2. take \in Nat /\ Push(take) /\ pc' = (IF take = remaining THEN "resolved" ELSE "exponential")
    BY <1>7, <1>p DEF ExponentialTake
  <2>3. next' = IF Len(sizes') >= 2 THEN 2 * next ELSE next
    BY <1>7 DEF ExponentialTake
  <2>4. /\ n \in Nat /\ Len(sizes') = n + 1 /\ sizes'[n + 1] = take
        /\ \A i \in 1 .. n : sizes'[i] = sizes[i]
    BY <1>p, <2>2, PushExtends
  <2>5. \A i \in 1 .. n + 1 : FullVolume(sizes', i) = FullVolume(sizes, i)
    BY <2>4 DEF FullVolume
  <2>6. \A i \in 1 .. n : sizes'[i] = FullVolume(sizes', i)
    BY <2>1, <2>4, <2>5
  <2>7. next = FullVolume(sizes', n + 1)
    BY <2>1, <2>4, <2>5
  <2>8. CASE take = remaining
    <3>1. take <= next
      BY <1>p, <2>8
    <3>2. KindShape'
      BY <1>k, <2>1, <2>4, <2>6, <2>7, <3>1 DEF KindShape
    <3> QED BY <2>2, <2>8, <3>2 DEF ShapeInv
  <2>9. CASE take # remaining
    <3>1. take = next
      BY <2>9
    <3>2. next' = FullVolume(sizes', n + 2)
      BY <1>p, <2>3, <2>4, <2>7, <3>1 DEF FullVolume
    <3>3. \A i \in 1 .. n + 1 : sizes'[i] = FullVolume(sizes', i)
      BY <2>4, <2>6, <2>7, <3>1
    <3> QED BY <1>k, <2>1, <2>2, <2>4, <2>9, <3>2, <3>3 DEF ShapeInv
  <2> QED BY <2>8, <2>9
<1>8. CASE UniformPush
  <2> DEFINE base == total \div scheme.count
             rest == total - base * scheme.count
             last == Len(sizes) = scheme.count - 1
             n == Len(sizes)
  <2>1. /\ scheme.kind = "uniform" /\ \A i \in 1 .. n : sizes[i] = base
        /\ scheme.count \in 1 .. total /\ pc = "uniform"
    BY <1>8, <1>k DEF UniformPush, ShapeInv, LayoutInv, SumInv
  <2>2. base \in Nat /\ rest \in 0 .. scheme.count - 1
    <3>1. \A a \in Nat, b \in Nat \ {0} : a \div b \in Nat /\ a - (a \div b) * b \in 0 .. b - 1
      OBVIOUS
    <3> DEFINE c == scheme.count
    <3>2. c \in Nat \ {0} /\ total \in Nat
      BY <2>1, <1>p
    <3> HIDE DEF c
    <3>3. total \div c \in Nat /\ total - (total \div c) * c \in 0 .. c - 1
      BY <3>1, <3>2
    <3> QED BY <3>3 DEF c
  <2>3. pc' = (IF last THEN "resolved" ELSE "uniform") /\ Push(IF last THEN base + rest ELSE base)
    BY <1>8 DEF UniformPush
  <2> HIDE DEF base, rest
  <2>4. /\ n \in Nat /\ Len(sizes') = n + 1
        /\ sizes'[n + 1] = (IF last THEN base + rest ELSE base)
        /\ \A i \in 1 .. n : sizes'[i] = sizes[i]
    BY <1>p, <2>2, <2>3, PushExtends
  <2>5. \A i \in 1 .. n : sizes'[i] = base
    BY <2>1, <2>4
  <2>6. CASE last
    <3>1. n + 1 = scheme.count /\ sizes'[n + 1] = base + rest
      BY <1>p, <2>4, <2>6
    <3> HIDE DEF last, n
    <3>2. rest \in 0 .. n
      BY <2>2, <2>4, <3>1
    <3>3. CASE n = 0
      <4>1. sizes'[n + 1] - sizes'[1] \in 0 .. n
        BY <2>2, <3>1, <3>2, <3>3
      <4>2. \A i \in 1 .. n : sizes'[i] = sizes'[1]
        BY <3>3
      <4> QED BY <1>k, <2>1, <2>3, <2>4, <2>6, <3>1, <4>1, <4>2 DEF KindShape, ShapeInv
    <3>4. CASE n # 0
      <4>1. sizes'[1] = base
        BY <2>4, <2>5, <3>4
      <4>2. sizes'[n + 1] - sizes'[1] \in 0 .. n
        BY <2>2, <3>1, <3>2, <4>1
      <4>3. \A i \in 1 .. n : sizes'[i] = sizes'[1]
        BY <2>5, <4>1
      <4> QED BY <1>k, <2>1, <2>3, <2>4, <2>6, <3>1, <4>2, <4>3 DEF KindShape, ShapeInv
    <3> QED BY <3>3, <3>4
  <2>7. CASE ~last
    <3>1. \A i \in 1 .. n + 1 : sizes'[i] = base
      BY <2>4, <2>5, <2>7
    <3> QED BY <1>k, <2>1, <2>3, <2>4, <2>7, <3>1 DEF ShapeInv, base
  <2> QED BY <2>6, <2>7
<1>9. CASE ExplicitPush
  <2> DEFINE n == Len(sizes)
  <2>1. /\ scheme.kind = "explicit" /\ \A i \in 1 .. n : sizes[i] = scheme.list[i]
        /\ n < Len(scheme.list) /\ Push(scheme.list[n + 1]) /\ pc' = "explicit"
    BY <1>9, <1>k DEF ExplicitPush, ShapeInv
  <2>2. scheme.list[n + 1] \in Nat
    BY <1>p, <2>1
  <2>3. /\ n \in Nat /\ Len(sizes') = n + 1 /\ sizes'[n + 1] = scheme.list[n + 1]
        /\ \A i \in 1 .. n : sizes'[i] = sizes[i]
    BY <1>p, <2>1, <2>2, PushExtends
  <2>4. \A i \in 1 .. n + 1 : sizes'[i] = scheme.list[i]
    BY <2>1, <2>3
  <2> QED BY <1>k, <1>p, <2>1, <2>3, <2>4 DEF ShapeInv
<1>10. CASE ExplicitSum
  <2>1. /\ scheme.kind = "explicit" /\ \A i \in 1 .. Len(sizes) : sizes[i] = scheme.list[i]
        /\ Len(sizes) = Len(scheme.list) /\ sizes' = sizes /\ pc' \in {"resolved", "rejected"}
    BY <1>10, <1>k DEF ExplicitSum, ShapeInv
  <2>2. sizes = scheme.list
    BY <1>p, <2>1, SeqEqual
  <2>3. KindShape'
    BY <1>k, <2>1, <2>2 DEF KindShape
  <2> QED BY <2>1, <2>3 DEF ShapeInv
<1>11. CASE StartCap
  BY <1>11, <1>p DEF StartCap
<1>12. CASE CapFull
  BY <1>12, <1>p DEF CapFull
<1>13. CASE CapRest
  BY <1>13, <1>p DEF CapRest
<1>14. CASE StartNaming \/ NameVolume \/ FinishNaming
  <2>1. sizes' = sizes /\ pc \in {"resolved", "naming"} /\ pc' \in {"naming", "done"}
    BY <1>14, <1>p DEF StartNaming, NameVolume, FinishNaming
  <2> QED BY <1>k, <2>1 DEF ShapeInv, KindShape
<1>15. CASE UNCHANGED vars
  BY <1>15 DEF vars, ShapeInv, KindShape
<1> QED BY <1>1, <1>2, <1>3, <1>4, <1>5, <1>6, <1>7, <1>8, <1>9, <1>10, <1>11, <1>12, <1>13, <1>14,
        <1>15 DEF Next

\* Without a cap every scheme has its shape, for every total: 1, 1 and then
\* twice the volume before, with a short last one; even volumes, of which the
\* last takes the whole remainder; the list as given; or a single volume.
THEOREM UncappedShape == Spec => []SplitShape
<1>1. Init => ShapeInv
  BY DEF Init, ShapeInv
<1>2. LayoutInv /\ ShapeInv /\ [Next]_vars => ShapeInv'
  BY NextShape
<1>3. ShapeInv => SplitShape
  BY DEF ShapeInv, SplitShape
<1> QED BY <1>1, <1>2, <1>3, LayoutInvariant, PTL DEF Spec
=============================================================================
