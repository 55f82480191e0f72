---------------------------- MODULE LpResizeProofs ----------------------------
(***************************************************************************)
(* Growing logical partitions, for any device and any metadata. First the  *)
(* promise of LpLayout: the layout stays sound and keeps its data. Then    *)
(* LpResize: every copy of the metadata stays well formed, and what liblp  *)
(* sees keeps that promise.                                                *)
(***************************************************************************)
EXTENDS LpResize, LpLayout, FiniteSetTheorems, SequenceTheorems, TLAPS

-----------------------------------------------------------------------------
(* The promise. *)

\* An extent that is appended has the size it needs: a positive multiple of Align.
LEMMA RoundUpPositive ==
  ASSUME NEW x \in Int, x > 0
  PROVE  RoundUp(x) \in Nat \ {0} /\ RoundUp(x) % Align = 0 /\ RoundUp(x) >= x
<1> DEFINE k == (x + Align - 1) \div Align
<1>1. Align \in Nat /\ Align > 0
  BY SpaceAssumption
<1>2. k \in Int /\ k > 0 /\ k * Align >= x /\ RoundUp(x) = k * Align
  BY <1>1 DEF RoundUp
<1>3. (k * Align) % Align = 0 /\ k * Align \in Int
  BY <1>1, <1>2
<1> QED
  BY <1>1, <1>2, <1>3

\* What a step does, in terms of the new extent: it goes behind all others.
LEMMA GrowEffect ==
  ASSUME Sound, NEW p \in Partitions, NEW want \in Wanted, Grow(p, want)
  PROVE  \E e \in Extent :
           /\ e.linear /\ e.at % Align = 0 /\ e.n % Align = 0
           /\ FirstSector <= e.at /\ e.at + e.n <= DevSectors
           /\ \A q \in Partitions : \A i \in DOMAIN layout[q] :
                layout[q][i].linear => layout[q][i].at + layout[q][i].n <= e.at
           /\ layout' = [layout EXCEPT ![p] = Append(@, e)]
<1>0. PICK lacking \in 1 .. DevSectors :
        \E s \in 0 .. DevSectors - RoundUp(lacking) :
          /\ IsTail(layout, s)
          /\ layout' = [layout EXCEPT ![p] =
                          Append(@, [n |-> RoundUp(lacking), linear |-> TRUE, at |-> s])]
  BY DEF Grow
<1>1. PICK s \in 0 .. DevSectors - RoundUp(lacking) :
        /\ IsTail(layout, s)
        /\ layout' = [layout EXCEPT ![p] =
                        Append(@, [n |-> RoundUp(lacking), linear |-> TRUE, at |-> s])]
  BY <1>0
<1> DEFINE e == [n |-> RoundUp(lacking), linear |-> TRUE, at |-> s]
<1>2. RoundUp(lacking) \in Nat \ {0} /\ RoundUp(lacking) % Align = 0
  BY RoundUpPositive, SpaceAssumption
<1>3. s \in Nat /\ s + RoundUp(lacking) <= DevSectors
  BY <1>2, SpaceAssumption
<1>4. e \in Extent
  BY <1>2, <1>3 DEF Extent
<1>5. /\ e.linear /\ e.at % Align = 0 /\ e.n % Align = 0
      /\ FirstSector <= e.at /\ e.at + e.n <= DevSectors
      /\ \A q \in Partitions : \A i \in DOMAIN layout[q] :
           layout[q][i].linear => layout[q][i].at + layout[q][i].n <= e.at
  BY <1>1, <1>2, <1>3 DEF IsTail
<1> QED
  BY <1>1, <1>4, <1>5

\* The extents afterwards are those before and the new one.
LEMMA AppendedExtents ==
  ASSUME NEW lay \in Layout, NEW p \in Partitions, NEW e \in Extent, NEW more,
         more = [lay EXCEPT ![p] = Append(@, e)]
  PROVE  /\ more \in Layout
         /\ \A q \in Partitions : \A i \in DOMAIN more[q] :
              \/ i \in DOMAIN lay[q] /\ more[q][i] = lay[q][i]
              \/ q = p /\ i = Len(lay[p]) + 1 /\ more[q][i] = e
<1>1. lay[p] \in Seq(Extent) /\ Append(lay[p], e) \in Seq(Extent)
  BY DEF Layout
<1>2. more \in Layout
  BY <1>1 DEF Layout
<1>3. ASSUME NEW q \in Partitions, NEW i \in DOMAIN more[q]
      PROVE  \/ i \in DOMAIN lay[q] /\ more[q][i] = lay[q][i]
             \/ q = p /\ i = Len(lay[p]) + 1 /\ more[q][i] = e
  <2>1. CASE q = p
    <3>1. more[q] = Append(lay[p], e)
      BY <2>1 DEF Layout
    <3> QED
      BY <1>1, <1>3, <2>1, <3>1
  <2>2. CASE q # p
    BY <1>3, <2>2 DEF Layout
  <2> QED
    BY <2>1, <2>2
<1> QED
  BY <1>2, <1>3

\* The new extent is apart from every old one if it goes behind them all.
LEMMA AppendedSound ==
  ASSUME NEW lay \in Layout, InDevice(lay), NoOverlap(lay),
         NEW p \in Partitions, NEW e \in Extent, e.linear,
         FirstSector <= e.at, e.at + e.n <= DevSectors,
         \A q \in Partitions : \A i \in DOMAIN lay[q] :
           lay[q][i].linear => lay[q][i].at + lay[q][i].n <= e.at,
         NEW more, more = [lay EXCEPT ![p] = Append(@, e)]
  PROVE  more \in Layout /\ InDevice(more) /\ NoOverlap(more)
<1>0. lay[p] \in Seq(Extent) /\ Append(lay[p], e) \in Seq(Extent)
  BY DEF Layout
<1>1. more \in Layout
  BY <1>0 DEF Layout
<1>2. ASSUME NEW q \in Partitions, NEW i \in DOMAIN more[q]
      PROVE  \/ i \in DOMAIN lay[q] /\ more[q][i] = lay[q][i]
             \/ q = p /\ i = Len(lay[p]) + 1 /\ more[q][i] = e
  BY AppendedExtents
<1>3. InDevice(more)
  BY <1>2 DEF InDevice
<1>4. NoOverlap(more)
  BY <1>2 DEF NoOverlap, Apart
<1> QED
  BY <1>1, <1>3, <1>4

LEMMA GrowSound ==
  ASSUME Sound, NEW p \in Partitions, NEW want \in Wanted, Grow(p, want)
  PROVE  Sound'
<1>1. PICK e \in Extent :
        /\ e.linear
        /\ FirstSector <= e.at /\ e.at + e.n <= DevSectors
        /\ \A q \in Partitions : \A i \in DOMAIN layout[q] :
             layout[q][i].linear => layout[q][i].at + layout[q][i].n <= e.at
        /\ layout' = [layout EXCEPT ![p] = Append(@, e)]
  BY GrowEffect
<1>2. layout \in Layout /\ InDevice(layout) /\ NoOverlap(layout)
  BY DEF Sound
<1>3. layout' \in Layout /\ InDevice(layout') /\ NoOverlap(layout')
  BY <1>1, <1>2, AppendedSound
<1>4. InDevice(layout)' /\ NoOverlap(layout)'
  BY <1>3 DEF InDevice, NoOverlap
<1> QED
  BY <1>3, <1>4 DEF Sound

\* No sector of super ever belongs to two extents, and none lies beyond it: what
\* patch_slot promises of the table it writes.
THEOREM LayoutSound == LayoutSpec => []Sound
<1>1. LayoutInit => Sound
  BY DEF LayoutInit, Sound
<1>2. Sound /\ [LayoutNext]_layout => Sound'
  <2>1. ASSUME Sound, UNCHANGED layout
        PROVE  Sound'
    BY <2>1 DEF Sound
  <2> QED
    BY GrowSound, <2>1 DEF LayoutNext
<1> QED
  BY <1>1, <1>2, PTL DEF LayoutSpec

\* A partition's old extents stay where they were, in front of the new ones: the
\* images on them stay readable.
THEOREM LayoutKeepsData == LayoutSpec => KeepsData
<1>1. ASSUME Sound, NEW p \in Partitions, NEW want \in Wanted, Grow(p, want)
      PROVE  \A q \in Partitions : IsPrefix(layout[q], layout'[q])
  <2>1. PICK e \in Extent : layout' = [layout EXCEPT ![p] = Append(@, e)]
    BY <1>1, GrowEffect
  <2>2. ASSUME NEW q \in Partitions
        PROVE  IsPrefix(layout[q], layout'[q])
    <3>1. layout[q] \in Seq(Extent)
      BY <1>1 DEF Sound, Layout
    <3>2. layout'[q] \in {layout[q], Append(layout[q], e)}
      BY <1>1, <2>1 DEF Sound, Layout
    <3>3. IsPrefix(layout[q], layout[q])
      BY <3>1 DEF IsPrefix
    <3>4. IsPrefix(layout[q], Append(layout[q], e))
      BY <3>1 DEF IsPrefix
    <3> QED
      BY <3>2, <3>3, <3>4
  <2> QED
    BY <2>2
<1>2. Sound /\ [LayoutNext]_layout => [DataKept]_layout
  BY <1>1 DEF LayoutNext, DataKept
<1> QED
  BY LayoutSound, <1>2, PTL DEF LayoutSpec, KeepsData

\* flash-logical-via-edl.py, which refuses extents that are not on the device's
\* sectors, is not made to refuse a partition by growing it.
THEOREM LayoutStaysOnSectors == LayoutSpec => StaysOnSectors
<1>1. ASSUME Sound, NEW p \in Partitions, NEW want \in Wanted, Grow(p, want), OnSectors(layout)
      PROVE  OnSectors(layout')
  <2>1. PICK e \in Extent :
          /\ e.at % Align = 0 /\ e.n % Align = 0
          /\ layout' = [layout EXCEPT ![p] = Append(@, e)]
    BY <1>1, GrowEffect
  <2>2. \A q \in Partitions : \A i \in DOMAIN layout'[q] :
          \/ i \in DOMAIN layout[q] /\ layout'[q][i] = layout[q][i]
          \/ layout'[q][i] = e
    BY <1>1, <2>1, AppendedExtents DEF Sound
  <2> QED
    BY <1>1, <2>1, <2>2 DEF OnSectors
<1>2. Sound /\ [LayoutNext]_layout => [OnSectors(layout) => OnSectors(layout')]_layout
  BY <1>1 DEF LayoutNext
<1> QED
  BY LayoutSound, <1>2, PTL DEF LayoutSpec, StaysOnSectors

-----------------------------------------------------------------------------
(* Induction, for sets of numbers. *)

\* Among finite sets there is one that no other is a part of.
LEMMA SmallestSet ==
  ASSUME NEW T, NEW x0 \in T, \A x \in T : IsFiniteSet(x)
  PROVE  \E x \in T : \A y \in T : y \subseteq x => y = x
<1> DEFINE U == UNION T
<1>1. IsWellFoundedOn(StrictSubsetOrdering(U), FiniteSubsetsOf(U))
  BY FS_StrictSubsetOrderingWellFounded
<1>2. T \subseteq FiniteSubsetsOf(U)
  BY DEF FiniteSubsetsOf
<1>3. \E x \in T : \A y \in T : ~ (<<y, x>> \in StrictSubsetOrdering(U))
  BY <1>1, <1>2, WFMin
<1>4. \A x, y \in T : y \subseteq x /\ y # x => <<y, x>> \in StrictSubsetOrdering(U)
  BY DEF StrictSubsetOrdering
<1> QED
  BY <1>3, <1>4

LEMMA LeastNumber ==
  ASSUME NEW S \in SUBSET Nat, NEW n0 \in S
  PROVE  \E m \in S : \A k \in S : m <= k
<1> DEFINE T == {1 .. n : n \in S}
<1>1. \A x \in T : IsFiniteSet(x)
  BY FS_Interval
<1>2. 1 .. n0 \in T
  OBVIOUS
<1> HIDE DEF T
<1>3. PICK x \in T : \A y \in T : y \subseteq x => y = x
  BY <1>1, <1>2, SmallestSet
<1>4. PICK m \in S : x = 1 .. m
  BY DEF T
<1>5. ASSUME NEW k \in S, k < m PROVE FALSE
  <2>1. 1 .. k \subseteq 1 .. m /\ 1 .. k \in T
    BY <1>5 DEF T
  <2>2. 1 .. k = 1 .. m
    BY <2>1, <1>3, <1>4
  <2>3. m \in 1 .. m /\ m \notin 1 .. k
    BY <1>5
  <2> QED
    BY <2>2, <2>3
<1> QED
  BY <1>5

LEMMA NatInduct ==
  ASSUME NEW S, 0 \in S, \A n \in Nat : n \in S => n + 1 \in S
  PROVE  Nat \subseteq S
<1> SUFFICES ASSUME NEW n0 \in Nat \ S PROVE FALSE
  OBVIOUS
<1>1. PICK m \in Nat \ S : \A k \in Nat \ S : m <= k
  <2> DEFINE R == Nat \ S
  <2>1. R \in SUBSET Nat /\ n0 \in R
    OBVIOUS
  <2> HIDE DEF R
  <2>2. \E m \in R : \A k \in R : m <= k
    BY <2>1, LeastNumber
  <2> QED
    BY <2>2 DEF R
<1>2. m # 0 /\ m - 1 \in Nat
  OBVIOUS
<1>3. m - 1 \in S
  BY <1>1, <1>2
<1> QED
  BY <1>2, <1>3

(* What a recursive function needs to be what it is defined to be: a function *)
(* that satisfies its equation exists.                                       *)
Recurses(g, N, zero, step) ==
  g[0] = zero /\ \A n \in 1 .. N : g[n] = step[n][g[n-1]]

LEMMA RecursionExists ==
  ASSUME NEW N \in Nat, NEW S, NEW zero \in S, NEW step \in [1 .. N -> [S -> S]]
  PROVE  \E g \in [0 .. N -> S] : Recurses(g, N, zero, step)
<1> DEFINE Good(m, g) == /\ g \in [0 .. m -> S] /\ g[0] = zero
                         /\ \A n \in 1 .. m : g[n] = step[n][g[n-1]]
           T == {m \in Nat : m <= N => \E g : Good(m, g)}
<1>1. 0 \in T
  <2>1. Good(0, [k \in 0 .. 0 |-> zero])
    OBVIOUS
  <2> QED
    BY <2>1
<1>2. ASSUME NEW m \in Nat, m \in T PROVE m + 1 \in T
  <2> SUFFICES ASSUME m + 1 <= N PROVE \E g : Good(m + 1, g)
    OBVIOUS
  <2>1. PICK g : Good(m, g)
    BY <1>2
  <2> DEFINE h == [k \in 0 .. m + 1 |-> IF k = m + 1 THEN step[m + 1][g[m]] ELSE g[k]]
  <2>2. step[m + 1][g[m]] \in S
    BY <2>1
  <2>3. h \in [0 .. m + 1 -> S] /\ h[0] = zero
    BY <2>1, <2>2
  <2>4. ASSUME NEW n \in 1 .. m + 1 PROVE h[n] = step[n][h[n-1]]
    <3>1. CASE n = m + 1
      <4>1. n - 1 = m /\ h[n] = step[m + 1][g[m]] /\ h[m] = g[m]
        BY <3>1
      <4> QED
        BY <3>1, <4>1
    <3>2. CASE n \in 1 .. m
      <4>1. h[n] = g[n] /\ h[n-1] = g[n-1]
        BY <3>2
      <4> QED
        BY <2>1, <3>2, <4>1
    <3> QED
      BY <3>1, <3>2
  <2> HIDE DEF h
  <2>5. Good(m + 1, h)
    BY <2>3, <2>4
  <2> QED
    BY <2>5
<1> HIDE DEF T
<1>3. N \in T
  BY <1>1, <1>2, NatInduct
<1> QED
  BY <1>3 DEF T, Recurses

LEMMA MaxIsGreatest ==
  ASSUME NEW B \in Nat, NEW S \in SUBSET (0 .. B), S # {}
  PROVE  Max(S) \in S /\ \A x \in S : x <= Max(S)
<1> DEFINE R == {n \in Nat : B - n \in S}
<1>1. PICK x \in S : TRUE
  OBVIOUS
<1>2. B - x \in R
  OBVIOUS
<1>3. PICK m \in R : \A k \in R : m <= k
  <2>1. R \in SUBSET Nat
    OBVIOUS
  <2> HIDE DEF R
  <2> QED
    BY <1>2, <2>1, LeastNumber
<1>4. \A y \in S : B - m >= y
  <2> SUFFICES ASSUME NEW y \in S PROVE B - m >= y
    OBVIOUS
  <2>1. y \in Nat /\ B - y \in R /\ m \in Nat
    OBVIOUS
  <2>2. m <= B - y
    BY <1>3, <2>1
  <2> QED
    BY <2>1, <2>2
<1>5. B - m \in S
  OBVIOUS
<1>6. \E y \in S : \A z \in S : y >= z
  BY <1>4, <1>5
<1>7. Max(S) \in S /\ \A z \in S : Max(S) >= z
  <2> HIDE DEF R
  <2> QED
    BY <1>6 DEF Max
<1>8. \A z \in S : z \in Int
  OBVIOUS
<1> QED
  BY <1>7, <1>8

-----------------------------------------------------------------------------
(* Sums. *)

Sums(f, nums) ==
  /\ f \in [0 .. Len(nums) -> Nat]
  /\ f[0] = 0 /\ \A i \in 1 .. Len(nums) : f[i] = f[i - 1] + nums[i]

LEMMA TotalSums ==
  ASSUME NEW nums \in Seq(Nat)
  PROVE  \E f : Sums(f, nums) /\ Total(nums) = f[Len(nums)]
<1> DEFINE N == Len(nums)
           step == [n \in 1 .. N |-> [x \in Nat |-> x + nums[n]]]
           Body(g) == [i \in 0 .. N |-> IF i = 0 THEN 0 ELSE g[i - 1] + nums[i]]
           sum == CHOOSE g : g = Body(g)
<1>0. N \in Nat /\ \A n \in 1 .. N : nums[n] \in Nat
  OBVIOUS
<1>1. PICK g \in [0 .. N -> Nat] : Recurses(g, N, 0, step)
  <2>1. step \in [1 .. N -> [Nat -> Nat]]
    BY <1>0
  <2>2. N \in Nat /\ 0 \in Nat
    BY <1>0
  <2> HIDE DEF step, N
  <2> QED
    BY <2>1, <2>2, RecursionExists
<1>2. g = Body(g)
  <2>1. ASSUME NEW n \in 1 .. N PROVE g[n] = g[n-1] + nums[n]
    <3>1. n - 1 \in 0 .. N
      BY <1>0
    <3>2. g[n-1] \in Nat
      BY <3>1
    <3> QED
      BY <1>1, <3>2 DEF Recurses
  <2>2. g[0] = 0 /\ g = [n \in 0 .. N |-> g[n]]
    BY <1>1 DEF Recurses
  <2>3. \A n \in 0 .. N : g[n] = IF n = 0 THEN 0 ELSE g[n-1] + nums[n]
    <3>1. \A n \in 0 .. N : n = 0 \/ n \in 1 .. N
      BY <1>0
    <3> QED
      BY <2>1, <2>2, <3>1
  <2> QED
    BY <2>2, <2>3
<1>3. sum = Body(sum)
  BY <1>2
<1>4. Total(nums) = sum[N]
  BY DEF Total
<1> HIDE DEF sum
<1>5. sum[0] = 0 /\ \A n \in 1 .. N : sum[n] = sum[n-1] + nums[n]
  BY <1>0, <1>3
<1>6. sum = [n \in 0 .. N |-> sum[n]]
  BY <1>3
<1> HIDE DEF Body, step
<1> DEFINE T == {n \in Nat : n <= N => sum[n] \in Nat}
<1>7. 0 \in T
  BY <1>5
<1>8. ASSUME NEW n \in Nat, n \in T PROVE n + 1 \in T
  <2> SUFFICES ASSUME n + 1 <= N PROVE sum[n + 1] \in Nat
    OBVIOUS
  <2>1. n + 1 \in 1 .. N /\ (n + 1) - 1 = n /\ sum[n] \in Nat
    BY <1>0, <1>8
  <2>2. sum[n + 1] = sum[n] + nums[n + 1]
    BY <1>5, <2>1
  <2> QED
    BY <1>0, <2>1, <2>2
<1> HIDE DEF T
<1>9. \A n \in 0 .. N : sum[n] \in Nat
  <2>1. Nat \subseteq T
    BY <1>7, <1>8, NatInduct
  <2>2. \A n \in 0 .. N : n \in Nat /\ n <= N
    BY <1>0
  <2> QED
    BY <2>1, <2>2 DEF T
<1>10. Sums(sum, nums)
  BY <1>5, <1>6, <1>9 DEF Sums
<1> QED
  BY <1>4, <1>10

\* A sum is whatever adds up as it does.
LEMMA TotalUnique ==
  ASSUME NEW nums \in Seq(Nat), NEW f, Sums(f, nums)
  PROVE  Total(nums) = f[Len(nums)] /\ Total(nums) \in Nat
<1>1. PICK g : Sums(g, nums) /\ Total(nums) = g[Len(nums)]
  BY TotalSums
<1> DEFINE N == Len(nums)
           T == {n \in Nat : n <= N => f[n] = g[n]}
<1>2. N \in Nat
  OBVIOUS
<1>3. 0 \in T
  BY <1>1 DEF Sums
<1>4. ASSUME NEW n \in Nat, n \in T PROVE n + 1 \in T
  <2> SUFFICES ASSUME n + 1 <= N PROVE f[n + 1] = g[n + 1]
    OBVIOUS
  <2>1. n + 1 \in 1 .. N /\ (n + 1) - 1 = n /\ f[n] = g[n]
    BY <1>2, <1>4
  <2> QED
    BY <1>1, <2>1 DEF Sums
<1> HIDE DEF T
<1>5. f[N] = g[N]
  <2>1. N \in T
    BY <1>2, <1>3, <1>4, NatInduct
  <2> QED
    BY <1>2, <2>1 DEF T
<1>6. N \in 0 .. N
  BY <1>2
<1>7. g[N] \in Nat
  BY <1>1, <1>6 DEF Sums
<1> QED
  BY <1>1, <1>5, <1>7

LEMMA TotalNat ==
  ASSUME NEW nums \in Seq(Nat)
  PROVE  Total(nums) \in Nat
  BY TotalSums, TotalUnique

\* A number that is d greater makes the sum d greater.
LEMMA TotalBump ==
  ASSUME NEW nums \in Seq(Nat), NEW more \in Seq(Nat), Len(more) = Len(nums),
         NEW k \in 1 .. Len(nums), NEW d \in Nat, more[k] = nums[k] + d,
         \A i \in 1 .. Len(nums) : i # k => more[i] = nums[i]
  PROVE  Total(more) = Total(nums) + d
<1>1. PICK f : Sums(f, nums) /\ Total(nums) = f[Len(nums)]
  BY TotalSums
<1> DEFINE N == Len(nums)
           g == [i \in 0 .. N |-> f[i] + IF i < k THEN 0 ELSE d]
<1>2. N \in Nat /\ k \in Nat /\ \A n \in 1 .. N : nums[n] \in Nat
  <2>1. \A s \in Seq(Nat) : Len(s) \in Nat /\ \A n \in 1 .. Len(s) : s[n] \in Nat
    OBVIOUS
  <2> QED
    BY <2>1
<1>3. \A i \in 0 .. N : f[i] \in Nat
  BY <1>1 DEF Sums
<1>4. g \in [0 .. N -> Nat] /\ g[0] = 0
  <2>1. 0 \in 0 .. N /\ f[0] = 0 /\ 0 < k
    BY <1>1, <1>2 DEF Sums
  <2> QED
    BY <1>2, <1>3, <2>1
<1>5. ASSUME NEW i \in 1 .. N PROVE g[i] = g[i - 1] + more[i]
  <2>1. i \in 0 .. N /\ i - 1 \in 0 .. N /\ i \in Int
    BY <1>2
  <2>2. f[i] = f[i - 1] + nums[i]
    BY <1>1 DEF Sums
  <2>3. f[i - 1] \in Nat /\ nums[i] \in Nat
    BY <1>2, <1>3, <2>1
  <2>4. /\ g[i] = f[i] + IF i < k THEN 0 ELSE d
        /\ g[i - 1] = f[i - 1] + IF i - 1 < k THEN 0 ELSE d
    BY <2>1
  <2> HIDE DEF g
  <2>5. CASE i = k
    BY <1>2, <2>1, <2>2, <2>3, <2>4, <2>5
  <2>6. CASE i # k
    <3>1. more[i] = nums[i] /\ k \in Int
      BY <1>2, <2>6
    <3>2. i < k <=> i - 1 < k
      BY <2>1, <2>6, <3>1
    <3>3. CASE i < k
      BY <2>2, <2>3, <2>4, <3>1, <3>2, <3>3
    <3>4. CASE ~(i < k)
      BY <2>2, <2>3, <2>4, <3>1, <3>2, <3>4
    <3> QED
      BY <3>3, <3>4
  <2> QED
    BY <2>5, <2>6
<1>6. g[N] = f[N] + d
  <2>1. N \in 0 .. N /\ ~ N < k
    BY <1>2
  <2> QED
    BY <2>1
<1> HIDE DEF g
<1>7. Sums(g, more)
  BY <1>4, <1>5 DEF Sums
<1>8. Total(more) = g[Len(more)]
  BY <1>7, TotalUnique
<1> QED
  BY <1>1, <1>6, <1>8

LEMMA TotalAppend ==
  ASSUME NEW nums \in Seq(Nat), NEW d \in Nat
  PROVE  Total(Append(nums, d)) = Total(nums) + d
<1>1. PICK f : Sums(f, nums) /\ Total(nums) = f[Len(nums)]
  BY TotalSums
<1> DEFINE N == Len(nums)
           more == Append(nums, d)
           g == [i \in 0 .. N + 1 |-> IF i <= N THEN f[i] ELSE f[N] + d]
<1>2. N \in Nat /\ \A n \in 1 .. N : nums[n] \in Nat
  OBVIOUS
<1>3. \A i \in 0 .. N : f[i] \in Nat
  BY <1>1 DEF Sums
<1>4. /\ more \in Seq(Nat) /\ Len(more) = N + 1 /\ more[N + 1] = d
      /\ \A i \in 1 .. N : more[i] = nums[i]
  OBVIOUS
<1>5. g \in [0 .. N + 1 -> Nat] /\ g[0] = 0
  <2>1. N \in 0 .. N /\ 0 \in 0 .. N + 1 /\ f[0] = 0
    BY <1>1, <1>2 DEF Sums
  <2>2. f[N] \in Nat
    BY <1>3, <2>1
  <2>3. g[0] = 0
    BY <1>2, <2>1
  <2>4. ASSUME NEW i \in 0 .. N + 1 PROVE g[i] \in Nat
    <3>1. i <= N => i \in 0 .. N
      BY <1>2
    <3> QED
      BY <1>3, <2>2, <3>1
  <2> QED
    BY <2>3, <2>4
<1> HIDE DEF more
<1>6. ASSUME NEW i \in 1 .. N + 1 PROVE g[i] = g[i - 1] + more[i]
  <2>1. i \in 0 .. N + 1 /\ i - 1 \in 0 .. N + 1 /\ i \in Int /\ i - 1 <= N
    BY <1>2
  <2>2. g[i - 1] = f[i - 1] /\ g[i] = IF i <= N THEN f[i] ELSE f[N] + d
    BY <2>1
  <2> HIDE DEF g
  <2>3. CASE i = N + 1
    BY <1>2, <1>4, <2>1, <2>2, <2>3
  <2>4. CASE i \in 1 .. N
    <3>1. f[i] = f[i - 1] + nums[i]
      BY <1>1, <2>4 DEF Sums
    <3> QED
      BY <1>4, <2>2, <2>4, <3>1
  <2> QED
    BY <1>2, <2>3, <2>4
<1>7. g[N + 1] = f[N] + d
  BY <1>2
<1> HIDE DEF g
<1>8. Sums(g, more)
  BY <1>4, <1>5, <1>6 DEF Sums
<1>9. Total(more) = g[Len(more)]
  BY <1>4, <1>8, TotalUnique
<1> QED
  BY <1>1, <1>4, <1>7, <1>9 DEF more

-----------------------------------------------------------------------------
(* Sizes. *)

Sizes(exts) == [i \in DOMAIN exts |-> exts[i].n]

LEMMA SizesAre ==
  ASSUME NEW exts \in Seq(Extent)
  PROVE  Sizes(exts) \in Seq(Nat) /\ Len(Sizes(exts)) = Len(exts)
<1>0. \A i \in 1 .. Len(exts) : exts[i] \in Extent
  OBVIOUS
<1>1. \A i \in 1 .. Len(exts) : exts[i].n \in Nat
  BY <1>0 DEF Extent
<1>2. Sizes(exts) = [i \in 1 .. Len(exts) |-> exts[i].n]
  BY DEF Sizes
<1>3. Len(exts) \in Nat
  OBVIOUS
<1> QED
  BY <1>1, <1>2, <1>3

LEMMA SizeNat ==
  ASSUME NEW exts \in Seq(Extent)
  PROVE  SizeOf(exts) \in Nat
<1>1. SizeOf(exts) = Total(Sizes(exts))
  BY DEF SizeOf, Sizes
<1> QED
  BY <1>1, SizesAre, TotalNat

LEMMA SizeAppend ==
  ASSUME NEW exts \in Seq(Extent), NEW e \in Extent
  PROVE  SizeOf(Append(exts, e)) = SizeOf(exts) + e.n
<1>1. Append(exts, e) \in Seq(Extent) /\ e.n \in Nat
  BY DEF Extent
<1>2. Sizes(Append(exts, e)) = Append(Sizes(exts), e.n)
  <2> DEFINE s == Sizes(Append(exts, e))
             t == Append(Sizes(exts), e.n)
  <2>0. Len(Append(exts, e)) = Len(exts) + 1 /\ Len(exts) \in Nat
    OBVIOUS
  <2>1. s \in Seq(Nat) /\ Len(s) = Len(exts) + 1
    BY <1>1, <2>0, SizesAre
  <2>2. t \in Seq(Nat) /\ Len(t) = Len(exts) + 1
    BY <1>1, SizesAre
  <2>3. ASSUME NEW i \in 1 .. Len(s) PROVE s[i] = t[i]
    <3>1. i \in DOMAIN Append(exts, e) /\ s[i] = Append(exts, e)[i].n
      BY <2>1, <2>3, <1>1 DEF Sizes
    <3>2. CASE i \in 1 .. Len(exts)
      <4>1. Append(exts, e)[i] = exts[i] /\ Sizes(exts)[i] = exts[i].n
        BY <3>2 DEF Sizes
      <4>2. t[i] = Sizes(exts)[i]
        BY <1>1, <3>2, SizesAre
      <4> QED
        BY <3>1, <4>1, <4>2
    <3>3. CASE i = Len(exts) + 1
      <4>1. Append(exts, e)[i] = e
        BY <3>3
      <4>2. t[i] = e.n
        BY <1>1, <3>3, SizesAre
      <4> QED
        BY <3>1, <4>1, <4>2
    <3>4. i \in 1 .. Len(exts) \/ i = Len(exts) + 1
      BY <2>0, <2>1
    <3> QED
      BY <3>2, <3>3, <3>4
  <2> HIDE DEF s, t
  <2>4. s = t
    BY <2>1, <2>2, <2>3
  <2> QED
    BY <2>4 DEF s, t
<1>3. SizeOf(Append(exts, e)) = Total(Sizes(Append(exts, e))) /\ SizeOf(exts) = Total(Sizes(exts))
  BY DEF SizeOf, Sizes
<1> QED
  BY <1>1, <1>2, <1>3, SizesAre, TotalAppend

-----------------------------------------------------------------------------
(* The tables. *)

LEMMA Concat ==
  ASSUME NEW S, NEW s \in Seq(S), NEW t \in Seq(S)
  PROVE  /\ s \o t \in Seq(S) /\ Len(s \o t) = Len(s) + Len(t)
         /\ \A x \in 1 .. Len(s) : (s \o t)[x] = s[x]
         /\ \A x \in 1 .. Len(t) : (s \o t)[Len(s) + x] = t[x]
<1>1. Len(s) \in Nat /\ Len(t) \in Nat
  OBVIOUS
<1>2. s \o t \in Seq(S) /\ Len(s \o t) = Len(s) + Len(t)
  BY ConcatProperties
<1>3. \A i \in 1 .. Len(s) + Len(t) : (s \o t)[i] = IF i <= Len(s) THEN s[i] ELSE t[i - Len(s)]
  BY ConcatProperties
<1>4. ASSUME NEW x \in 1 .. Len(s) PROVE (s \o t)[x] = s[x]
  <2>1. x \in 1 .. Len(s) + Len(t) /\ x <= Len(s)
    BY <1>1
  <2> QED
    BY <1>3, <2>1
<1>5. ASSUME NEW x \in 1 .. Len(t) PROVE (s \o t)[Len(s) + x] = t[x]
  <2>1. Len(s) + x \in 1 .. Len(s) + Len(t) /\ ~ Len(s) + x <= Len(s) /\ (Len(s) + x) - Len(s) = x
    BY <1>1
  <2> QED
    BY <1>3, <2>1
<1> QED
  BY <1>2, <1>4, <1>5

LEMMA NewExtsAre ==
  ASSUME NEW plan \in Seq(Seq(Extent))
  PROVE  /\ NewExts(plan)[0] = <<>>
         /\ \A i \in 1 .. Len(plan) : NewExts(plan)[i] = NewExts(plan)[i - 1] \o plan[i]
         /\ \A i \in 0 .. Len(plan) : NewExts(plan)[i] \in Seq(Extent)
<1> DEFINE N == Len(plan)
           E == Seq(Extent)
           step == [n \in 1 .. N |-> [x \in E |-> x \o plan[n]]]
           Body(g) == [i \in 0 .. N |-> IF i = 0 THEN <<>> ELSE g[i - 1] \o plan[i]]
           new == CHOOSE g : g = Body(g)
<1>0. N \in Nat /\ \A n \in 1 .. N : plan[n] \in E
  OBVIOUS
<1>a. \A x, y \in E : x \o y \in E
  OBVIOUS
<1>b. <<>> \in E
  OBVIOUS
<1> HIDE DEF E
<1>1. PICK g \in [0 .. N -> E] : Recurses(g, N, <<>>, step)
  <2>1. step \in [1 .. N -> [E -> E]]
    BY <1>0, <1>a
  <2> HIDE DEF step, N
  <2> QED
    BY <2>1, <1>0, <1>b, RecursionExists
<1>2. g = Body(g)
  <2>1. ASSUME NEW n \in 1 .. N PROVE g[n] = g[n-1] \o plan[n]
    <3>1. n - 1 \in 0 .. N
      BY <1>0
    <3>2. g[n-1] \in E
      BY <3>1
    <3> QED
      BY <1>1, <3>2 DEF Recurses
  <2>2. g[0] = <<>> /\ g = [n \in 0 .. N |-> g[n]]
    BY <1>1 DEF Recurses
  <2>3. \A n \in 0 .. N : g[n] = IF n = 0 THEN <<>> ELSE g[n-1] \o plan[n]
    <3>1. \A n \in 0 .. N : n = 0 \/ n \in 1 .. N
      BY <1>0
    <3> QED
      BY <2>1, <2>2, <3>1
  <2> QED
    BY <2>2, <2>3
<1>3. new = Body(new)
  BY <1>2
<1>4. NewExts(plan) = new
  BY DEF NewExts
<1> HIDE DEF new
<1>5. new[0] = <<>> /\ \A n \in 1 .. N : new[n] = new[n-1] \o plan[n]
  <2>1. 0 \in 0 .. N /\ \A n \in 1 .. N : n \in 0 .. N /\ n # 0
    BY <1>0
  <2>2. \A n \in 0 .. N : new[n] = IF n = 0 THEN <<>> ELSE new[n-1] \o plan[n]
    BY <1>3
  <2> QED
    BY <2>1, <2>2
<1> HIDE DEF Body, step
<1> DEFINE T == {n \in Nat : n <= N => new[n] \in E}
<1>6. 0 \in T
  BY <1>5, <1>b
<1>7. ASSUME NEW n \in Nat, n \in T PROVE n + 1 \in T
  <2> SUFFICES ASSUME n + 1 <= N PROVE new[n + 1] \in E
    OBVIOUS
  <2>1. n + 1 \in 1 .. N /\ (n + 1) - 1 = n /\ new[n] \in E
    BY <1>0, <1>7
  <2>2. new[n + 1] = new[n] \o plan[n + 1]
    BY <1>5, <2>1
  <2> QED
    BY <1>0, <1>a, <2>1, <2>2
<1> HIDE DEF T
<1>8. \A n \in 0 .. N : new[n] \in E
  <2>1. Nat \subseteq T
    BY <1>6, <1>7, NatInduct
  <2>2. \A n \in 0 .. N : n \in Nat /\ n <= N
    BY <1>0
  <2> QED
    BY <2>1, <2>2 DEF T
<1> QED
  BY <1>4, <1>5, <1>8 DEF E

\* The extents of the first i partitions stay where they are put.
LEMMA NewExtsGrow ==
  ASSUME NEW plan \in Seq(Seq(Extent)), NEW i \in 0 .. Len(plan)
  PROVE  \A k \in i .. Len(plan) :
           /\ Len(NewExts(plan)[i]) <= Len(NewExts(plan)[k])
           /\ \A x \in 1 .. Len(NewExts(plan)[i]) : NewExts(plan)[k][x] = NewExts(plan)[i][x]
<1> DEFINE N == Len(plan)
           new == NewExts(plan)
           Keeps(k) == /\ Len(new[i]) <= Len(new[k])
                       /\ \A x \in 1 .. Len(new[i]) : new[k][x] = new[i][x]
           T == {d \in Nat : i + d <= N => Keeps(i + d)}
<1>0. /\ N \in Nat /\ i \in Nat
      /\ \A n \in 1 .. N : new[n] = new[n - 1] \o plan[n] /\ plan[n] \in Seq(Extent)
      /\ \A n \in 0 .. N : new[n] \in Seq(Extent)
  <2>1. N \in Nat /\ i \in Nat /\ \A n \in 1 .. N : plan[n] \in Seq(Extent)
    OBVIOUS
  <2> QED
    BY <2>1, NewExtsAre
<1> HIDE DEF N, new
<1>1. 0 \in T
  <2>1. i + 0 = i /\ Len(new[i]) \in Nat
    BY <1>0 DEF N
  <2> QED
    BY <2>1
<1>2. ASSUME NEW d \in Nat, d \in T PROVE d + 1 \in T
  <2> SUFFICES ASSUME i + d + 1 <= N PROVE Keeps(i + (d + 1))
    BY <1>0
  <2> DEFINE k == i + d
  <2>1. k \in 0 .. N /\ k + 1 \in 1 .. N /\ i + (d + 1) = k + 1 /\ (k + 1) - 1 = k
    BY <1>0
  <2>2. Keeps(k)
    BY <1>0, <1>2
  <2> HIDE DEF k
  <2>3. new[k + 1] = new[k] \o plan[k + 1] /\ plan[k + 1] \in Seq(Extent) /\ new[k] \in Seq(Extent)
    BY <1>0, <2>1
  <2>4. /\ Len(new[k + 1]) = Len(new[k]) + Len(plan[k + 1])
        /\ \A x \in 1 .. Len(new[k]) : new[k + 1][x] = new[k][x]
    <3> DEFINE a == new[k]
               b == plan[k + 1]
    <3>1. a \in Seq(Extent) /\ b \in Seq(Extent) /\ new[k + 1] = a \o b
      BY <2>3
    <3> HIDE DEF a, b
    <3>2. Len(a \o b) = Len(a) + Len(b) /\ \A x \in 1 .. Len(a) : (a \o b)[x] = a[x]
      BY <3>1, Concat
    <3> QED
      BY <3>1, <3>2 DEF a, b
  <2>5. Len(new[i]) \in Nat /\ Len(new[k]) \in Nat /\ Len(plan[k + 1]) \in Nat
    <3>1. i \in 0 .. N
      BY DEF N
    <3>2. new[i] \in Seq(Extent)
      BY <1>0, <3>1
    <3> QED
      BY <2>3, <3>2
  <2>6. Keeps(k + 1)
    <3>1. Len(new[i]) <= Len(new[k + 1])
      <4> DEFINE a == Len(new[i])
                 b == Len(new[k])
                 c == Len(plan[k + 1])
                 z == Len(new[k + 1])
      <4>1. a <= b /\ z = b + c
        BY <2>2, <2>4
      <4>2. a \in Nat /\ b \in Nat /\ c \in Nat
        BY <2>5
      <4> HIDE DEF a, b, c, z
      <4>3. a <= z
        BY <4>1, <4>2
      <4> QED
        BY <4>3 DEF a, z
    <3>2. ASSUME NEW x \in 1 .. Len(new[i]) PROVE new[k + 1][x] = new[i][x]
      <4>1. x \in 1 .. Len(new[k])
        BY <2>2, <2>5
      <4> QED
        BY <2>2, <2>4, <4>1
    <3> QED
      BY <3>1, <3>2
  <2> QED
    BY <2>1, <2>6
<1> HIDE DEF T, Keeps
<1>3. \A d \in Nat : d \in T
  BY <1>1, <1>2, NatInduct
<1>4. \A k \in i .. N : Keeps(k)
  <2> TAKE k \in i .. N
  <2>1. k - i \in Nat /\ i + (k - i) = k /\ k <= N
    BY <1>0
  <2>2. k - i \in T
    BY <1>3, <2>1
  <2> QED
    BY <2>1, <2>2 DEF T
<1> QED
  BY <1>4 DEF Keeps, N, new

LEMMA TableIs ==
  ASSUME NEW m \in Table
  PROVE  /\ m.magic \in BOOLEAN /\ m.exts \in Seq(Extent)
         /\ Len(m.parts) \in Nat /\ DOMAIN m.parts = 1 .. Len(m.parts)
         /\ m.parts \in Seq([name: Partitions, first: Nat, num: Nat])
         /\ \A i \in DOMAIN m.parts : m.parts[i] \in [name: Partitions, first: Nat, num: Nat]
         /\ m = [magic |-> m.magic, parts |-> m.parts, exts |-> m.exts]
<1>1. /\ m.magic \in BOOLEAN /\ m.exts \in Seq(Extent)
      /\ m.parts \in Seq([name: Partitions, first: Nat, num: Nat])
      /\ m = [magic |-> m.magic, parts |-> m.parts, exts |-> m.exts]
  BY DEF Table
<1> DEFINE P == [name: Partitions, first: Nat, num: Nat]
           s == m.parts
<1>2. s \in Seq(P)
  BY <1>1
<1> HIDE DEF P, s
<1>3. Len(s) \in Nat /\ DOMAIN s = 1 .. Len(s) /\ \A i \in DOMAIN s : s[i] \in P
  BY <1>2
<1> QED
  BY <1>1, <1>3 DEF P, s

LEMMA PlanIs ==
  ASSUME NEW m \in Table, Named(m)
  PROVE  /\ Plan(m) \in Seq(Seq(Extent)) /\ Len(Plan(m)) = Len(m.parts)
         /\ DOMAIN Plan(m) = DOMAIN m.parts
         /\ \A i \in DOMAIN m.parts : Plan(m)[i] \in Seq(Extent)
<1> DEFINE cut(i) == SubSeq(m.exts, m.parts[i].first + 1, m.parts[i].first + m.parts[i].num)
           E == Seq(Extent)
<1>1. ASSUME NEW i \in DOMAIN m.parts PROVE cut(i) \in E
  <2> DEFINE a == m.parts[i].first
             b == m.parts[i].num
             x == m.exts
  <2>1. a \in Nat /\ b \in Nat /\ a + b <= Len(x) /\ x \in Seq(Extent)
    BY TableIs DEF Named
  <2> HIDE DEF a, b, x
  <2>2. \A k \in a + 1 .. a + b : x[k] \in Extent
    <3>1. Len(x) \in Nat /\ \A k \in 1 .. Len(x) : x[k] \in Extent
      BY <2>1
    <3>2. \A k \in a + 1 .. a + b : k \in 1 .. Len(x)
      BY <2>1, <3>1
    <3> QED
      BY <3>1, <3>2
  <2>3. a + 1 \in Int /\ a + b \in Int
    BY <2>1
  <2>4. SubSeq(x, a + 1, a + b) \in Seq(Extent)
    BY <2>2, <2>3, SubSeqProperties
  <2> QED
    BY <2>4 DEF a, b, x
<1>2. Plan(m) = [i \in 1 .. Len(m.parts) |-> cut(i)]
  BY TableIs DEF Plan
<1> HIDE DEF cut, E
<1>3. Len(m.parts) \in Nat /\ DOMAIN m.parts = 1 .. Len(m.parts)
  BY TableIs
<1>4. Plan(m) \in Seq(E) /\ Len(Plan(m)) = Len(m.parts)
  BY <1>1, <1>2, <1>3
<1>5. DOMAIN Plan(m) = DOMAIN m.parts /\ \A i \in DOMAIN m.parts : Plan(m)[i] \in E
  BY <1>1, <1>2, <1>3
<1> QED
  BY <1>4, <1>5 DEF E

\* What the rebuilt tables are: of the old ones they have the magic and the names.
LEMMA RebuildIs ==
  ASSUME NEW m \in Table, NEW plan, Len(plan) = Len(m.parts)
  PROVE  Rebuild(m, plan) =
           [magic |-> m.magic,
            parts |-> [i \in 1 .. Len(m.parts) |->
                         [name |-> m.parts[i].name, first |-> Len(NewExts(plan)[i - 1]),
                          num |-> Len(plan[i])]],
            exts |-> NewExts(plan)[Len(plan)]]
<1> DEFINE new == NewExts(plan)
           part(i) == [m.parts[i] EXCEPT !.first = Len(new[i - 1]), !.num = Len(plan[i])]
           same(i) == [name |-> m.parts[i].name, first |-> Len(new[i - 1]), num |-> Len(plan[i])]
           parts == [i \in 1 .. Len(m.parts) |-> part(i)]
<1>1. \A i \in DOMAIN m.parts : part(i) = same(i)
  <2> TAKE i \in DOMAIN m.parts
  <2> DEFINE p == m.parts[i]
             a == Len(new[i - 1])
             b == Len(plan[i])
  <2>1. p \in [name: Partitions, first: Nat, num: Nat]
    BY TableIs
  <2> HIDE DEF p, a, b
  <2> DEFINE q == [p EXCEPT !.first = a]
             r == [q EXCEPT !.num = b]
  <2>a. q = [name |-> p.name, first |-> a, num |-> p.num]
    BY <2>1
  <2>b. r = [name |-> p.name, first |-> a, num |-> b]
    <3> HIDE DEF q
    <3> QED
      BY <2>a
  <2>2. [p EXCEPT !.first = a, !.num = b] = [name |-> p.name, first |-> a, num |-> b]
    BY <2>b DEF q, r
  <2> QED
    BY <2>2 DEF p, a, b
<1>2. Rebuild(m, plan) = [m EXCEPT !.exts = new[Len(plan)], !.parts = parts]
  BY TableIs DEF Rebuild
<1>3. parts = [i \in 1 .. Len(m.parts) |-> same(i)]
  BY <1>1, TableIs
<1> HIDE DEF parts, new, part, same
<1> DEFINE x == new[Len(plan)]
<1> HIDE DEF x
<1>4. [m EXCEPT !.exts = x, !.parts = parts] = [magic |-> m.magic, parts |-> parts, exts |-> x]
  <2> DEFINE q == [m EXCEPT !.exts = x]
             r == [q EXCEPT !.parts = parts]
  <2>1. q = [magic |-> m.magic, parts |-> m.parts, exts |-> x]
    BY DEF Table
  <2>2. r = [magic |-> m.magic, parts |-> parts, exts |-> x]
    <3> HIDE DEF q
    <3> QED
      BY <2>1
  <2> QED
    BY <2>2 DEF q, r
<1>5. Rebuild(m, plan) = [magic |-> m.magic, parts |-> parts, exts |-> x]
  BY <1>2, <1>4 DEF x
<1> QED
  BY <1>3, <1>5 DEF x, new, same

\* The rebuilt tables are a copy with the same names, and give each partition what
\* was planned for it.
LEMMA RebuildHas ==
  ASSUME NEW m \in Table, Named(m),
         NEW plan \in Seq(Seq(Extent)), Len(plan) = Len(m.parts)
  PROVE  /\ Rebuild(m, plan) \in Table /\ Rebuild(m, plan).magic = m.magic
         /\ Named(Rebuild(m, plan))
         /\ DOMAIN Rebuild(m, plan).parts = DOMAIN m.parts
         /\ \A i \in DOMAIN m.parts : Rebuild(m, plan).parts[i].name = m.parts[i].name
         /\ Rebuild(m, plan).exts = NewExts(plan)[Len(plan)]
         /\ Plan(Rebuild(m, plan)) = plan
<1> DEFINE new == NewExts(plan)
           N == Len(plan)
           part(i) == [name |-> m.parts[i].name, first |-> Len(new[i - 1]), num |-> Len(plan[i])]
           r == Rebuild(m, plan)
           P == [name: Partitions, first: Nat, num: Nat]
<1>1. /\ r.magic = m.magic /\ r.parts = [i \in 1 .. N |-> part(i)] /\ r.exts = new[N]
      /\ r = [magic |-> r.magic, parts |-> r.parts, exts |-> r.exts]
  <2> DEFINE parts == [i \in 1 .. Len(m.parts) |-> part(i)]
             x == new[N]
  <2>1. r = [magic |-> m.magic, parts |-> parts, exts |-> x]
    BY RebuildIs
  <2>2. parts = [i \in 1 .. N |-> part(i)]
    BY Zenon
  <2> HIDE DEF r, parts, x
  <2>3. r.magic = m.magic /\ r.parts = parts /\ r.exts = x
    BY <2>1
  <2>4. r = [magic |-> r.magic, parts |-> r.parts, exts |-> r.exts]
    BY <2>1, <2>3
  <2> QED
    BY <2>2, <2>3, <2>4, Zenon DEF x
<1>a. ASSUME NEW i \in 1 .. N
      PROVE  part(i).name = m.parts[i].name /\ part(i).first = Len(new[i - 1]) /\ part(i).num = Len(plan[i])
  <2> DEFINE a == Len(new[i - 1])
             b == Len(plan[i])
             c == m.parts[i].name
  <2>1. part(i) = [name |-> c, first |-> a, num |-> b]
    OBVIOUS
  <2> HIDE DEF part, a, b, c
  <2>2. part(i).name = c /\ part(i).first = a /\ part(i).num = b
    BY <2>1
  <2> QED
    BY <2>2 DEF a, b, c
<1>2. N \in Nat /\ DOMAIN m.parts = 1 .. N /\ \A i \in 1 .. N : plan[i] \in Seq(Extent) /\ Len(plan[i]) \in Nat
  <2>1. N \in Nat /\ \A i \in 1 .. N : plan[i] \in Seq(Extent)
    OBVIOUS
  <2> QED
    BY <2>1, TableIs
<1>3. \A i \in 0 .. N : new[i] \in Seq(Extent) /\ Len(new[i]) \in Nat
  <2>1. \A i \in 0 .. N : new[i] \in Seq(Extent)
    BY NewExtsAre
  <2> QED
    BY <2>1
<1>4. /\ \A i \in 1 .. N : i - 1 \in 0 .. N /\ i \in 0 .. N
      /\ N \in 0 .. N
  BY <1>2
<1>5. \A i \in 1 .. N : part(i) \in P
  <2> TAKE i \in 1 .. N
  <2>1. m.parts[i].name \in Partitions
    <3>1. m.parts[i] \in P
      BY <1>2, TableIs
    <3> QED
      BY <3>1
  <2> QED
    BY <1>2, <1>3, <1>4, <2>1
<1>6. \A i \in 1 .. N : Len(new[i - 1]) + Len(plan[i]) = Len(new[i]) /\ Len(new[i]) <= Len(new[N])
  <2> TAKE i \in 1 .. N
  <2>1. new[i] = new[i - 1] \o plan[i]
    BY NewExtsAre
  <2>2. Len(new[i - 1] \o plan[i]) = Len(new[i - 1]) + Len(plan[i])
    <3> DEFINE a == new[i - 1]
               b == plan[i]
    <3>1. a \in Seq(Extent) /\ b \in Seq(Extent)
      BY <1>2, <1>3, <1>4
    <3> HIDE DEF a, b
    <3>2. Len(a \o b) = Len(a) + Len(b)
      BY <3>1, Concat
    <3> QED
      BY <3>2 DEF a, b
  <2>3. Len(new[i]) <= Len(new[N])
    <3>1. i \in 0 .. N /\ N \in i .. N
      BY <1>2
    <3> QED
      BY <3>1, NewExtsGrow
  <2> QED
    BY <2>1, <2>2, <2>3
<1>7. \A i \in 1 .. N : SubSeq(new[N], Len(new[i - 1]) + 1, Len(new[i - 1]) + Len(plan[i])) = plan[i]
  <2> TAKE i \in 1 .. N
  <2> DEFINE a == new[i - 1]
             b == plan[i]
             c == new[i]
             z == new[N]
             u == Len(a)
             v == Len(b)
             cut == SubSeq(z, u + 1, u + v)
  <2>1. /\ a \in Seq(Extent) /\ b \in Seq(Extent) /\ c = a \o b /\ z \in Seq(Extent)
        /\ u \in Nat /\ v \in Nat /\ Len(c) = u + v /\ Len(c) <= Len(z)
    BY <1>2, <1>3, <1>4, <1>6, NewExtsAre
  <2>2. \A x \in 1 .. Len(c) : z[x] = c[x]
    <3>1. i \in 0 .. N /\ N \in i .. N
      BY <1>2
    <3> QED
      BY <3>1, NewExtsGrow
  <2> HIDE DEF a, b, c, z
  <2>3. \A x \in 1 .. v : c[u + x] = b[x]
    BY <2>1, Concat
  <2>4. \A x \in 1 .. v : z[u + x] = b[x]
    <3> TAKE x \in 1 .. v
    <3>1. u + x \in 1 .. Len(c)
      BY <2>1
    <3> QED
      BY <2>2, <2>3, <3>1
  <2> HIDE DEF u, v
  <2>5. \A x \in u + 1 .. u + v : z[x] \in Extent
    <3> TAKE x \in u + 1 .. u + v
    <3>1. x \in 1 .. Len(z)
      BY <2>1
    <3> QED
      BY <2>1, <3>1
  <2>6. u + 1 \in Int /\ u + v \in Int
    BY <2>1
  <2>7. /\ cut \in Seq(Extent)
        /\ Len(cut) = IF u + 1 <= u + v THEN (u + v) - (u + 1) + 1 ELSE 0
        /\ \A x \in 1 .. (u + v) - (u + 1) + 1 : cut[x] = z[(u + 1) + x - 1]
    BY <2>5, <2>6, SubSeqProperties
  <2> HIDE DEF cut
  <2>8. Len(cut) = v
    BY <2>1, <2>7
  <2>9. \A x \in 1 .. v : cut[x] = b[x]
    <3> TAKE x \in 1 .. v
    <3>1. x \in 1 .. (u + v) - (u + 1) + 1 /\ (u + 1) + x - 1 = u + x
      BY <2>1
    <3> QED
      BY <2>4, <2>7, <3>1
  <2>10. cut = b
    BY <2>1, <2>7, <2>8, <2>9, SeqEqual DEF v
  <2> QED
    BY <2>10 DEF cut, a, b, z, u, v
<1> HIDE DEF new, r, P, part
<1>8. r.parts \in Seq(P) /\ Len(r.parts) = N /\ DOMAIN r.parts = 1 .. N
  <2> HIDE DEF N
  <2> DEFINE s == r.parts
  <2>1. s = [i \in 1 .. N |-> part(i)]
    BY <1>1
  <2> HIDE DEF s
  <2>2. s \in Seq(P) /\ Len(s) = N /\ DOMAIN s = 1 .. N
    BY <1>2, <1>5, <2>1
  <2> QED
    BY <2>2 DEF s
<1>9. \A i \in 1 .. N : /\ r.parts[i].name = m.parts[i].name
                        /\ r.parts[i].first = Len(new[i - 1]) /\ r.parts[i].num = Len(plan[i])
  <2> TAKE i \in 1 .. N
  <2>1. r.parts[i] = part(i)
    BY <1>1
  <2> QED
    BY <1>a, <2>1
<1>10. r \in Table /\ r.magic = m.magic
  <2>1. m.magic \in BOOLEAN /\ new[N] \in Seq(Extent)
    BY <1>3, <1>4, TableIs
  <2> QED
    BY <1>1, <1>8, <2>1 DEF Table, P
<1>11. Named(r)
  <2>1. ASSUME NEW p \in Partitions PROVE \E i \in DOMAIN r.parts : r.parts[i].name = p
    BY <1>2, <1>8, <1>9 DEF Named
  <2>2. ASSUME NEW i \in DOMAIN r.parts, NEW j \in DOMAIN r.parts, r.parts[i].name = r.parts[j].name
        PROVE  i = j
    BY <1>2, <1>8, <1>9, <2>2 DEF Named
  <2>3. ASSUME NEW i \in DOMAIN r.parts PROVE r.parts[i].first + r.parts[i].num <= Len(r.exts)
    <3> DEFINE a == Len(new[i - 1])
               b == Len(plan[i])
               c == Len(new[i])
               z == Len(new[N])
    <3>1. r.parts[i].first = a /\ r.parts[i].num = b /\ Len(r.exts) = z
      BY <1>1, <1>8, <1>9
    <3>2. i \in 1 .. N
      BY <1>8
    <3>3. a + b = c /\ c <= z
      BY <1>6, <3>2
    <3> HIDE DEF a, b, c, z
    <3> QED
      BY <3>1, <3>3
  <2> QED
    BY <2>1, <2>2, <2>3 DEF Named
<1>12. Plan(r) = plan
  <2>1. plan = [i \in 1 .. N |-> plan[i]]
    OBVIOUS
  <2>2. \A i \in 1 .. N : r.parts[i].first = Len(new[i - 1]) /\ r.parts[i].num = Len(plan[i])
    BY <1>9
  <2>3. Plan(r) = [i \in 1 .. N |-> SubSeq(new[N], Len(new[i - 1]) + 1, Len(new[i - 1]) + Len(plan[i]))]
    <3> HIDE DEF N
    <3> QED
      BY <1>1, <1>8, <2>2 DEF Plan
  <2>4. Plan(r) = [i \in 1 .. N |-> plan[i]]
    <3> HIDE DEF N
    <3> QED
      BY <1>7, <2>3
  <2> QED
    BY <2>1, <2>4
<1> QED
  BY <1>1, <1>2, <1>8, <1>9, <1>10, <1>11, <1>12 DEF new, r

\* The rebuilt tables tile: rebuilding them again changes nothing.
LEMMA RebuildTiles ==
  ASSUME NEW m \in Table, Named(m),
         NEW plan \in Seq(Seq(Extent)), Len(plan) = Len(m.parts)
  PROVE  Tiled(Rebuild(m, plan))
<1> DEFINE r == Rebuild(m, plan)
<1>1. /\ r \in Table /\ r.magic = m.magic /\ Plan(r) = plan /\ DOMAIN r.parts = DOMAIN m.parts
      /\ \A i \in DOMAIN m.parts : r.parts[i].name = m.parts[i].name
  BY RebuildHas
<1> HIDE DEF r
<1>2. Len(r.parts) = Len(m.parts) /\ DOMAIN m.parts = 1 .. Len(m.parts)
  <2>1. /\ Len(m.parts) \in Nat /\ DOMAIN m.parts = 1 .. Len(m.parts)
        /\ Len(r.parts) \in Nat /\ DOMAIN r.parts = 1 .. Len(r.parts)
    BY <1>1, TableIs
  <2> DEFINE a == Len(r.parts)
             b == Len(m.parts)
  <2>2. a \in Nat /\ b \in Nat /\ 1 .. a = 1 .. b
    BY <1>1, <2>1
  <2> HIDE DEF a, b
  <2>3. a = b
    BY <2>2
  <2> QED
    BY <2>1, <2>3 DEF a, b
<1>3. Rebuild(r, plan) = [magic |-> r.magic,
            parts |-> [i \in 1 .. Len(r.parts) |->
                         [name |-> r.parts[i].name, first |-> Len(NewExts(plan)[i - 1]),
                          num |-> Len(plan[i])]],
            exts |-> NewExts(plan)[Len(plan)]]
  BY <1>1, <1>2, RebuildIs
<1>4. Rebuild(r, plan) = Rebuild(m, plan)
  BY <1>1, <1>2, <1>3, RebuildIs
<1> QED
  BY <1>1, <1>4 DEF Tiled, r

-----------------------------------------------------------------------------
(* Where an extent is put. *)

LEMMA RoundUpBounds ==
  ASSUME NEW x \in Nat
  PROVE  /\ RoundUp(x) \in Nat /\ RoundUp(x) % Align = 0
         /\ x <= RoundUp(x) /\ RoundUp(x) - Align < x
<1> DEFINE k == (x + Align - 1) \div Align
<1>1. Align \in Nat /\ Align > 0
  BY SpaceAssumption
<1>2. k \in Int /\ k >= 0 /\ k * Align >= x /\ k * Align - Align < x /\ RoundUp(x) = k * Align
  BY <1>1 DEF RoundUp
<1>3. (k * Align) % Align = 0 /\ k * Align \in Nat
  BY <1>1, <1>2
<1> QED
  BY <1>1, <1>2, <1>3

LEMMA IndexIs ==
  ASSUME NEW m \in Table, Named(m)
  PROVE  /\ \A p \in Partitions : IndexOf(m, p) \in DOMAIN m.parts /\ m.parts[IndexOf(m, p)].name = p
         /\ \A i \in DOMAIN m.parts : m.parts[i].name \in Partitions /\ IndexOf(m, m.parts[i].name) = i
         /\ LayoutOf(m) \in Layout
         /\ \A p \in Partitions : LayoutOf(m)[p] = Plan(m)[IndexOf(m, p)]
<1>1. ASSUME NEW p \in Partitions
      PROVE  IndexOf(m, p) \in DOMAIN m.parts /\ m.parts[IndexOf(m, p)].name = p
  BY DEF Named, IndexOf
<1>2. ASSUME NEW i \in DOMAIN m.parts PROVE m.parts[i].name \in Partitions
  BY TableIs
<1>3. ASSUME NEW i \in DOMAIN m.parts PROVE IndexOf(m, m.parts[i].name) = i
  BY <1>1, <1>2 DEF Named
<1>4. \A p \in Partitions : LayoutOf(m)[p] = Plan(m)[IndexOf(m, p)]
  BY DEF LayoutOf
<1>5. LayoutOf(m) \in Layout
  <2>1. \A p \in Partitions : Plan(m)[IndexOf(m, p)] \in Seq(Extent)
    BY <1>1, PlanIs
  <2> QED
    BY <2>1 DEF LayoutOf, Layout
<1> QED
  BY <1>1, <1>2, <1>3, <1>4, <1>5

Linear(m) == {e \in UNION {ToSet(own) : own \in ToSet(Plan(m))} : e.linear}

\* The extents of the table are those of the layout.
LEMMA LinearAre ==
  ASSUME NEW m \in Table, Named(m)
  PROVE  /\ Linear(m) \subseteq Extent
         /\ \A e : e \in Linear(m) <=>
              /\ \E p \in Partitions : \E j \in DOMAIN LayoutOf(m)[p] : LayoutOf(m)[p][j] = e
              /\ e.linear
<1>1. \A e : e \in Linear(m) <=>
        (\E i \in DOMAIN m.parts : \E j \in DOMAIN Plan(m)[i] : Plan(m)[i][j] = e) /\ e.linear
  <2>1. DOMAIN Plan(m) = DOMAIN m.parts
    BY PlanIs
  <2> DEFINE pl == Plan(m)
  <2>2. \A e : e \in Linear(m) <=> (\E own \in ToSet(pl) : e \in ToSet(own)) /\ e.linear
    BY DEF Linear
  <2>3. \A own : own \in ToSet(pl) <=> \E i \in DOMAIN pl : own = pl[i]
    BY DEF ToSet
  <2>4. \A own, e : e \in ToSet(own) <=> \E j \in DOMAIN own : own[j] = e
    BY DEF ToSet
  <2> QED
    BY <2>1, <2>2, <2>3, <2>4
<1>2. \A e : (\E i \in DOMAIN m.parts : \E j \in DOMAIN Plan(m)[i] : Plan(m)[i][j] = e)
        <=> \E p \in Partitions : \E j \in DOMAIN LayoutOf(m)[p] : LayoutOf(m)[p][j] = e
  <2> TAKE e
  <2>1. ASSUME NEW i \in DOMAIN m.parts, NEW j \in DOMAIN Plan(m)[i], Plan(m)[i][j] = e
        PROVE  \E p \in Partitions : \E k \in DOMAIN LayoutOf(m)[p] : LayoutOf(m)[p][k] = e
    <3>1. m.parts[i].name \in Partitions /\ LayoutOf(m)[m.parts[i].name] = Plan(m)[i]
      BY IndexIs
    <3> QED
      BY <2>1, <3>1, Zenon
  <2>2. ASSUME NEW p \in Partitions, NEW j \in DOMAIN LayoutOf(m)[p], LayoutOf(m)[p][j] = e
        PROVE  \E i \in DOMAIN m.parts : \E k \in DOMAIN Plan(m)[i] : Plan(m)[i][k] = e
    <3>1. IndexOf(m, p) \in DOMAIN m.parts /\ LayoutOf(m)[p] = Plan(m)[IndexOf(m, p)]
      BY IndexIs
    <3> QED
      BY <2>2, <3>1, Zenon
  <2> QED
    BY <2>1, <2>2, Zenon
<1>3. Linear(m) \subseteq Extent
  <2> SUFFICES ASSUME NEW e \in Linear(m) PROVE e \in Extent
    OBVIOUS
  <2>1. PICK i \in DOMAIN m.parts : \E j \in DOMAIN Plan(m)[i] : Plan(m)[i][j] = e
    BY <1>1, Zenon
  <2> DEFINE s == Plan(m)[i]
  <2>2. s \in Seq(Extent)
    BY PlanIs
  <2>3. PICK j \in DOMAIN s : s[j] = e
    BY <2>1
  <2> HIDE DEF s
  <2> QED
    BY <2>2, <2>3
<1> QED
  BY <1>1, <1>2, <1>3, Zenon

LEMMA HighIs ==
  ASSUME NEW m \in Table, Named(m), InDevice(LayoutOf(m))
  PROVE  /\ High(m) \in Nat /\ FirstSector <= High(m)
         /\ \A e \in Linear(m) : e.at + e.n <= High(m)
         /\ High(m) = FirstSector \/ \E e \in Linear(m) : e.at + e.n = High(m)
<1> DEFINE B == FirstSector + DevSectors
           S == {FirstSector} \cup {e.at + e.n : e \in Linear(m)}
<1>1. FirstSector \in Nat /\ DevSectors \in Nat /\ B \in Nat
  BY SpaceAssumption
<1>2. ASSUME NEW e \in Linear(m) PROVE e.at + e.n \in 0 .. B
  <2>1. e.at \in Nat /\ e.n \in Nat
    BY LinearAre DEF Extent
  <2>2. e.at + e.n <= DevSectors
    <3>1. PICK p \in Partitions : e.linear /\ \E j \in DOMAIN LayoutOf(m)[p] : LayoutOf(m)[p][j] = e
      BY LinearAre, Zenon
    <3>2. PICK j \in DOMAIN LayoutOf(m)[p] : LayoutOf(m)[p][j] = e
      BY <3>1
    <3> QED
      BY <3>1, <3>2 DEF InDevice
  <2> QED
    BY <1>1, <2>1, <2>2
<1>3. S \in SUBSET (0 .. B) /\ S # {}
  BY <1>1, <1>2
<1>4. High(m) = Max(S)
  BY Zenon DEF High, Linear
<1> HIDE DEF S, B
<1>5. High(m) \in S /\ \A x \in S : x <= High(m)
  BY <1>1, <1>3, <1>4, MaxIsGreatest
<1>6. High(m) \in Nat
  <2>1. High(m) \in 0 .. B
    BY <1>3, <1>5
  <2> QED
    BY <1>1, <2>1
<1> QED
  BY <1>5, <1>6 DEF S

LEMMA StartIs ==
  ASSUME NEW m \in Table, Named(m), InDevice(LayoutOf(m)), NEW i
  PROVE  /\ Start(m, i) \in Nat /\ IsTail(LayoutOf(m), Start(m, i))
         /\ FirstSector <= Start(m, i)
         /\ \A p \in Partitions : \A j \in DOMAIN LayoutOf(m)[p] :
              LayoutOf(m)[p][j].linear => LayoutOf(m)[p][j].at + LayoutOf(m)[p][j].n <= Start(m, i)
<1> DEFINE s == Start(m, i)
           lay == LayoutOf(m)
<1>1. s \in Nat /\ s % Align = 0 /\ High(m) <= s /\ s - Align < High(m) /\ High(m) \in Nat
  BY HighIs, RoundUpBounds DEF Start
<1>2. FirstSector \in Nat /\ Align \in Nat
  BY SpaceAssumption
<1>3. \A p \in Partitions : \A j \in DOMAIN lay[p] : lay[p][j].linear => lay[p][j] \in Linear(m)
  BY LinearAre, Zenon
<1>4. \A e \in Linear(m) : e.at + e.n \in Nat /\ e.at + e.n <= High(m)
  BY LinearAre, HighIs DEF Extent
<1> HIDE DEF s, lay
<1>5. \A p \in Partitions : \A j \in DOMAIN lay[p] : lay[p][j].linear => lay[p][j].at + lay[p][j].n <= s
  <2>1. \A e \in Linear(m) : e.at + e.n <= s
    BY <1>1, <1>4
  <2> QED
    BY <1>3, <2>1
<1>6. FirstSector <= s
  BY <1>1, <1>2, HighIs
<1>7. ~ /\ FirstSector <= s - Align
        /\ \A p \in Partitions : \A j \in DOMAIN lay[p] :
             lay[p][j].linear => lay[p][j].at + lay[p][j].n <= s - Align
  <2>1. CASE High(m) = FirstSector
    BY <1>1, <1>2, <2>1
  <2>2. ASSUME NEW e \in Linear(m), e.at + e.n = High(m)
        PROVE  \E p \in Partitions : \E j \in DOMAIN lay[p] :
                 lay[p][j].linear /\ ~ lay[p][j].at + lay[p][j].n <= s - Align
    <3>1. PICK p \in Partitions : e.linear /\ \E j \in DOMAIN lay[p] : lay[p][j] = e
      BY LinearAre, Zenon DEF lay
    <3>2. PICK j \in DOMAIN lay[p] : lay[p][j] = e
      BY <3>1
    <3>3. ~ e.at + e.n <= s - Align
      BY <1>1, <1>2, <2>2
    <3> QED
      BY <3>1, <3>2, <3>3
  <2> QED
    BY <2>1, <2>2, HighIs
<1>8. IsTail(lay, s)
  BY <1>1, <1>5, <1>6, <1>7, Zenon DEF IsTail
<1> QED
  BY <1>1, <1>5, <1>6, <1>8 DEF s, lay

-----------------------------------------------------------------------------
(* patch_slot. *)

Added(m, target, want) ==
  [n |-> Need(m, target, want), linear |-> TRUE, at |-> Start(m, IndexOf(m, target))]

Planned(m, target, want) ==
  [Plan(m) EXCEPT ![IndexOf(m, target)] = Append(@, Added(m, target, want))]

LEMMA WellFormedIs ==
  ASSUME NEW m, WellFormed(m)
  PROVE  /\ m \in Table /\ Named(m) /\ m.magic /\ Tiled(m) /\ Len(m.exts) <= MaxExtents
         /\ InDevice(LayoutOf(m)) /\ NoOverlap(LayoutOf(m)) /\ SoundCopy(m)
  BY DEF WellFormed, SoundCopy

LEMMA LacksIs ==
  ASSUME NEW m, WellFormed(m), NEW target \in Partitions, NEW want \in Wanted,
         ~Suffices(m, target, want)
  PROVE  /\ SizeOf(Plan(m)[IndexOf(m, target)]) \in Nat
         /\ want - SizeOf(Plan(m)[IndexOf(m, target)]) \in Nat \ {0}
         /\ Need(m, target, want) \in Nat \ {0}
         /\ Need(m, target, want) >= want - SizeOf(Plan(m)[IndexOf(m, target)])
         /\ Added(m, target, want) \in Extent
<1> DEFINE size == SizeOf(Plan(m)[IndexOf(m, target)])
<1>1. m \in Table /\ Named(m) /\ InDevice(LayoutOf(m))
  BY WellFormedIs
<1>2. size \in Nat
  <2>1. IndexOf(m, target) \in DOMAIN m.parts
    BY <1>1, IndexIs
  <2>2. Plan(m)[IndexOf(m, target)] \in Seq(Extent)
    BY <1>1, <2>1, PlanIs
  <2> QED
    BY <2>2, SizeNat
<1>3. want \in Nat /\ ~ want <= size
  BY SpaceAssumption DEF Suffices
<1>4. Need(m, target, want) = RoundUp(want - size)
  BY DEF Need
<1> HIDE DEF size
<1>5. want - size \in Nat \ {0}
  BY <1>2, <1>3
<1>6. RoundUp(want - size) \in Nat \ {0} /\ RoundUp(want - size) >= want - size
  <2>1. want - size \in Int /\ want - size > 0
    BY <1>5
  <2> QED
    BY <2>1, RoundUpPositive
<1>7. Start(m, IndexOf(m, target)) \in Nat
  BY <1>1, StartIs
<1>8. Added(m, target, want) \in Extent
  BY <1>4, <1>6, <1>7 DEF Added, Extent
<1> QED
  BY <1>2, <1>4, <1>5, <1>6, <1>8 DEF size

LEMMA PlannedIs ==
  ASSUME NEW m, WellFormed(m), NEW target \in Partitions, NEW want \in Wanted,
         ~Suffices(m, target, want)
  PROVE  /\ Planned(m, target, want) \in Seq(Seq(Extent))
         /\ Len(Planned(m, target, want)) = Len(m.parts)
         /\ \A i \in DOMAIN m.parts : Planned(m, target, want)[i] =
              IF i = IndexOf(m, target) THEN Append(Plan(m)[i], Added(m, target, want)) ELSE Plan(m)[i]
         /\ Patched(m, target, want) = Rebuild(m, Planned(m, target, want))
<1> DEFINE E == Seq(Extent)
           pl == Plan(m)
           k == IndexOf(m, target)
           x == Added(m, target, want)
<1>1. m \in Table /\ Named(m) /\ m.magic
  BY WellFormedIs
<1>2. /\ pl \in Seq(E) /\ Len(pl) = Len(m.parts)
      /\ DOMAIN m.parts = 1 .. Len(pl) /\ k \in 1 .. Len(pl) /\ pl[k] \in E
  <2>1. k \in DOMAIN m.parts
    BY <1>1, IndexIs
  <2> QED
    BY <1>1, <2>1, PlanIs, TableIs
<1>3. Append(pl[k], x) \in E
  BY <1>2, LacksIs
<1>4. Planned(m, target, want) = [pl EXCEPT ![k] = Append(pl[k], x)]
  BY DEF Planned
<1>5. Patched(m, target, want) = Rebuild(m, Planned(m, target, want))
  BY <1>1 DEF Patched, Planned, Added
<1> HIDE DEF E, pl, k, x
<1> DEFINE y == Append(pl[k], x)
<1> HIDE DEF y
<1>6. LET np == [pl EXCEPT ![k] = y]
      IN  /\ np \in Seq(E) /\ Len(np) = Len(pl)
          /\ \A i \in 1 .. Len(pl) : np[i] = IF i = k THEN y ELSE pl[i]
  BY <1>2, <1>3, ExceptSeq DEF y
<1> QED
  BY <1>2, <1>4, <1>5, <1>6 DEF y, E, pl, k, x

\* The partition has the new extent behind its own, and the others have what they had.
LEMMA PatchedLayout ==
  ASSUME NEW m, WellFormed(m), NEW target \in Partitions, NEW want \in Wanted,
         ~Suffices(m, target, want)
  PROVE  /\ Patched(m, target, want) \in Table /\ Named(Patched(m, target, want))
         /\ Patched(m, target, want).magic /\ Tiled(Patched(m, target, want))
         /\ Plan(Patched(m, target, want)) = Planned(m, target, want)
         /\ \A p \in Partitions : IndexOf(Patched(m, target, want), p) = IndexOf(m, p)
         /\ LayoutOf(Patched(m, target, want)) =
              [LayoutOf(m) EXCEPT ![target] = Append(@, Added(m, target, want))]
<1> DEFINE r == Patched(m, target, want)
           np == Planned(m, target, want)
           x == Added(m, target, want)
<1>1. m \in Table /\ Named(m) /\ m.magic
  BY WellFormedIs
<1>2. /\ np \in Seq(Seq(Extent)) /\ Len(np) = Len(m.parts) /\ r = Rebuild(m, np)
      /\ \A i \in DOMAIN m.parts : np[i] = IF i = IndexOf(m, target) THEN Append(Plan(m)[i], x) ELSE Plan(m)[i]
  BY PlannedIs
<1> HIDE DEF r, np, x
<1>3. /\ r \in Table /\ r.magic = m.magic /\ Named(r) /\ DOMAIN r.parts = DOMAIN m.parts
      /\ \A i \in DOMAIN m.parts : r.parts[i].name = m.parts[i].name
      /\ Plan(r) = np
  BY <1>1, <1>2, RebuildHas
<1>4. Tiled(r)
  BY <1>1, <1>2, RebuildTiles
<1>5. ASSUME NEW p \in Partitions PROVE IndexOf(r, p) = IndexOf(m, p)
  <2>1. IndexOf(r, p) \in DOMAIN m.parts /\ m.parts[IndexOf(r, p)].name = p
    BY <1>3, IndexIs
  <2> QED
    BY <1>1, <2>1, IndexIs
<1>6. LayoutOf(r) = [LayoutOf(m) EXCEPT ![target] = Append(@, x)]
  <2> DEFINE lay == LayoutOf(m)
  <2>1. lay \in Layout
    BY <1>1, IndexIs
  <2>2. \A p \in Partitions : LayoutOf(r)[p] = IF p = target THEN Append(lay[p], x) ELSE lay[p]
    <3> TAKE p \in Partitions
    <3>1. LayoutOf(r)[p] = np[IndexOf(m, p)] /\ lay[p] = Plan(m)[IndexOf(m, p)]
      BY <1>1, <1>3, <1>5, IndexIs
    <3>2. IndexOf(m, p) \in DOMAIN m.parts /\ (IndexOf(m, p) = IndexOf(m, target) <=> p = target)
      BY <1>1, IndexIs
    <3> HIDE DEF lay
    <3> QED
      BY <1>2, <3>1, <3>2
  <2>3. LayoutOf(r) \in Layout
    BY <1>3, IndexIs
  <2> DEFINE y == Append(lay[target], x)
             E == Seq(Extent)
  <2>4. lay \in [Partitions -> E] /\ LayoutOf(r) \in [Partitions -> E]
    BY <2>1, <2>3 DEF Layout
  <2>5. \A p \in Partitions : LayoutOf(r)[p] = IF p = target THEN y ELSE lay[p]
    BY <2>2
  <2> HIDE DEF lay, y, E
  <2>6. LayoutOf(r) = [lay EXCEPT ![target] = y]
    BY <2>4, <2>5
  <2> QED
    BY <2>6 DEF lay, y
<1> QED
  BY <1>1, <1>3, <1>4, <1>5, <1>6 DEF r, np, x

Counts(plan) == [i \in DOMAIN plan |-> Len(plan[i])]

LEMMA ExtentsCount ==
  ASSUME NEW plan \in Seq(Seq(Extent))
  PROVE  /\ Counts(plan) \in Seq(Nat) /\ Len(Counts(plan)) = Len(plan)
         /\ Len(NewExts(plan)[Len(plan)]) = Total(Counts(plan))
<1> DEFINE N == Len(plan)
           new == NewExts(plan)
           f == [i \in 0 .. N |-> Len(new[i])]
           c == Counts(plan)
<1>1. N \in Nat /\ DOMAIN plan = 1 .. N /\ \A i \in 1 .. N : plan[i] \in Seq(Extent)
  OBVIOUS
<1>2. \A i \in 1 .. N : Len(plan[i]) \in Nat
  BY <1>1
<1>3. c = [i \in 1 .. N |-> Len(plan[i])]
  BY <1>1 DEF Counts
<1>4. c \in Seq(Nat) /\ Len(c) = N
  <2> HIDE DEF c, N
  <2> QED
    BY <1>1, <1>2, <1>3
<1>5. \A i \in 0 .. N : new[i] \in Seq(Extent)
  BY NewExtsAre
<1>6. \A i \in 0 .. N : Len(new[i]) \in Nat
  BY <1>5
<1>7. ASSUME NEW i \in 1 .. N PROVE f[i] = f[i - 1] + c[i]
  <2> DEFINE a == new[i - 1]
             b == plan[i]
  <2>1. i \in 0 .. N /\ i - 1 \in 0 .. N
    BY <1>1
  <2>2. new[i] = a \o b /\ a \in Seq(Extent) /\ b \in Seq(Extent)
    BY <1>1, <1>5, <2>1, NewExtsAre
  <2>3. f[i] = Len(new[i]) /\ f[i - 1] = Len(a) /\ c[i] = Len(b)
    BY <1>3, <2>1
  <2> HIDE DEF a, b, f, c
  <2>4. Len(a \o b) = Len(a) + Len(b)
    BY <2>2, Concat
  <2> QED
    BY <2>2, <2>3, <2>4
<1>8. f[0] = 0
  <2>a. new[0] = <<>>
    BY NewExtsAre, Zenon
  <2>b. 0 \in 0 .. N
    BY <1>1
  <2>1. Len(<<>>) = 0
    OBVIOUS
  <2> QED
    BY <2>a, <2>b, <2>1
<1>9. f \in [0 .. N -> Nat]
  BY <1>6
<1>10. f[N] = Len(new[N])
  BY <1>1
<1> HIDE DEF f, c, new, N
<1>11. Sums(f, c)
  BY <1>4, <1>7, <1>8, <1>9 DEF Sums
<1>12. Total(c) = f[N]
  BY <1>4, <1>11, TotalUnique
<1> QED
  BY <1>4, <1>10, <1>12 DEF c, new, N

\* One entry more.
LEMMA PatchedCount ==
  ASSUME NEW m, WellFormed(m), NEW target \in Partitions, NEW want \in Wanted,
         ~Suffices(m, target, want)
  PROVE  Len(Patched(m, target, want).exts) = Len(m.exts) + 1
<1> DEFINE pl == Plan(m)
           np == Planned(m, target, want)
           k == IndexOf(m, target)
           x == Added(m, target, want)
<1>1. m \in Table /\ Named(m) /\ Tiled(m)
  BY WellFormedIs
<1>2. /\ pl \in Seq(Seq(Extent)) /\ Len(pl) = Len(m.parts)
      /\ DOMAIN m.parts = 1 .. Len(pl) /\ k \in 1 .. Len(pl)
      /\ \A i \in 1 .. Len(pl) : pl[i] \in Seq(Extent)
  BY <1>1, IndexIs, PlanIs, TableIs
<1>3. /\ np \in Seq(Seq(Extent)) /\ Len(np) = Len(pl)
      /\ \A i \in 1 .. Len(pl) : np[i] = IF i = k THEN Append(pl[i], x) ELSE pl[i]
      /\ Patched(m, target, want) = Rebuild(m, np)
  BY <1>2, PlannedIs
<1>4. Patched(m, target, want).exts = NewExts(np)[Len(np)]
  BY <1>1, <1>2, <1>3, RebuildHas
<1>5. m.exts = NewExts(pl)[Len(pl)]
  <2>1. Rebuild(m, pl).exts = NewExts(pl)[Len(pl)]
    BY <1>1, <1>2, RebuildHas
  <2> QED
    BY <1>1, <2>1 DEF Tiled
<1>6. x \in Extent
  BY LacksIs
<1> HIDE DEF pl, np, k, x
<1>7. Len(pl) \in Nat /\ DOMAIN pl = 1 .. Len(pl) /\ DOMAIN np = 1 .. Len(pl)
  BY <1>2, <1>3
<1>8. /\ Counts(np) \in Seq(Nat) /\ Len(Counts(np)) = Len(pl)
      /\ Counts(pl) \in Seq(Nat) /\ Len(Counts(pl)) = Len(pl)
      /\ Len(NewExts(np)[Len(np)]) = Total(Counts(np))
      /\ Len(NewExts(pl)[Len(pl)]) = Total(Counts(pl))
  BY <1>2, <1>3, ExtentsCount
<1>9. \A i \in 1 .. Len(pl) : Counts(np)[i] = Len(np[i]) /\ Counts(pl)[i] = Len(pl[i])
  BY <1>7 DEF Counts
<1>10. Len(np[k]) = Len(pl[k]) + 1
  <2> DEFINE a == pl[k]
  <2>1. a \in Seq(Extent) /\ np[k] = Append(a, x)
    BY <1>2, <1>3
  <2> HIDE DEF a
  <2>2. Len(Append(a, x)) = Len(a) + 1
    BY <1>6, <2>1
  <2> QED
    BY <2>1, <2>2 DEF a
<1>11. \A i \in 1 .. Len(pl) : i # k => np[i] = pl[i]
  BY <1>3
<1>12. Total(Counts(np)) = Total(Counts(pl)) + 1
  <2> DEFINE a == Counts(pl)
             b == Counts(np)
  <2>1. /\ a \in Seq(Nat) /\ b \in Seq(Nat) /\ Len(b) = Len(a) /\ k \in 1 .. Len(a)
        /\ b[k] = a[k] + 1 /\ \A i \in 1 .. Len(a) : i # k => b[i] = a[i]
    BY <1>2, <1>8, <1>9, <1>10, <1>11
  <2> HIDE DEF a, b
  <2> QED
    BY <2>1, TotalBump DEF a, b
<1> QED
  BY <1>4, <1>5, <1>8, <1>12

Shares(m, g) ==
  [i \in DOMAIN m.parts |-> IF GroupOf[m.parts[i].name] = g THEN SizeOf(Plan(m)[i]) ELSE 0]

LEMMA SharesAre ==
  ASSUME NEW m \in Table, Named(m), NEW g
  PROVE  /\ Shares(m, g) \in Seq(Nat) /\ Len(Shares(m, g)) = Len(m.parts)
         /\ \A i \in DOMAIN m.parts : SizeOf(Plan(m)[i]) \in Nat
         /\ \A i \in DOMAIN m.parts : Shares(m, g)[i] =
              IF GroupOf[m.parts[i].name] = g THEN SizeOf(Plan(m)[i]) ELSE 0
         /\ Used(m, g) = Total(Shares(m, g)) /\ Used(m, g) \in Nat
<1> DEFINE s == Shares(m, g)
<1>1. DOMAIN m.parts = 1 .. Len(m.parts) /\ Len(m.parts) \in Nat
  BY TableIs
<1>2. \A i \in DOMAIN m.parts : SizeOf(Plan(m)[i]) \in Nat
  BY PlanIs, SizeNat
<1>3. \A i \in DOMAIN m.parts : s[i] = IF GroupOf[m.parts[i].name] = g THEN SizeOf(Plan(m)[i]) ELSE 0
  BY DEF Shares
<1>4. s = [i \in 1 .. Len(m.parts) |-> s[i]]
  BY <1>1 DEF Shares
<1>5. Used(m, g) = Total(s)
  BY DEF Used, Shares
<1> HIDE DEF s
<1>6. \A i \in 1 .. Len(m.parts) : s[i] \in Nat
  BY <1>1, <1>2, <1>3
<1>7. s \in Seq(Nat) /\ Len(s) = Len(m.parts)
  BY <1>1, <1>4, <1>6
<1>8. Total(s) \in Nat
  BY <1>7, TotalNat
<1> QED
  BY <1>2, <1>3, <1>5, <1>7, <1>8 DEF s

\* The group of the partition has what was added, the other groups what they had.
LEMMA PatchedUsed ==
  ASSUME NEW m, WellFormed(m), NEW target \in Partitions, NEW want \in Wanted,
         ~Suffices(m, target, want), NEW g
  PROVE  Used(Patched(m, target, want), g) =
           Used(m, g) + IF GroupOf[target] = g THEN Need(m, target, want) ELSE 0
<1> DEFINE r == Patched(m, target, want)
           pl == Plan(m)
           k == IndexOf(m, target)
           x == Added(m, target, want)
           d == IF GroupOf[target] = g THEN Need(m, target, want) ELSE 0
<1>1. m \in Table /\ Named(m)
  BY WellFormedIs
<1>2. /\ k \in DOMAIN m.parts /\ m.parts[k].name = target /\ pl[k] \in Seq(Extent)
      /\ DOMAIN m.parts = 1 .. Len(m.parts)
  BY <1>1, IndexIs, PlanIs, TableIs
<1>3. /\ r \in Table /\ Named(r) /\ DOMAIN r.parts = DOMAIN m.parts /\ Len(r.parts) = Len(m.parts)
      /\ \A i \in DOMAIN m.parts : r.parts[i].name = m.parts[i].name
      /\ \A i \in DOMAIN m.parts : Plan(r)[i] = IF i = k THEN Append(pl[i], x) ELSE pl[i]
  <2> DEFINE np == Planned(m, target, want)
  <2>1. /\ np \in Seq(Seq(Extent)) /\ Len(np) = Len(m.parts) /\ r = Rebuild(m, np)
        /\ \A i \in DOMAIN m.parts : np[i] = IF i = k THEN Append(pl[i], x) ELSE pl[i]
    BY PlannedIs
  <2> HIDE DEF np, r, x, pl, k
  <2>2. /\ r \in Table /\ Named(r) /\ DOMAIN r.parts = DOMAIN m.parts /\ Plan(r) = np
        /\ \A i \in DOMAIN m.parts : r.parts[i].name = m.parts[i].name
    BY <1>1, <2>1, RebuildHas
  <2>3. Len(Plan(r)) = Len(r.parts)
    BY <2>2, PlanIs
  <2> QED
    BY <2>1, <2>2, <2>3
<1>4. SizeOf(Append(pl[k], x)) = SizeOf(pl[k]) + Need(m, target, want)
  <2>1. x \in Extent /\ x.n = Need(m, target, want)
    BY LacksIs DEF Added
  <2> QED
    BY <1>2, <2>1, SizeAppend
<1>5. d \in Nat /\ Need(m, target, want) \in Nat
  BY LacksIs
<1>a. d = IF GroupOf[target] = g THEN Need(m, target, want) ELSE 0
  OBVIOUS
<1> HIDE DEF r, pl, k, x, d
<1>6. /\ Shares(m, g) \in Seq(Nat) /\ Len(Shares(m, g)) = Len(m.parts)
      /\ \A i \in DOMAIN m.parts : SizeOf(pl[i]) \in Nat
      /\ \A i \in DOMAIN m.parts : Shares(m, g)[i] =
              IF GroupOf[m.parts[i].name] = g THEN SizeOf(pl[i]) ELSE 0
      /\ Used(m, g) = Total(Shares(m, g))
  BY <1>1, SharesAre DEF pl
<1>7. /\ Shares(r, g) \in Seq(Nat) /\ Len(Shares(r, g)) = Len(m.parts)
      /\ \A i \in DOMAIN m.parts : Shares(r, g)[i] =
              IF GroupOf[m.parts[i].name] = g THEN SizeOf(Plan(r)[i]) ELSE 0
      /\ Used(r, g) = Total(Shares(r, g))
  BY <1>3, SharesAre
<1>8. Shares(r, g)[k] = Shares(m, g)[k] + d
  BY <1>2, <1>3, <1>4, <1>5, <1>6, <1>7, <1>a
<1>9. \A i \in DOMAIN m.parts : i # k => Shares(r, g)[i] = Shares(m, g)[i]
  BY <1>3, <1>6, <1>7
<1>10. Total(Shares(r, g)) = Total(Shares(m, g)) + d
  <2> DEFINE a == Shares(m, g)
             b == Shares(r, g)
  <2>1. /\ a \in Seq(Nat) /\ b \in Seq(Nat) /\ Len(b) = Len(a) /\ k \in 1 .. Len(a)
        /\ b[k] = a[k] + d /\ \A i \in 1 .. Len(a) : i # k => b[i] = a[i]
    BY <1>2, <1>6, <1>7, <1>8, <1>9
  <2> HIDE DEF a, b
  <2> QED
    BY <1>5, <2>1, TotalBump DEF a, b
<1> QED
  BY <1>6, <1>7, <1>10, <1>a DEF r

LEMMA PatchedWellFormed ==
  ASSUME NEW m, WellFormed(m), NEW target \in Partitions, NEW want \in Wanted,
         MayPatch(m, target, want)
  PROVE  WellFormed(Patched(m, target, want))
<1> DEFINE r == Patched(m, target, want)
           x == Added(m, target, want)
           k == IndexOf(m, target)
           need == Need(m, target, want)
<1>1. CASE Suffices(m, target, want)
  BY <1>1 DEF Patched
<1>2. CASE ~Suffices(m, target, want)
  <2>1. m \in Table /\ Named(m) /\ Len(m.exts) <= MaxExtents /\ InDevice(LayoutOf(m)) /\ NoOverlap(LayoutOf(m))
    BY WellFormedIs
  <2>2. /\ need <= DevSectors - Start(m, k)
        /\ GroupHasRoom(m, GroupOf[target], need)
        /\ Len(m.exts) + 1 <= MaxExtents
    BY <1>2 DEF MayPatch
  <2>3. r \in Table /\ Named(r) /\ r.magic /\ Tiled(r)
    BY <1>2, PatchedLayout
  <2>4. Len(r.exts) <= MaxExtents
    BY <1>2, <2>2, PatchedCount
  <2>5. InDevice(LayoutOf(r)) /\ NoOverlap(LayoutOf(r))
    <3> DEFINE lay == LayoutOf(m)
               more == LayoutOf(r)
    <3>1. lay \in Layout /\ InDevice(lay) /\ NoOverlap(lay)
      BY <2>1, IndexIs
    <3>2. x \in Extent /\ x.linear /\ x.n = need /\ x.at = Start(m, k)
      BY <1>2, LacksIs DEF Added
    <3>3. /\ Start(m, k) \in Nat /\ FirstSector <= Start(m, k)
          /\ \A q \in Partitions : \A i \in DOMAIN lay[q] :
               lay[q][i].linear => lay[q][i].at + lay[q][i].n <= Start(m, k)
      BY <2>1, StartIs
    <3>4. need \in Nat /\ DevSectors \in Nat
      BY <1>2, LacksIs, SpaceAssumption
    <3>5. more = [lay EXCEPT ![target] = Append(@, x)]
      BY <1>2, PatchedLayout
    <3> HIDE DEF lay, more, x, k, need
    <3>6. /\ FirstSector <= x.at /\ x.at + x.n <= DevSectors
          /\ \A q \in Partitions : \A i \in DOMAIN lay[q] :
               lay[q][i].linear => lay[q][i].at + lay[q][i].n <= x.at
      BY <2>2, <3>2, <3>3, <3>4
    <3>7. InDevice(more) /\ NoOverlap(more)
      BY <3>1, <3>2, <3>5, <3>6, AppendedSound
    <3> QED
      BY <3>7 DEF more
  <2>6. ASSUME NEW p \in Partitions
        PROVE  GroupMax[GroupOf[p]] = 0 \/ Used(r, GroupOf[p]) <= GroupMax[GroupOf[p]]
    <3> DEFINE g == GroupOf[p]
    <3>1. Used(r, g) = Used(m, g) + IF GroupOf[target] = g THEN need ELSE 0
      BY <1>2, PatchedUsed
    <3>2. Used(m, g) \in Nat /\ need \in Nat /\ GroupMax[g] \in Nat
      BY <1>2, <2>1, SharesAre, LacksIs, SpaceAssumption
    <3>3. GroupMax[g] = 0 \/ Used(m, g) <= GroupMax[g]
      BY DEF WellFormed, SoundCopy
    <3>4. GroupOf[target] = g => GroupMax[g] = 0 \/ Used(m, g) + need <= GroupMax[g]
      BY <2>2 DEF GroupHasRoom
    <3> HIDE DEF g, r, need
    <3>5. GroupMax[g] = 0 \/ Used(r, g) <= GroupMax[g]
      BY <3>1, <3>2, <3>3, <3>4
    <3> QED
      BY <3>5 DEF g
  <2> QED
    BY <2>3, <2>4, <2>5, <2>6, Zenon DEF WellFormed, SoundCopy
<1> QED
  BY <1>1, <1>2

\* What was patched has the size that was wanted.
LEMMA PatchedSuffices ==
  ASSUME NEW m, WellFormed(m), NEW target \in Partitions, NEW want \in Wanted
  PROVE  /\ Patched(Patched(m, target, want), target, want) = Patched(m, target, want)
         /\ Patched(m, target, want).magic
<1> DEFINE r == Patched(m, target, want)
           x == Added(m, target, want)
           k == IndexOf(m, target)
<1>0. m \in Table /\ Named(m) /\ m.magic
  BY WellFormedIs
<1>1. CASE Suffices(m, target, want)
  <2>1. r = m
    BY <1>1 DEF Patched
  <2> QED
    BY <1>0, <2>1
<1>2. CASE ~Suffices(m, target, want)
  <2>1. Plan(r) = Planned(m, target, want) /\ IndexOf(r, target) = k /\ r.magic
    BY <1>2, PatchedLayout
  <2>2. k \in DOMAIN m.parts
    BY <1>0, IndexIs
  <2>3. Plan(r)[k] = Append(Plan(m)[k], x)
    <3>1. \A i \in DOMAIN m.parts : Planned(m, target, want)[i] =
            IF i = k THEN Append(Plan(m)[i], x) ELSE Plan(m)[i]
      BY <1>2, PlannedIs
    <3> HIDE DEF r, x, k
    <3> QED
      BY <2>1, <2>2, <3>1
  <2>4. /\ SizeOf(Plan(m)[k]) \in Nat
        /\ want - SizeOf(Plan(m)[k]) \in Nat \ {0}
        /\ x.n \in Nat /\ x.n >= want - SizeOf(Plan(m)[k])
        /\ x \in Extent
    BY <1>2, LacksIs DEF Added
  <2>5. SizeOf(Append(Plan(m)[k], x)) = SizeOf(Plan(m)[k]) + x.n
    <3>1. Plan(m)[k] \in Seq(Extent)
      BY <1>0, <2>2, PlanIs
    <3> QED
      BY <2>4, <3>1, SizeAppend
  <2>6. want \in Nat
    BY SpaceAssumption
  <2>7. want <= SizeOf(Plan(r)[IndexOf(r, target)])
    <3> DEFINE size == SizeOf(Plan(m)[k])
               n == x.n
               now == SizeOf(Plan(r)[IndexOf(r, target)])
    <3>1. now = size + n /\ size \in Nat /\ n \in Nat /\ n >= want - size
      BY <2>1, <2>3, <2>4, <2>5
    <3> HIDE DEF size, n, now
    <3>2. want <= now
      BY <2>6, <3>1
    <3> QED
      BY <3>2 DEF now
  <2>8. Suffices(r, target, want)
    BY <2>7 DEF Suffices
  <2> HIDE DEF r
  <2>9. Patched(r, target, want) = r
    BY <2>8 DEF Patched
  <2> QED
    BY <2>1, <2>9 DEF r
<1> QED
  BY <1>1, <1>2

-----------------------------------------------------------------------------
(* The copies. *)

Copy(m) == m = Blank \/ WellFormed(m)

Good(copies) == copies \in [Copies -> Table] /\ \A c \in Copies : Copy(copies[c])

SameMagic ==
  /\ \A c \in Copies : head[c].magic = super[c].magic /\ out[c].magic = super[c].magic
  /\ \E c \in Copies : super[c].magic

\* What the script makes of any copies.
Made(copies, target, want) == [c \in Copies |-> Patched(copies[c], target, want)]

May(copies, target, want) == \A c \in Copies : copies[c].magic => MayPatch(copies[c], target, want)

ScriptRan ==
  out # head => \E target \in Partitions, want \in Wanted :
    out = Made(head, target, want) /\ May(head, target, want)

\* Each copy is as liblp wrote it or as the script made it of that.
From(copies, m, target, want) ==
  \A c \in Copies : copies[c].magic => copies[c] \in {m, Patched(m, target, want)}

OneRun ==
  /\ IsFiniteSet(asked)
  /\ asked = {} => out = head
  /\ \A target \in Partitions, want \in Wanted : asked \subseteq {<<target, want>>} =>
       /\ Agree(out) \/ out = head
       /\ \E m \in FirstTables :
            From(super, m, target, want) /\ From(head, m, target, want) /\ From(out, m, target, want)

ResizeInv ==
  /\ asked \subseteq Partitions \X Wanted /\ runs \in 0 .. MaxRuns
  /\ Good(super) /\ Good(head) /\ Good(out)
  /\ SameMagic /\ ScriptRan /\ OneRun

LEMMA BlankIs == Blank \in Table /\ ~Blank.magic /\ Len(Blank.exts) = 0
<1>1. <<>> \in Seq([name: Partitions, first: Nat, num: Nat]) /\ <<>> \in Seq(Extent)
  BY EmptySeq, Zenon
<1>2. Len(<<>>) = 0
  OBVIOUS
<1> QED
  BY <1>1, <1>2 DEF Blank, Table

LEMMA PatchedCopy ==
  ASSUME NEW m, Copy(m), NEW target \in Partitions, NEW want \in Wanted,
         m.magic => MayPatch(m, target, want)
  PROVE  /\ Copy(Patched(m, target, want)) /\ Patched(m, target, want) \in Table
         /\ Patched(m, target, want).magic = m.magic
<1>1. CASE m = Blank
  BY <1>1, BlankIs DEF Patched, Copy
<1>2. CASE WellFormed(m)
  <2>1. m.magic
    BY <1>2, WellFormedIs
  <2>2. WellFormed(Patched(m, target, want))
    BY <1>2, <2>1, PatchedWellFormed
  <2> QED
    BY <2>1, <2>2, WellFormedIs DEF Copy
<1> QED
  BY <1>1, <1>2 DEF Copy

LEMMA MadeGood ==
  ASSUME NEW copies, Good(copies), NEW target \in Partitions, NEW want \in Wanted,
         May(copies, target, want)
  PROVE  /\ Good(Made(copies, target, want))
         /\ \A c \in Copies : Made(copies, target, want)[c].magic = copies[c].magic
<1>1. ASSUME NEW c \in Copies
      PROVE  /\ Made(copies, target, want)[c] = Patched(copies[c], target, want)
             /\ Copy(Patched(copies[c], target, want))
             /\ Patched(copies[c], target, want) \in Table
             /\ Patched(copies[c], target, want).magic = copies[c].magic
  BY PatchedCopy DEF Made, Good, May
<1>2. Made(copies, target, want) \in [Copies -> Table]
  BY <1>1 DEF Made
<1> QED
  BY <1>1, <1>2 DEF Good

\* The script makes the same of what liblp wrote and of what it made of that before.
LEMMA MadeAgrees ==
  ASSUME NEW copies, NEW m \in FirstTables, NEW target \in Partitions, NEW want \in Wanted,
         Good(copies), From(copies, m, target, want)
  PROVE  \A c \in Copies : Made(copies, target, want)[c].magic =>
           Made(copies, target, want)[c] = Patched(m, target, want)
<1> SUFFICES ASSUME NEW c \in Copies, Made(copies, target, want)[c].magic
             PROVE  Made(copies, target, want)[c] = Patched(m, target, want)
  OBVIOUS
<1>1. WellFormed(m)
  BY ResizeAssumption
<1>2. Made(copies, target, want)[c] = Patched(copies[c], target, want)
  BY DEF Made
<1>3. copies[c].magic
  <2>1. copies[c] = Blank => Patched(copies[c], target, want) = Blank
    BY BlankIs DEF Patched
  <2> QED
    BY <1>2, <2>1, BlankIs, WellFormedIs DEF Good, Copy
<1>4. copies[c] \in {m, Patched(m, target, want)}
  BY <1>3 DEF From
<1> QED
  BY <1>1, <1>2, <1>4, PatchedSuffices

-----------------------------------------------------------------------------
(* The invariant. *)

LEMMA InitInv == Init => ResizeInv
<1> SUFFICES ASSUME Init PROVE ResizeInv
  OBVIOUS
<1>1. PICK m \in FirstTables :
        super \in {[c \in Copies |-> m], [primary |-> m, backup |-> Blank], [primary |-> Blank, backup |-> m]}
  BY DEF Init
<1>2. WellFormed(m) /\ m \in Table /\ m.magic /\ Blank \in Table /\ ~Blank.magic
  BY ResizeAssumption, WellFormedIs, BlankIs
<1>3. super \in [Copies -> Table] /\ \A c \in Copies : super[c] \in {m, Blank}
  BY <1>1, <1>2 DEF Copies
<1>4. \E c \in Copies : super[c] = m
  BY <1>1 DEF Copies
<1>5. head = super /\ out = super /\ asked = {} /\ runs = 0
  BY DEF Init
<1>6. Good(super)
  BY <1>2, <1>3 DEF Good, Copy
<1>7. SameMagic
  BY <1>2, <1>4, <1>5 DEF SameMagic
<1>8. OneRun
  <2>1. ASSUME NEW target \in Partitions, NEW want \in Wanted
        PROVE  From(super, m, target, want)
    BY <1>2, <1>3 DEF From
  <2>2. IsFiniteSet(asked)
    BY <1>5, FS_EmptySet
  <2> QED
    BY <1>5, <2>1, <2>2 DEF OneRun
<1>9. ScriptRan
  BY <1>5 DEF ScriptRan
<1>10. runs \in 0 .. MaxRuns
  BY <1>5, ResizeAssumption
<1> QED
  BY <1>5, <1>6, <1>7, <1>8, <1>9, <1>10 DEF ResizeInv

LEMMA DumpInv == ResizeInv /\ Dump => ResizeInv'
<1> SUFFICES ASSUME ResizeInv, Dump PROVE ResizeInv'
  OBVIOUS
<1>1. head' = super /\ out' = super /\ super' = super /\ asked' = asked /\ runs' = runs
  BY DEF Dump
<1>2. Good(super) /\ SameMagic /\ OneRun
  BY DEF ResizeInv
<1>3. SameMagic'
  BY <1>1, <1>2 DEF SameMagic
<1>4. ScriptRan'
  BY <1>1 DEF ScriptRan
<1>5. OneRun'
  <2>1. IsFiniteSet(asked) /\ IsFiniteSet(asked')
    BY <1>1, <1>2 DEF OneRun
  <2>2. ASSUME NEW target \in Partitions, NEW want \in Wanted, asked' \subseteq {<<target, want>>}
        PROVE  \E m \in FirstTables : From(super', m, target, want)
    BY <1>1, <1>2, <2>2 DEF OneRun
  <2> QED
    BY <1>1, <2>1, <2>2 DEF OneRun
<1> QED
  BY <1>1, <1>2, <1>3, <1>4, <1>5 DEF ResizeInv

LEMMA ResizeStepInv ==
  ASSUME ResizeInv, NEW target \in Partitions, NEW want \in Wanted, Resize(target, want)
  PROVE  ResizeInv'
<1>1. /\ head' = head /\ super' = super /\ out' = Made(head, target, want)
      /\ out = head /\ runs < MaxRuns /\ runs' = runs + 1
      /\ asked' = asked \cup {<<target, want>>} /\ out' # head
      /\ May(head, target, want)
  BY DEF Resize, PatchBoth, Made, May, Readable
<1>2. /\ asked \subseteq Partitions \X Wanted /\ runs \in 0 .. MaxRuns
      /\ Good(super) /\ Good(head) /\ SameMagic /\ OneRun
  BY DEF ResizeInv
<1>3. Good(out') /\ \A c \in Copies : out'[c].magic = head[c].magic
  BY <1>1, <1>2, MadeGood
<1>4. SameMagic'
  BY <1>1, <1>2, <1>3 DEF SameMagic
<1>5. ScriptRan'
  BY <1>1 DEF ScriptRan
<1>6. OneRun'
  <2>1. IsFiniteSet(asked)
    BY <1>2 DEF OneRun
  <2>2. IsFiniteSet(asked')
    BY <1>1, <2>1, FS_AddElement
  <2>3. asked' # {}
    BY <1>1
  <2>4. ASSUME NEW t \in Partitions, NEW w \in Wanted, asked' \subseteq {<<t, w>>}
        PROVE  /\ Agree(out')
               /\ \E m \in FirstTables : From(super', m, t, w) /\ From(head', m, t, w) /\ From(out', m, t, w)
    <3>1. t = target /\ w = want /\ asked \subseteq {<<t, w>>}
      BY <1>1, <2>4
    <3>2. PICK m \in FirstTables : From(super, m, t, w) /\ From(head, m, t, w)
      BY <1>2, <3>1 DEF OneRun
    <3>3. \A c \in Copies : out'[c].magic => out'[c] = Patched(m, t, w)
      BY <1>1, <1>2, <3>1, <3>2, MadeAgrees
    <3>4. Agree(out')
      BY <3>3 DEF Agree, Readable
    <3>5. From(out', m, t, w)
      BY <3>3 DEF From
    <3> QED
      BY <1>1, <3>2, <3>4, <3>5
  <2>5. \A t \in Partitions, w \in Wanted : asked' \subseteq {<<t, w>>} =>
          /\ Agree(out)' \/ out' = head'
          /\ \E m \in FirstTables : From(super', m, t, w) /\ From(head', m, t, w) /\ From(out', m, t, w)
    BY <2>4 DEF Agree, Readable
  <2> QED
    BY <2>2, <2>3, <2>5, Zenon DEF OneRun
<1>7. asked' \subseteq Partitions \X Wanted /\ runs' \in 0 .. MaxRuns
  BY <1>1, <1>2, ResizeAssumption
<1> QED
  BY <1>1, <1>2, <1>3, <1>4, <1>5, <1>6, <1>7 DEF ResizeInv

LEMMA WriteBackIs ==
  ASSUME ResizeInv, WriteBack
  PROVE  /\ head' = head /\ out' = out /\ asked' = asked /\ runs' = runs /\ out # head
         /\ super' \in [Copies -> Table]
         /\ \A c \in Copies : super[c] \in {head[c], out[c]}
         /\ \A c \in Copies : super'[c] \in {super[c], out[c]}
<1>1. /\ head' = head /\ out' = out /\ asked' = asked /\ runs' = runs /\ out # head
      /\ \A c \in Copies : super[c] \in {head[c], out[c]}
      /\ super' = out \/ super' = [super EXCEPT !["primary"] = out["primary"]]
  BY DEF WriteBack, Fresh
<1>2. super \in [Copies -> Table] /\ out \in [Copies -> Table] /\ "primary" \in Copies
  BY DEF ResizeInv, Good, Copies
<1> QED
  BY <1>1, <1>2

LEMMA WriteBackInv == ResizeInv /\ WriteBack => ResizeInv'
<1> SUFFICES ASSUME ResizeInv, WriteBack PROVE ResizeInv'
  OBVIOUS
<1>1. /\ head' = head /\ out' = out /\ asked' = asked /\ runs' = runs
      /\ super' \in [Copies -> Table] /\ \A c \in Copies : super'[c] \in {super[c], out[c]}
  BY WriteBackIs
<1>2. /\ Good(super) /\ Good(head) /\ Good(out) /\ SameMagic /\ OneRun /\ ScriptRan
  BY DEF ResizeInv
<1>3. Good(super')
  BY <1>1, <1>2 DEF Good
<1>4. SameMagic'
  BY <1>1, <1>2 DEF SameMagic
<1>5. ScriptRan'
  BY <1>1, <1>2 DEF ScriptRan
<1>6. \A m, t, w : From(super, m, t, w) /\ From(out, m, t, w) => From(super', m, t, w)
  BY <1>1 DEF From
<1>7. OneRun'
  <2>1. Agree(out)' <=> Agree(out)
    BY <1>1 DEF Agree, Readable
  <2> QED
    BY <1>1, <1>2, <1>6, <2>1 DEF OneRun
<1> QED
  BY <1>1, <1>2, <1>3, <1>4, <1>5, <1>7 DEF ResizeInv

LEMMA StepInv == ResizeInv /\ [Next]_vars => ResizeInv'
<1> SUFFICES ASSUME ResizeInv, [Next]_vars PROVE ResizeInv'
  OBVIOUS
<1>1. CASE Dump
  BY <1>1, DumpInv
<1>2. ASSUME NEW target \in Partitions, NEW want \in Wanted, Resize(target, want) PROVE ResizeInv'
  BY <1>2, ResizeStepInv
<1>3. CASE WriteBack
  BY <1>3, WriteBackInv
<1>4. CASE UNCHANGED vars
  <2>1. super' = super /\ head' = head /\ out' = out /\ asked' = asked /\ runs' = runs
    BY <1>4 DEF vars
  <2>2. Agree(out)' <=> Agree(out)
    BY <2>1 DEF Agree, Readable
  <2>3. OneRun'
    BY <2>1, <2>2 DEF ResizeInv, OneRun
  <2>4. SameMagic' /\ ScriptRan'
    BY <2>1 DEF ResizeInv, SameMagic, ScriptRan
  <2> QED
    BY <2>1, <2>3, <2>4 DEF ResizeInv
<1> QED
  BY <1>1, <1>2, <1>3, <1>4 DEF Next

LEMMA AlwaysInv == Spec => []ResizeInv
  BY InitInv, StepInv, PTL DEF Spec

-----------------------------------------------------------------------------
(* What follows. *)

LEMMA AllGood ==
  ASSUME ResizeInv, NEW m \in AllCopies
  PROVE  m \in Table /\ Copy(m)
  BY DEF ResizeInv, AllCopies, Good

\* Both copies stay whole tables within metadata_max_size, in the dump, in what the
\* script makes of it and on the device.
THEOREM ResizeTypeCorrect == Spec => []TypeOK
<1>1. ResizeInv => TypeOK
  <2> SUFFICES ASSUME ResizeInv PROVE TypeOK
    OBVIOUS
  <2>1. ASSUME NEW copies \in {super, head, out}, NEW c \in Copies
        PROVE  Len(copies[c].exts) <= MaxExtents
    <3>1. Copy(copies[c])
      BY DEF ResizeInv, Good
    <3>2. CASE copies[c] = Blank
      BY <3>2, BlankIs, ResizeAssumption
    <3>3. CASE WellFormed(copies[c])
      BY <3>3, WellFormedIs
    <3> QED
      BY <3>1, <3>2, <3>3 DEF Copy
  <2> QED
    BY <2>1 DEF ResizeInv, Good, TypeOK
<1> QED
  BY <1>1, AlwaysInv, PTL

LEMMA BlankTiled == Tiled(Blank)
<1> DEFINE none == Plan(Blank)
           NoPart(i) == [name |-> Blank.parts[i].name, first |-> Len(NewExts(none)[i - 1]),
                         num |-> Len(none[i])]
<1>1. Len(Blank.parts) = 0 /\ Blank.parts = <<>> /\ DOMAIN Blank.parts = {}
  BY DEF Blank
<1>2. none = <<>>
  BY <1>1 DEF Plan
<1>3. Len(none) = 0 /\ none \in Seq(Seq(Extent))
  <2>1. <<>> \in Seq(Seq(Extent)) /\ Len(<<>>) = 0
    OBVIOUS
  <2> QED
    BY <1>2, <2>1
<1>4. NewExts(none)[Len(none)] = <<>>
  BY <1>3, NewExtsAre
<1>5. Rebuild(Blank, none) = [magic |-> Blank.magic,
            parts |-> [i \in 1 .. Len(Blank.parts) |-> NoPart(i)],
            exts |-> NewExts(none)[Len(none)]]
  BY <1>1, <1>3, BlankIs, RebuildIs
<1> HIDE DEF none, NoPart
<1>6. [i \in 1 .. Len(Blank.parts) |-> NoPart(i)] = <<>>
  BY <1>1
<1>7. Rebuild(Blank, none) = [magic |-> Blank.magic, parts |-> <<>>, exts |-> <<>>]
  BY <1>4, <1>5, <1>6
<1> QED
  BY <1>7 DEF Tiled, Blank, none

\* After any number of patches the indices name the partition's own extents.
THEOREM ResizeTablesTile == Spec => []TablesTile
<1>1. ResizeInv => TablesTile
  <2> SUFFICES ASSUME ResizeInv, NEW m \in AllCopies PROVE Tiled(m)
    BY DEF TablesTile
  <2>1. CASE m = Blank
    BY <2>1, BlankTiled
  <2>2. CASE WellFormed(m)
    BY <2>2, WellFormedIs
  <2> QED
    BY <2>1, <2>2, AllGood DEF Copy
<1> QED
  BY <1>1, AlwaysInv, PTL

\* No copy ever gives a sector to two extents or one beyond the device, nor a group
\* more than its maximum.
THEOREM ResizeCopiesSound == Spec => []CopiesSound
<1>1. ResizeInv => CopiesSound
  <2> SUFFICES ASSUME ResizeInv, NEW m \in AllCopies, m.magic PROVE SoundCopy(m)
    BY DEF CopiesSound
  <2>1. WellFormed(m)
    BY AllGood, BlankIs DEF Copy
  <2> QED
    BY <2>1, WellFormedIs
<1> QED
  BY <1>1, AlwaysInv, PTL

\* Running the script again with the same arguments, on whatever an interrupted write
\* left, makes the copies agree.
THEOREM ResizeRerunAgrees == Spec => []RerunAgrees
<1>1. ResizeInv => RerunAgrees
  <2> SUFFICES ASSUME ResizeInv, Cardinality(asked) <= 1 PROVE Agree(out) \/ out = head
    BY DEF RerunAgrees
  <2>1. IsFiniteSet(asked) /\ asked \subseteq Partitions \X Wanted /\ OneRun
    BY DEF ResizeInv, OneRun
  <2>2. CASE asked = {}
    BY <2>1, <2>2 DEF OneRun
  <2>3. CASE asked # {}
    <3>1. Cardinality(asked) \in Nat /\ Cardinality(asked) # 0
      BY <2>1, <2>3, FS_CardinalityType, FS_EmptySet
    <3>2. Cardinality(asked) = 1
      BY <3>1
    <3>3. PICK x : asked = {x}
      BY <2>1, <3>2, FS_Singleton
    <3>4. PICK target \in Partitions, want \in Wanted : x = <<target, want>>
      BY <2>1, <3>3
    <3>5. asked \subseteq {<<target, want>>}
      BY <3>3, <3>4
    <3> QED
      BY <2>1, <3>5 DEF OneRun
  <2> QED
    BY <2>2, <2>3
<1> QED
  BY <1>1, AlwaysInv, PTL

-----------------------------------------------------------------------------
(* What liblp sees. *)

\* A group has as many sectors as patch_slot counts partition by partition.
LEMMA GroupSizeIs ==
  ASSUME NEW m \in Table, Named(m), NEW g
  PROVE  GroupSize(LayoutOf(m), g) = Used(m, g)
<1> DEFINE lay == LayoutOf(m)
           N == Len(m.parts)
           name(i) == m.parts[i].name
           Offsets(p) == {p} \X (1 .. SizeOf(lay[p]))
           U(k) == UNION {Offsets(name(j)) : j \in {i \in 1 .. k : GroupOf[name(i)] = g}}
           s == Shares(m, g)
<1>1. /\ N \in Nat /\ DOMAIN m.parts = 1 .. N
      /\ \A i \in 1 .. N : name(i) \in Partitions /\ SizeOf(lay[name(i)]) \in Nat
      /\ \A i, j \in 1 .. N : name(i) = name(j) => i = j
      /\ \A p \in Partitions : \E i \in 1 .. N : name(i) = p
  <2>1. N \in Nat /\ DOMAIN m.parts = 1 .. N
    BY TableIs
  <2>2. \A i \in 1 .. N : name(i) \in Partitions /\ lay[name(i)] = Plan(m)[i]
    BY <2>1, IndexIs
  <2>3. \A i \in 1 .. N : SizeOf(Plan(m)[i]) \in Nat
    BY <2>1, SharesAre
  <2> QED
    BY <2>1, <2>2, <2>3 DEF Named
<1>2. /\ s \in Seq(Nat) /\ Len(s) = N /\ Used(m, g) = Total(s)
      /\ \A i \in 1 .. N : s[i] = IF GroupOf[name(i)] = g THEN SizeOf(lay[name(i)]) ELSE 0
  <2>1. \A i \in 1 .. N : lay[name(i)] = Plan(m)[i]
    BY <1>1, IndexIs
  <2>2. \A i \in 1 .. N : s[i] = IF GroupOf[name(i)] = g THEN SizeOf(Plan(m)[i]) ELSE 0
    BY <1>1, SharesAre
  <2> QED
    BY <2>1, <2>2, SharesAre
<1>3. PICK f : Sums(f, s) /\ Total(s) = f[Len(s)]
  BY <1>2, TotalSums
<1>4. GroupSize(lay, g) = Cardinality(UNION {Offsets(p) : p \in Members(g)})
  BY DEF GroupSize
<1>5. UNION {Offsets(p) : p \in Members(g)} = U(N)
  <2> HIDE DEF Offsets, name
  <2>1. \A p : p \in Members(g) <=> \E i \in 1 .. N : GroupOf[name(i)] = g /\ name(i) = p
    BY <1>1 DEF Members
  <2> QED
    BY <2>1
<1> HIDE DEF lay, N, s
<1>6. ASSUME NEW i \in 1 .. N
      PROVE  IsFiniteSet(Offsets(name(i))) /\ Cardinality(Offsets(name(i))) = SizeOf(lay[name(i)])
  <2> DEFINE n == SizeOf(lay[name(i)])
  <2>1. n \in Nat
    BY <1>1
  <2>2. Offsets(name(i)) = {name(i)} \X (1 .. n)
    OBVIOUS
  <2> HIDE DEF n, Offsets, name
  <2>3. IsFiniteSet(1 .. n) /\ Cardinality(1 .. n) = n
    BY <2>1, FS_Interval
  <2>4. IsFiniteSet({name(i)}) /\ Cardinality({name(i)}) = 1
    BY FS_Singleton
  <2>5. IsFiniteSet({name(i)} \X (1 .. n)) /\ Cardinality({name(i)} \X (1 .. n)) = 1 * n
    BY <2>3, <2>4, FS_Product
  <2> QED
    BY <2>1, <2>2, <2>5 DEF n
<1>7. \A i, j \in 1 .. N : i # j => Offsets(name(i)) \cap Offsets(name(j)) = {}
  <2> HIDE DEF name
  <2> QED
    BY <1>1
<1> HIDE DEF Offsets, name
<1> DEFINE T == {k \in Nat : k <= N => IsFiniteSet(U(k)) /\ Cardinality(U(k)) = f[k]}
<1>8. 0 \in T
  <2>1. U(0) = {}
    OBVIOUS
  <2>2. f[0] = 0
    BY <1>3 DEF Sums
  <2> HIDE DEF U
  <2> QED
    BY <2>1, <2>2, FS_EmptySet
<1>9. ASSUME NEW k \in Nat, k \in T PROVE k + 1 \in T
  <2> SUFFICES ASSUME k + 1 <= N PROVE IsFiniteSet(U(k + 1)) /\ Cardinality(U(k + 1)) = f[k + 1]
    OBVIOUS
  <2>1. k + 1 \in 1 .. N /\ (k + 1) - 1 = k /\ IsFiniteSet(U(k)) /\ Cardinality(U(k)) = f[k]
    BY <1>1, <1>9
  <2>2. \A i : i \in 1 .. k + 1 <=> i \in 1 .. k \/ i = k + 1
    OBVIOUS
  <2>3. f[k + 1] = f[k] + s[k + 1] /\ f[k] \in Nat
    <3>1. k \in 0 .. Len(s) /\ k + 1 \in 1 .. Len(s)
      BY <1>1, <1>2, <2>1
    <3> QED
      BY <1>3, <2>1, <3>1 DEF Sums
  <2>4. CASE GroupOf[name(k + 1)] = g
    <3> DEFINE X == Offsets(name(k + 1))
    <3>1. U(k + 1) = U(k) \cup X
      BY <2>2, <2>4
    <3>2. U(k) \cap X = {}
      <4>1. ASSUME NEW i \in 1 .. k PROVE Offsets(name(i)) \cap X = {}
        <5>1. i \in 1 .. N /\ i # k + 1
          BY <1>1, <2>1
        <5> QED
          BY <1>7, <2>1, <5>1
      <4> QED
        BY <4>1
    <3>3. IsFiniteSet(X) /\ Cardinality(X) = s[k + 1] /\ s[k + 1] \in Nat
      BY <1>1, <1>2, <1>6, <2>1, <2>4
    <3> HIDE DEF X, U
    <3>4. /\ IsFiniteSet(U(k) \cup X)
          /\ Cardinality(U(k) \cup X) = Cardinality(U(k)) + Cardinality(X) - Cardinality(U(k) \cap X)
      BY <2>1, <3>3, FS_Union
    <3>5. Cardinality(U(k) \cap X) = 0
      BY <3>2, FS_EmptySet
    <3>6. IsFiniteSet(U(k + 1)) /\ Cardinality(U(k + 1)) = f[k] + s[k + 1] - 0
      BY <2>1, <3>1, <3>3, <3>4, <3>5
    <3>7. f[k] + s[k + 1] - 0 = f[k + 1]
      BY <2>3, <3>3
    <3> QED
      BY <3>6, <3>7
  <2>5. CASE GroupOf[name(k + 1)] # g
    <3>1. U(k + 1) = U(k)
      BY <2>2, <2>5
    <3>2. s[k + 1] = 0
      BY <1>2, <2>1, <2>5
    <3> HIDE DEF U
    <3> QED
      BY <2>1, <2>3, <3>1, <3>2
  <2> QED
    BY <2>4, <2>5
<1> HIDE DEF T
<1>10. N \in T
  BY <1>1, <1>8, <1>9, NatInduct
<1>11. Cardinality(U(N)) = f[N]
  BY <1>1, <1>10 DEF T
<1> QED
  BY <1>2, <1>3, <1>4, <1>5, <1>11 DEF lay

LEMMA PatchGrows ==
  ASSUME NEW m, WellFormed(m), NEW target \in Partitions, NEW want \in Wanted,
         MayPatch(m, target, want), ~Suffices(m, target, want)
  PROVE  \E lacking \in 1 .. DevSectors :
           /\ want - SizeOf(LayoutOf(m)[target]) = lacking
           /\ GroupHolds(LayoutOf(m), target, RoundUp(lacking))
           /\ \E s \in 0 .. DevSectors - RoundUp(lacking) :
                /\ IsTail(LayoutOf(m), s)
                /\ LayoutOf(Patched(m, target, want)) = [LayoutOf(m) EXCEPT ![target] =
                     Append(@, [n |-> RoundUp(lacking), linear |-> TRUE, at |-> s])]
<1> DEFINE k == IndexOf(m, target)
           lacking == want - SizeOf(Plan(m)[k])
           s == Start(m, k)
           need == Need(m, target, want)
<1>1. m \in Table /\ Named(m) /\ InDevice(LayoutOf(m))
  BY WellFormedIs
<1>2. LayoutOf(m)[target] = Plan(m)[k]
  BY <1>1, IndexIs
<1>3. need = RoundUp(lacking) /\ lacking \in Nat \ {0} /\ need \in Nat /\ need >= lacking
  BY LacksIs DEF Need
<1>4. /\ need <= DevSectors - s
      /\ GroupHasRoom(m, GroupOf[target], need)
  BY DEF MayPatch
<1>5. s \in Nat /\ IsTail(LayoutOf(m), s)
  BY <1>1, StartIs
<1>6. DevSectors \in Nat
  BY SpaceAssumption
<1>7. GroupHolds(LayoutOf(m), target, need)
  BY <1>1, <1>4, GroupSizeIs DEF GroupHolds, GroupHasRoom
<1>8. LayoutOf(Patched(m, target, want)) =
        [LayoutOf(m) EXCEPT ![target] = Append(@, [n |-> need, linear |-> TRUE, at |-> s])]
  BY PatchedLayout DEF Added
<1> HIDE DEF lacking, s, need, k
<1>9. lacking \in 1 .. DevSectors /\ s \in 0 .. DevSectors - need
  BY <1>3, <1>4, <1>5, <1>6
<1>10. want - SizeOf(LayoutOf(m)[target]) = lacking
  BY <1>2 DEF lacking
<1> QED
  BY <1>3, <1>5, <1>7, <1>8, <1>9, <1>10

LEMMA PromiseIs ==
  /\ \A lay, x : L!IsTail(lay, x) <=> IsTail(lay, x)
  /\ \A x : L!SizeOf(x) = SizeOf(x) /\ L!RoundUp(x) = RoundUp(x)
  /\ \A lay : (L!InDevice(lay) <=> InDevice(lay)) /\ (L!NoOverlap(lay) <=> NoOverlap(lay))
  /\ \A lay, p, need : L!GroupHolds(lay, p, need) <=> GroupHolds(lay, p, need)
  /\ L!Layout = Layout
<1>1. \A lay, x : L!IsTail(lay, x) <=> IsTail(lay, x)
  BY Zenon DEF L!IsTail, IsTail
<1>2. \A x : L!SizeOf(x) = SizeOf(x)
  BY Zenon DEF L!SizeOf, SizeOf, L!Total, Total
<1>3. \A x : L!RoundUp(x) = RoundUp(x)
  BY Zenon DEF L!RoundUp, RoundUp
<1>4. \A lay : (L!InDevice(lay) <=> InDevice(lay)) /\ (L!NoOverlap(lay) <=> NoOverlap(lay))
  BY Zenon DEF L!InDevice, InDevice, L!NoOverlap, NoOverlap, L!Apart, Apart
<1>5. \A lay, p, need : L!GroupHolds(lay, p, need) <=> GroupHolds(lay, p, need)
  <2>1. \A g : L!Members(g) = Members(g)
    BY DEF L!Members, Members
  <2>a. \A S : L!Cardinality(S) = Cardinality(S)
    BY DEF L!Cardinality, Cardinality
  <2>2. \A lay, g : L!GroupSize(lay, g) = GroupSize(lay, g)
    <3> TAKE lay, g
    <3> DEFINE there(p) == {p} \X (1 .. L!SizeOf(lay[p]))
               here(p) == {p} \X (1 .. SizeOf(lay[p]))
    <3>1. \A p : there(p) = here(p)
      BY <1>2
    <3>2. L!GroupSize(lay, g) = Cardinality(UNION {there(p) : p \in L!Members(g)})
      BY <2>a DEF L!GroupSize
    <3>3. GroupSize(lay, g) = Cardinality(UNION {here(p) : p \in Members(g)})
      BY DEF GroupSize
    <3> HIDE DEF there, here
    <3>4. {there(p) : p \in L!Members(g)} = {here(p) : p \in Members(g)}
      BY <2>1, <3>1
    <3> QED
      BY <3>2, <3>3, <3>4
  <2> QED
    BY <2>2 DEF L!GroupHolds, GroupHolds
<1>6. L!Layout = Layout
  BY Zenon DEF L!Layout, Layout, L!Extent, Extent
<1> QED
  BY <1>1, <1>2, <1>3, <1>4, <1>5, <1>6

LEMMA LiveIs ==
  ASSUME NEW copies, Good(copies), \E c \in Copies : copies[c].magic
  PROVE  /\ WellFormed(Live(copies))
         /\ \E c \in Copies : copies[c].magic /\ Live(copies) = copies[c]
<1>1. PICK c \in Copies : copies[c].magic /\ Live(copies) = copies[c]
  BY DEF Live, Copies
<1> QED
  BY <1>1, BlankIs DEF Good, Copy

\* What liblp sees changes only as the script changed it.
LEMMA LiveSteps ==
  ASSUME ResizeInv, [Next]_vars
  PROVE  \/ Live(super') = Live(super)
         \/ \E target \in Partitions, want \in Wanted :
              /\ MayPatch(Live(super), target, want)
              /\ Live(super') = Patched(Live(super), target, want)
<1>1. CASE super' = super
  BY <1>1
<1>2. CASE WriteBack
  <2>1. /\ out # head
        /\ \A c \in Copies : super[c] \in {head[c], out[c]}
        /\ \A c \in Copies : super'[c] \in {super[c], out[c]}
    BY <1>2, WriteBackIs
  <2>2. PICK target \in Partitions, want \in Wanted : out = Made(head, target, want) /\ May(head, target, want)
    BY <2>1 DEF ResizeInv, ScriptRan
  <2>3. SameMagic
    BY DEF ResizeInv
  <2>4. \A c \in Copies : super'[c].magic = super[c].magic
    BY <2>1, <2>3 DEF SameMagic
  <2>5. PICK c \in Copies : super[c].magic /\ Live(super) = super[c] /\ Live(super') = super'[c]
    BY <2>3, <2>4 DEF SameMagic, Live, Copies
  <2>6. CASE super'[c] = super[c]
    BY <2>5, <2>6
  <2>7. CASE super'[c] = out[c] /\ super[c] = head[c]
    <3>1. out[c] = Patched(head[c], target, want)
      BY <2>2 DEF Made
    <3>2. MayPatch(head[c], target, want)
      BY <2>2, <2>5, <2>7 DEF May
    <3> QED
      BY <2>5, <2>7, <3>1, <3>2
  <2> QED
    BY <2>1, <2>6, <2>7
<1> QED
  BY <1>1, <1>2 DEF Next, Dump, Resize, vars

\* Each step of the device's metadata, as liblp sees them, grows a partition by sectors
\* that belonged to nobody, or leaves the layout alone.
THEOREM ResizeLiveGrows == Spec => LiveGrows
<1>1. Init => L!LayoutInit
  <2> SUFFICES ASSUME Init PROVE L!LayoutInit
    OBVIOUS
  <2>1. Good(super) /\ \E c \in Copies : super[c].magic
    BY InitInv DEF ResizeInv, SameMagic
  <2>2. WellFormed(Live(super))
    BY <2>1, LiveIs
  <2>3. LayoutOf(Live(super)) \in Layout /\ InDevice(LayoutOf(Live(super))) /\ NoOverlap(LayoutOf(Live(super)))
    BY <2>2, WellFormedIs, IndexIs
  <2> QED
    BY <2>3, PromiseIs DEF L!LayoutInit
<1>2. ResizeInv /\ [Next]_vars => [L!LayoutNext]_(LayoutOf(Live(super)))
  <2> SUFFICES ASSUME ResizeInv, [Next]_vars, LayoutOf(Live(super')) # LayoutOf(Live(super))
               PROVE  L!LayoutNext
    BY DEF LayoutOf, Live
  <2> DEFINE m == Live(super)
  <2>1. PICK target \in Partitions, want \in Wanted :
          MayPatch(m, target, want) /\ Live(super') = Patched(m, target, want)
    BY LiveSteps
  <2>2. WellFormed(m)
    BY LiveIs DEF ResizeInv, SameMagic
  <2>3. ~Suffices(m, target, want)
    <3>1. Suffices(m, target, want) => Patched(m, target, want) = m
      BY DEF Patched
    <3> QED
      BY <2>1, <3>1
  <2> DEFINE lay == LayoutOf(m)
             more == LayoutOf(Live(super'))
  <2>4. \E lacking \in 1 .. DevSectors :
           /\ want - SizeOf(lay[target]) = lacking
           /\ GroupHolds(lay, target, RoundUp(lacking))
           /\ \E s \in 0 .. DevSectors - RoundUp(lacking) :
                /\ IsTail(lay, s)
                /\ more = [lay EXCEPT ![target] =
                     Append(@, [n |-> RoundUp(lacking), linear |-> TRUE, at |-> s])]
    BY <2>1, <2>2, <2>3, PatchGrows
  <2>5. L!Grow(target, want)
    BY <2>4, PromiseIs DEF L!Grow
  <2> QED
    BY <2>5 DEF L!LayoutNext
<1> QED
  BY <1>1, <1>2, AlwaysInv, PTL DEF Spec, LiveGrows, L!LayoutSpec

\* What is on the device stays readable for whoever boots: the layout that liblp sees
\* is sound at every moment, and each partition keeps its extents in place.
THEOREM ResizeKeepsData == Spec => []L!Sound /\ L!KeepsData
<1>1. ResizeInv => L!Sound
  <2> SUFFICES ASSUME ResizeInv PROVE L!Sound
    OBVIOUS
  <2>1. WellFormed(Live(super))
    BY LiveIs DEF ResizeInv, SameMagic
  <2>2. LayoutOf(Live(super)) \in Layout /\ InDevice(LayoutOf(Live(super))) /\ NoOverlap(LayoutOf(Live(super)))
    BY <2>1, WellFormedIs, IndexIs
  <2> QED
    BY <2>2, PromiseIs DEF L!Sound
<1>2. ResizeInv /\ [Next]_vars => [L!DataKept]_(LayoutOf(Live(super)))
  <2> SUFFICES ASSUME ResizeInv, [Next]_vars, LayoutOf(Live(super')) # LayoutOf(Live(super))
               PROVE  L!DataKept
    BY DEF LayoutOf, Live
  <2> DEFINE m == Live(super)
             lay == LayoutOf(m)
             more == LayoutOf(Live(super'))
  <2>1. PICK target \in Partitions, want \in Wanted : Live(super') = Patched(m, target, want)
    BY LiveSteps
  <2>2. WellFormed(m)
    BY LiveIs DEF ResizeInv, SameMagic
  <2>3. ~Suffices(m, target, want)
    <3>1. Suffices(m, target, want) => Patched(m, target, want) = m
      BY DEF Patched
    <3> QED
      BY <2>1, <3>1
  <2> DEFINE x == Added(m, target, want)
  <2>4. lay \in Layout /\ more = [lay EXCEPT ![target] = Append(@, x)] /\ x \in Extent
    BY <2>1, <2>2, <2>3, WellFormedIs, IndexIs, PatchedLayout, LacksIs
  <2> HIDE DEF lay, more, x
  <2>5. ASSUME NEW p \in Partitions PROVE IsPrefix(lay[p], more[p])
    <3>1. lay[p] \in Seq(Extent)
      BY <2>4 DEF Layout
    <3>2. more[p] \in {lay[p], Append(lay[p], x)}
      BY <2>4 DEF Layout
    <3>3. IsPrefix(lay[p], lay[p])
      BY <3>1 DEF IsPrefix
    <3>4. IsPrefix(lay[p], Append(lay[p], x))
      BY <2>4, <3>1 DEF IsPrefix
    <3> QED
      BY <3>2, <3>3, <3>4
  <2>6. \A p \in Partitions : IsPrefix(LayoutOf(Live(super))[p], LayoutOf(Live(super'))[p])
    BY <2>5 DEF lay, more
  <2> QED
    BY <2>6 DEF L!DataKept, L!IsPrefix, IsPrefix
<1> QED
  BY <1>1, <1>2, AlwaysInv, PTL DEF Spec, L!KeepsData

=============================================================================
