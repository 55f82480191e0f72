--------------------------- MODULE SuperFlashProofs ---------------------------
(***************************************************************************)
(* Flashing a logical partition: for any partition and any images, the     *)
(* writes stay on the partition's own units and leave the image there.     *)
(***************************************************************************)
EXTENDS SuperFlash, FiniteSetTheorems, TLAPS

-----------------------------------------------------------------------------
(* Induction, for sets of numbers. *)

\* Among finite sets there is one that no other is a part of.
LEMMA SmallestSet ==
  ASSUME NEW T, NEW x0 \in T, \A x \in T : IsFiniteSet(x)
  PROVE  \E x \in T : \A y \in T : y \subseteq x => y = x
<1> DEFINE U == UNION T
<1>1. IsWellFoundedOn(StrictSubsetOrdering(U), FiniteSubsetsOf(U))
  BY FS_StrictSubsetOrderingWellFounded
<1>2. T \subseteq FiniteSubsetsOf(U)
  BY DEF FiniteSubsetsOf
<1>3. \E x \in T : \A y \in T : ~ (<<y, x>> \in StrictSubsetOrdering(U))
  BY <1>1, <1>2, WFMin
<1>4. \A x, y \in T : y \subseteq x /\ y # x => <<y, x>> \in StrictSubsetOrdering(U)
  BY DEF StrictSubsetOrdering
<1> QED
  BY <1>3, <1>4

LEMMA LeastNumber ==
  ASSUME NEW S \in SUBSET Nat, NEW n0 \in S
  PROVE  \E m \in S : \A k \in S : m <= k
<1> DEFINE T == {1 .. n : n \in S}
<1>1. \A x \in T : IsFiniteSet(x)
  BY FS_Interval
<1>2. 1 .. n0 \in T
  OBVIOUS
<1> HIDE DEF T
<1>3. PICK x \in T : \A y \in T : y \subseteq x => y = x
  BY <1>1, <1>2, SmallestSet
<1>4. PICK m \in S : x = 1 .. m
  BY DEF T
<1>5. ASSUME NEW k \in S, k < m PROVE FALSE
  <2>1. 1 .. k \subseteq 1 .. m /\ 1 .. k \in T
    BY <1>5 DEF T
  <2>2. 1 .. k = 1 .. m
    BY <2>1, <1>3, <1>4
  <2>3. m \in 1 .. m /\ m \notin 1 .. k
    BY <1>5
  <2> QED
    BY <2>2, <2>3
<1> QED
  BY <1>5

LEMMA NatInduct ==
  ASSUME NEW S, 0 \in S, \A n \in Nat : n \in S => n + 1 \in S
  PROVE  Nat \subseteq S
<1> SUFFICES ASSUME NEW n0 \in Nat \ S PROVE FALSE
  OBVIOUS
<1>1. PICK m \in Nat \ S : \A k \in Nat \ S : m <= k
  <2> DEFINE R == Nat \ S
  <2>1. R \in SUBSET Nat /\ n0 \in R
    OBVIOUS
  <2> HIDE DEF R
  <2>2. \E m \in R : \A k \in R : m <= k
    BY <2>1, LeastNumber
  <2> QED
    BY <2>2 DEF R
<1>2. m # 0 /\ m - 1 \in Nat
  OBVIOUS
<1>3. m - 1 \in S
  BY <1>1, <1>2
<1> QED
  BY <1>2, <1>3

(* What a recursive function needs to be what it is defined to be: a function *)
(* that satisfies its equation exists.                                       *)
Recurses(g, N, zero, step) ==
  g[0] = zero /\ \A n \in 1 .. N : g[n] = step[n][g[n-1]]

LEMMA RecursionExists ==
  ASSUME NEW N \in Nat, NEW S, NEW zero \in S, NEW step \in [1 .. N -> [S -> S]]
  PROVE  \E g \in [0 .. N -> S] : Recurses(g, N, zero, step)
<1> DEFINE Good(m, g) == /\ g \in [0 .. m -> S] /\ g[0] = zero
                         /\ \A n \in 1 .. m : g[n] = step[n][g[n-1]]
           T == {m \in Nat : m <= N => \E g : Good(m, g)}
<1>1. 0 \in T
  <2>1. Good(0, [k \in 0 .. 0 |-> zero])
    OBVIOUS
  <2> QED
    BY <2>1
<1>2. ASSUME NEW m \in Nat, m \in T PROVE m + 1 \in T
  <2> SUFFICES ASSUME m + 1 <= N PROVE \E g : Good(m + 1, g)
    OBVIOUS
  <2>1. PICK g : Good(m, g)
    BY <1>2
  <2> DEFINE h == [k \in 0 .. m + 1 |-> IF k = m + 1 THEN step[m + 1][g[m]] ELSE g[k]]
  <2>2. step[m + 1][g[m]] \in S
    BY <2>1
  <2>3. h \in [0 .. m + 1 -> S] /\ h[0] = zero
    BY <2>1, <2>2
  <2>4. ASSUME NEW n \in 1 .. m + 1 PROVE h[n] = step[n][h[n-1]]
    <3>1. CASE n = m + 1
      <4>1. n - 1 = m /\ h[n] = step[m + 1][g[m]] /\ h[m] = g[m]
        BY <3>1
      <4> QED
        BY <3>1, <4>1
    <3>2. CASE n \in 1 .. m
      <4>1. h[n] = g[n] /\ h[n-1] = g[n-1]
        BY <3>2
      <4> QED
        BY <2>1, <3>2, <4>1
    <3> QED
      BY <3>1, <3>2
  <2> HIDE DEF h
  <2>5. Good(m + 1, h)
    BY <2>3, <2>4
  <2> QED
    BY <2>5
<1> HIDE DEF T
<1>3. N \in T
  BY <1>1, <1>2, NatInduct
<1> QED
  BY <1>3 DEF T, Recurses

LEMMA MaxIsGreatest ==
  ASSUME NEW B \in Nat, NEW S \in SUBSET (0 .. B), S # {}
  PROVE  Max(S) \in S /\ \A x \in S : x <= Max(S)
<1> DEFINE R == {n \in Nat : B - n \in S}
<1>1. PICK x \in S : TRUE
  OBVIOUS
<1>2. B - x \in R
  OBVIOUS
<1>3. PICK m \in R : \A k \in R : m <= k
  <2>1. R \in SUBSET Nat
    OBVIOUS
  <2> HIDE DEF R
  <2> QED
    BY <1>2, <2>1, LeastNumber
<1>4. \A y \in S : B - m >= y
  <2> SUFFICES ASSUME NEW y \in S PROVE B - m >= y
    OBVIOUS
  <2>1. y \in Nat /\ B - y \in R /\ m \in Nat
    OBVIOUS
  <2>2. m <= B - y
    BY <1>3, <2>1
  <2> QED
    BY <2>1, <2>2
<1>5. B - m \in S
  OBVIOUS
<1>6. \E y \in S : \A z \in S : y >= z
  BY <1>4, <1>5
<1>7. Max(S) \in S /\ \A z \in S : Max(S) >= z
  <2> HIDE DEF R
  <2> QED
    BY <1>6 DEF Max
<1>8. \A z \in S : z \in Int
  OBVIOUS
<1> QED
  BY <1>7, <1>8

-----------------------------------------------------------------------------
(* Whole sectors. *)

LEMMA Sector == PerSector \in Nat /\ PerSector > 0
  BY FlashAssumption

LEMMA WholeMeans ==
  ASSUME NEW x \in Int, x % PerSector = 0
  PROVE  x \div PerSector \in Int /\ (x \div PerSector) * PerSector = x
  BY Sector

LEMMA MultipleIsWhole ==
  ASSUME NEW q \in Int PROVE q * PerSector \in Int /\ (q * PerSector) % PerSector = 0
  BY Sector

LEMMA WholeSum ==
  ASSUME NEW x \in Int, NEW y \in Int, x % PerSector = 0, y % PerSector = 0
  PROVE  (x + y) % PerSector = 0 /\ (x - y) % PerSector = 0
<1> DEFINE a == x \div PerSector
           b == y \div PerSector
<1>1. a \in Int /\ b \in Int /\ x = a * PerSector /\ y = b * PerSector
  BY WholeMeans
<1>2. x + y = (a + b) * PerSector /\ x - y = (a - b) * PerSector /\ a + b \in Int /\ a - b \in Int
  BY <1>1, Sector
<1>3. ((a + b) * PerSector) % PerSector = 0 /\ ((a - b) * PerSector) % PerSector = 0
  BY <1>2, MultipleIsWhole
<1> QED
  BY <1>2, <1>3

RoundedUp(n) == ((n + PerSector - 1) \div PerSector) * PerSector

LEMMA RoundedUpBounds ==
  ASSUME NEW n \in Nat
  PROVE  /\ (n + PerSector - 1) \div PerSector \in Nat
         /\ RoundedUp(n) \in Nat /\ n <= RoundedUp(n) /\ RoundedUp(n) < n + PerSector
         /\ RoundedUp(n) % PerSector = 0
<1> DEFINE c == (n + PerSector - 1) \div PerSector
<1>1. c \in Int /\ c >= 0 /\ c * PerSector >= n /\ c * PerSector < n + PerSector
  BY Sector
<1>2. c * PerSector \in Int /\ (c * PerSector) % PerSector = 0
  BY <1>1, MultipleIsWhole
<1> QED
  BY <1>1, <1>2, Sector DEF RoundedUp

\* Rounding up does not go past a whole number of sectors.
LEMMA RoundedUpWithin ==
  ASSUME NEW n \in Nat, NEW m \in Int, m % PerSector = 0, n <= m
  PROVE  RoundedUp(n) <= m
<1> DEFINE c == (n + PerSector - 1) \div PerSector
           q == m \div PerSector
<1>1. c \in Int /\ c * PerSector < n + PerSector /\ q \in Int /\ q * PerSector = m
  BY WholeMeans, Sector
<1> HIDE DEF c, q
<1>2. c < q + 1
  <2>1. c * PerSector < (q + 1) * PerSector
    BY <1>1, Sector
  <2>2. ASSUME c >= q + 1 PROVE FALSE
    <3>1. c * PerSector >= (q + 1) * PerSector
      BY <1>1, <2>2, Sector
    <3> QED
      BY <1>1, <2>1, <3>1, Sector
  <2> QED
    BY <1>1, <2>2
<1>3. c * PerSector <= q * PerSector
  BY <1>1, <1>2, Sector
<1> QED
  BY <1>1, <1>3 DEF RoundedUp, c

-----------------------------------------------------------------------------
(* Where the units of a partition are. *)

Extents == {e \in Seq(Extent) : \A i, j \in DOMAIN e : i # j => Apart(e[i], e[j])}

LEMMA ExtentsAre ==
  ASSUME NEW e \in Seq(Extent), NEW i \in DOMAIN e
  PROVE  /\ e[i].phys \in Nat /\ e[i].len \in Nat /\ e[i].len > 0
         /\ e[i].phys + e[i].len <= DevUnits
<1>1. e[i] \in Extent
  OBVIOUS
<1> QED
  BY <1>1 DEF Extent

LEMMA BeforeSteps ==
  ASSUME NEW e \in Seq(Extent)
  PROVE  /\ Before(e, 1) = 0
         /\ \A i \in 1 .. Len(e) : Before(e, i + 1) = Before(e, i) + e[i].len
         /\ \A i \in 1 .. Len(e) + 1 : Before(e, i) \in Nat
<1> DEFINE N == Len(e)
           step == [n \in 1 .. N |-> [x \in Nat |-> x + e[n].len]]
           Body(g) == [n \in 0 .. N |-> IF n = 0 THEN 0 ELSE g[n-1] + e[n].len]
           sum == CHOOSE g : g = Body(g)
<1>0. N \in Nat /\ \A n \in 1 .. N : e[n].len \in Nat
  BY ExtentsAre
<1>1. PICK g \in [0 .. N -> Nat] : Recurses(g, N, 0, step)
  <2>1. step \in [1 .. N -> [Nat -> Nat]]
    BY <1>0
  <2>2. N \in Nat /\ 0 \in Nat
    BY <1>0
  <2> HIDE DEF step, N
  <2> QED
    BY <2>1, <2>2, RecursionExists
<1>2. g = Body(g)
  <2>1. ASSUME NEW n \in 1 .. N PROVE g[n] = g[n-1] + e[n].len
    <3>1. n - 1 \in 0 .. N
      BY <1>0
    <3>2. g[n-1] \in Nat
      BY <3>1
    <3> QED
      BY <1>1, <3>2 DEF Recurses
  <2>2. g[0] = 0 /\ g = [n \in 0 .. N |-> g[n]]
    BY <1>1 DEF Recurses
  <2>3. \A n \in 0 .. N : g[n] = IF n = 0 THEN 0 ELSE g[n-1] + e[n].len
    <3>1. \A n \in 0 .. N : n = 0 \/ n \in 1 .. N
      BY <1>0
    <3> QED
      BY <2>1, <2>2, <3>1
  <2> QED
    BY <2>2, <2>3
<1>3. sum = Body(sum)
  BY <1>2
<1>4. \A i : Before(e, i) = sum[i - 1]
  BY DEF Before
<1> HIDE DEF sum
<1>5. sum[0] = 0 /\ \A n \in 1 .. N : sum[n] = sum[n-1] + e[n].len
  BY <1>0, <1>3
<1> HIDE DEF Body, step
<1> DEFINE T == {n \in Nat : n <= N => sum[n] \in Nat}
<1>6. 0 \in T
  BY <1>5
<1>7. ASSUME NEW n \in Nat, n \in T PROVE n + 1 \in T
  <2> SUFFICES ASSUME n + 1 <= N PROVE sum[n + 1] \in Nat
    OBVIOUS
  <2>1. n + 1 \in 1 .. N /\ (n + 1) - 1 = n /\ sum[n] \in Nat
    BY <1>0, <1>7
  <2>2. sum[n + 1] = sum[n] + e[n + 1].len
    BY <1>5, <2>1
  <2> QED
    BY <1>0, <2>1, <2>2
<1> HIDE DEF T
<1>8. \A n \in 0 .. N : sum[n] \in Nat
  <2>1. Nat \subseteq T
    BY <1>6, <1>7, NatInduct
  <2>2. \A n \in 0 .. N : n \in Nat /\ n <= N
    BY <1>0
  <2> QED
    BY <2>1, <2>2 DEF T
<1>9. Before(e, 1) = 0
  BY <1>4, <1>5
<1>10. \A i \in 1 .. N : Before(e, i + 1) = Before(e, i) + e[i].len
  <2> TAKE i \in 1 .. N
  <2>1. (i + 1) - 1 = i
    BY <1>0
  <2>2. Before(e, i + 1) = sum[i] /\ Before(e, i) = sum[i - 1]
    BY <1>4, <2>1
  <2> QED
    BY <1>5, <2>2
<1>11. \A i \in 1 .. N + 1 : Before(e, i) \in Nat
  <2> TAKE i \in 1 .. N + 1
  <2>1. i - 1 \in 0 .. N
    BY <1>0
  <2> QED
    BY <1>4, <1>8, <2>1
<1> QED
  BY <1>9, <1>10, <1>11

LEMMA BeforeGrows ==
  ASSUME NEW e \in Seq(Extent), NEW i \in 1 .. Len(e) + 1, NEW j \in 1 .. Len(e) + 1, i <= j
  PROVE  Before(e, i) <= Before(e, j)
<1> DEFINE T == {k \in Nat : i + k <= Len(e) + 1 => Before(e, i) <= Before(e, i + k)}
<1>0. \A k \in 1 .. Len(e) + 1 : Before(e, k) \in Nat
  BY BeforeSteps
<1>1. 0 \in T
  BY <1>0
<1>2. ASSUME NEW k \in Nat, k \in T PROVE k + 1 \in T
  <2> SUFFICES ASSUME i + (k + 1) <= Len(e) + 1 PROVE Before(e, i) <= Before(e, i + (k + 1))
    OBVIOUS
  <2> DEFINE m == i + k
  <2>1. m \in 1 .. Len(e) /\ i + (k + 1) = m + 1 /\ m \in 1 .. Len(e) + 1 /\ m + 1 \in 1 .. Len(e) + 1
    OBVIOUS
  <2>2. Before(e, i) <= Before(e, m)
    BY <1>2
  <2> HIDE DEF m
  <2>3. Before(e, m + 1) = Before(e, m) + e[m].len
    BY <2>1, BeforeSteps
  <2>4. e[m].len \in Nat
    BY <2>1, ExtentsAre
  <2>5. Before(e, i) \in Nat /\ Before(e, m) \in Nat
    BY <1>0, <2>1
  <2>6. Before(e, i) <= Before(e, m + 1)
    BY <2>2, <2>3, <2>4, <2>5
  <2> QED
    BY <2>1, <2>6
<1> HIDE DEF T
<1>3. j - i \in T
  BY <1>1, <1>2, NatInduct
<1>4. i + (j - i) = j
  OBVIOUS
<1> QED
  BY <1>3, <1>4 DEF T

\* Unit u of the partition is in the j-th extent.
InExtent(e, j, u) == Before(e, j) <= u /\ u < Before(e, j + 1)

LEMMA Located ==
  ASSUME NEW e \in Seq(Extent), NEW u \in Nat, u < Total(e)
  PROVE  \E j \in DOMAIN e : InExtent(e, j, u)
<1> DEFINE T == {n \in Nat : n <= Len(e) /\ u < Before(e, n + 1)
                              => \E j \in 1 .. Len(e) : InExtent(e, j, u)}
<1>0. \A k \in 1 .. Len(e) + 1 : Before(e, k) \in Nat
  BY BeforeSteps
<1>1. 0 \in T
  BY BeforeSteps
<1>2. ASSUME NEW n \in Nat, n \in T PROVE n + 1 \in T
  <2> SUFFICES ASSUME n + 1 <= Len(e), u < Before(e, (n + 1) + 1)
               PROVE  \E j \in 1 .. Len(e) : InExtent(e, j, u)
    OBVIOUS
  <2>1. n + 1 \in 1 .. Len(e) /\ Before(e, n + 1) \in Nat
    BY <1>0
  <2>2. CASE u < Before(e, n + 1)
    BY <1>2, <2>2
  <2>3. CASE ~(u < Before(e, n + 1))
    <3>1. InExtent(e, n + 1, u)
      BY <2>1, <2>3 DEF InExtent
    <3> QED
      BY <2>1, <3>1
  <2> QED
    BY <2>2, <2>3
<1> HIDE DEF T
<1>3. Len(e) \in T
  BY <1>1, <1>2, NatInduct
<1> QED
  BY <1>3 DEF T, Total

LEMMA LocatedOnce ==
  ASSUME NEW e \in Seq(Extent), NEW u \in Nat, NEW i \in DOMAIN e, NEW j \in DOMAIN e,
         InExtent(e, i, u), InExtent(e, j, u)
  PROVE  i = j
<1>0. \A k \in 1 .. Len(e) + 1 : Before(e, k) \in Nat
  BY BeforeSteps
<1>1. ASSUME NEW a \in DOMAIN e, NEW b \in DOMAIN e, InExtent(e, a, u), InExtent(e, b, u), a < b
      PROVE  FALSE
  <2>1. a + 1 \in 1 .. Len(e) + 1 /\ b \in 1 .. Len(e) + 1 /\ a + 1 <= b
    BY <1>1
  <2>2. Before(e, a + 1) <= Before(e, b)
    BY <2>1, BeforeGrows
  <2> QED
    BY <1>0, <1>1, <2>1, <2>2 DEF InExtent
<1> QED
  BY <1>1

LEMMA WhereIs ==
  ASSUME NEW e \in Seq(Extent), NEW u \in Nat, NEW j \in DOMAIN e, InExtent(e, j, u)
  PROVE  Where(e, u) = e[j].phys + (u - Before(e, j))
<1> DEFINE i == CHOOSE k \in DOMAIN e : InExtent(e, k, u)
<1>1. i \in DOMAIN e /\ InExtent(e, i, u)
  OBVIOUS
<1>2. i = j
  BY <1>1, LocatedOnce
<1>3. Where(e, u) = e[i].phys + (u - Before(e, i))
  BY DEF Where, InExtent
<1> QED
  BY <1>2, <1>3

LEMMA WhereInside ==
  ASSUME NEW e \in Seq(Extent), NEW u \in Nat, u < Total(e)
  PROVE  /\ Where(e, u) \in Units(e) /\ Where(e, u) \in 0 .. DevUnits - 1
         /\ \E j \in DOMAIN e :
              /\ InExtent(e, j, u) /\ Where(e, u) = e[j].phys + (u - Before(e, j))
              /\ e[j].phys <= Where(e, u) /\ Where(e, u) < e[j].phys + e[j].len
<1>1. PICK j \in DOMAIN e : InExtent(e, j, u)
  BY Located
<1>2. Where(e, u) = e[j].phys + (u - Before(e, j))
  BY <1>1, WhereIs
<1>3. Before(e, j) \in Nat /\ Before(e, j + 1) = Before(e, j) + e[j].len
  <2>1. j \in 1 .. Len(e) /\ j \in 1 .. Len(e) + 1
    OBVIOUS
  <2> QED
    BY <2>1, BeforeSteps
<1>4. /\ e[j].phys \in Nat /\ e[j].len \in Nat /\ e[j].len > 0
      /\ e[j].phys + e[j].len <= DevUnits
  BY ExtentsAre
<1>5. e[j].phys <= Where(e, u) /\ Where(e, u) < e[j].phys + e[j].len /\ Where(e, u) \in Nat
  BY <1>1, <1>2, <1>3, <1>4 DEF InExtent
<1>6. Where(e, u) \in 0 .. DevUnits - 1
  BY <1>4, <1>5, FlashAssumption
<1>7. Where(e, u) \in Units(e)
  <2>1. Where(e, u) \in e[j].phys .. e[j].phys + e[j].len - 1
    BY <1>4, <1>5
  <2> QED
    BY <2>1 DEF Units
<1> QED
  BY <1>1, <1>2, <1>5, <1>6, <1>7

LEMMA WhereInjective ==
  ASSUME NEW e \in Extents, NEW u \in Nat, u < Total(e), NEW v \in Nat, v < Total(e),
         Where(e, u) = Where(e, v)
  PROVE  u = v
<1>0. e \in Seq(Extent)
  BY DEF Extents
<1>1. PICK i \in DOMAIN e : /\ InExtent(e, i, u) /\ Where(e, u) = e[i].phys + (u - Before(e, i))
                            /\ e[i].phys <= Where(e, u) /\ Where(e, u) < e[i].phys + e[i].len
  BY <1>0, WhereInside
<1>2. PICK j \in DOMAIN e : /\ InExtent(e, j, v) /\ Where(e, v) = e[j].phys + (v - Before(e, j))
                            /\ e[j].phys <= Where(e, v) /\ Where(e, v) < e[j].phys + e[j].len
  BY <1>0, WhereInside
<1>3. /\ e[i].phys \in Nat /\ e[i].len \in Nat /\ e[j].phys \in Nat /\ e[j].len \in Nat
      /\ Where(e, u) \in Int
  BY <1>0, ExtentsAre, WhereInside
<1>4. i = j
  <2> SUFFICES ASSUME i # j PROVE FALSE
    OBVIOUS
  <2>1. Apart(e[i], e[j])
    BY DEF Extents
  <2> QED
    BY <1>1, <1>2, <1>3, <2>1 DEF Apart
<1>5. Before(e, i) \in Nat
  <2>1. i \in 1 .. Len(e) + 1
    BY <1>0
  <2> QED
    BY <1>0, <2>1, BeforeSteps
<1>6. e[i].phys + (u - Before(e, i)) = e[i].phys + (v - Before(e, i))
  BY <1>1, <1>2, <1>4
<1> QED
  BY <1>3, <1>5, <1>6

Prefix(e, f) == Len(e) <= Len(f) /\ \A i \in 1 .. Len(e) : f[i] = e[i]

LEMMA PrefixBefore ==
  ASSUME NEW e \in Seq(Extent), NEW f \in Seq(Extent), Prefix(e, f)
  PROVE  \A i \in 1 .. Len(e) + 1 : Before(e, i) = Before(f, i)
<1> DEFINE T == {n \in Nat : n <= Len(e) => Before(e, n + 1) = Before(f, n + 1)}
<1>1. 0 \in T
  BY BeforeSteps
<1>2. ASSUME NEW n \in Nat, n \in T PROVE n + 1 \in T
  <2> SUFFICES ASSUME n + 1 <= Len(e) PROVE Before(e, (n + 1) + 1) = Before(f, (n + 1) + 1)
    OBVIOUS
  <2>1. n + 1 \in 1 .. Len(e) /\ n + 1 \in 1 .. Len(f) /\ f[n + 1] = e[n + 1]
    BY DEF Prefix
  <2>2. Before(e, n + 1) = Before(f, n + 1)
    BY <1>2
  <2>3. Before(e, (n + 1) + 1) = Before(e, n + 1) + e[n + 1].len
    BY <2>1, BeforeSteps
  <2>4. Before(f, (n + 1) + 1) = Before(f, n + 1) + f[n + 1].len
    BY <2>1, BeforeSteps
  <2> QED
    BY <2>1, <2>2, <2>3, <2>4
<1> HIDE DEF T
<1>3. \A n \in Nat : n <= Len(e) => Before(e, n + 1) = Before(f, n + 1)
  BY <1>1, <1>2, NatInduct DEF T
<1> TAKE i \in 1 .. Len(e) + 1
<1>4. i - 1 \in Nat /\ i - 1 <= Len(e) /\ (i - 1) + 1 = i
  OBVIOUS
<1> QED
  BY <1>3, <1>4

LEMMA TotalIsNat ==
  ASSUME NEW e \in Seq(Extent) PROVE Total(e) \in Nat
<1>1. Len(e) + 1 \in 1 .. Len(e) + 1
  OBVIOUS
<1> QED
  BY <1>1, BeforeSteps DEF Total

\* An image is where it was after the partition has grown.
LEMMA PrefixWhere ==
  ASSUME NEW e \in Seq(Extent), NEW f \in Seq(Extent), Prefix(e, f)
  PROVE  /\ Total(e) <= Total(f)
         /\ \A u \in Nat : u < Total(e) => Where(e, u) = Where(f, u)
<1>1. Total(e) <= Total(f)
  <2>1. Len(e) + 1 \in 1 .. Len(e) + 1 /\ Len(e) + 1 \in 1 .. Len(f) + 1
        /\ Len(f) + 1 \in 1 .. Len(f) + 1 /\ Len(e) + 1 <= Len(f) + 1
    BY DEF Prefix
  <2>2. Before(e, Len(e) + 1) = Before(f, Len(e) + 1)
    BY <2>1, PrefixBefore
  <2>3. Before(f, Len(e) + 1) <= Before(f, Len(f) + 1)
    BY <2>1, BeforeGrows
  <2> QED
    BY <2>2, <2>3 DEF Total
<1>2. ASSUME NEW u \in Nat, u < Total(e) PROVE Where(e, u) = Where(f, u)
  <2>1. PICK j \in DOMAIN e : InExtent(e, j, u)
    BY <1>2, Located
  <2>2. j \in 1 .. Len(e) + 1 /\ j + 1 \in 1 .. Len(e) + 1 /\ j \in 1 .. Len(e) /\ j \in DOMAIN f
    BY DEF Prefix
  <2>3. Before(e, j) = Before(f, j) /\ Before(e, j + 1) = Before(f, j + 1) /\ f[j] = e[j]
    BY <2>2, PrefixBefore DEF Prefix
  <2>4. InExtent(f, j, u)
    BY <2>1, <2>3 DEF InExtent
  <2>5. Where(e, u) = e[j].phys + (u - Before(e, j))
    BY <2>1, WhereIs
  <2>6. Where(f, u) = f[j].phys + (u - Before(f, j))
    BY <2>2, <2>4, WhereIs
  <2> QED
    BY <2>3, <2>5, <2>6
<1> QED
  BY <1>1, <1>2

LEMMA AppendPrefix ==
  ASSUME NEW e \in Extents, NEW x \in Extent, \A i \in DOMAIN e : Apart(x, e[i])
  PROVE  Append(e, x) \in Extents /\ Prefix(e, Append(e, x))
<1> DEFINE f == Append(e, x)
<1>1. e \in Seq(Extent) /\ \A i, j \in DOMAIN e : i # j => Apart(e[i], e[j])
  BY DEF Extents
<1>2. f \in Seq(Extent) /\ DOMAIN f = 1 .. Len(e) + 1 /\ Len(f) = Len(e) + 1
      /\ \A i \in 1 .. Len(e) + 1 : f[i] = IF i = Len(e) + 1 THEN x ELSE e[i]
  BY <1>1
<1> HIDE DEF f
<1>3. \A i \in 1 .. Len(e) : i \in DOMAIN e /\ i \in 1 .. Len(e) + 1 /\ i # Len(e) + 1
  BY <1>1
<1>4. \A i \in 1 .. Len(e) + 1 : i = Len(e) + 1 \/ i \in 1 .. Len(e)
  BY <1>1
<1>5. Prefix(e, f)
  BY <1>1, <1>2, <1>3 DEF Prefix
<1>6. \A i \in DOMAIN e : Apart(e[i], x)
  BY DEF Apart
<1>7. \A i, j \in DOMAIN f : i # j => Apart(f[i], f[j])
  BY <1>1, <1>2, <1>3, <1>4, <1>6
<1> QED
  BY <1>2, <1>5, <1>7 DEF Extents, f

-----------------------------------------------------------------------------
(* What a write does. *)

Reach(w) == WriteSectors(w) * PerSector

\* The unit u of the partition is one that w writes the image's data to.
Lands(e, w, u) == Where(e, u) - w.sector * PerSector \in 0 .. Len(w.data) - 1

\* From some unit on, w covers units of the partition in their order: with the
\* image's data as far as the image goes, and with padding behind it.
Placed(e, w, img) ==
  /\ w.sector \in Nat /\ Len(w.data) \in Nat
  /\ \E from \in Nat :
       /\ from + Reach(w) <= Total(e)
       /\ \A k \in 0 .. Reach(w) - 1 : Where(e, from + k) = w.sector * PerSector + k
       /\ \A k \in 0 .. Len(w.data) - 1 : from + k < img.size /\ w.data[k + 1] = Cell(img, from + k)
       /\ \A k \in Len(w.data) .. Reach(w) - 1 : from + k >= img.size

LEMMA ReachIsRounded ==
  ASSUME NEW w, Len(w.data) \in Nat
  PROVE  /\ WriteSectors(w) \in Nat /\ Reach(w) \in Nat /\ Reach(w) = RoundedUp(Len(w.data))
         /\ Len(w.data) <= Reach(w)
  BY RoundedUpBounds DEF WriteSectors, Reach, RoundedUp

LEMMA WrittenIs ==
  ASSUME ext \in Extents, DOMAIN dev = 0 .. DevUnits - 1, NEW img \in Image,
         NEW w, Placed(ext, w, img), NEW n \in 0 .. WriteSectors(w)
  PROVE  /\ DOMAIN Written(w, n) = DOMAIN dev
         /\ \A d \in DOMAIN dev \ Units(ext) : Written(w, n)[d] = dev[d]
         /\ \A u \in Nat : u < Total(ext) /\ u < img.size =>
              /\ Written(w, n)[Where(ext, u)] \in {dev[Where(ext, u)], Cell(img, u)}
              /\ n = WriteSectors(w) /\ Lands(ext, w, u) => Written(w, n)[Where(ext, u)] = Cell(img, u)
<1> DEFINE at == w.sector * PerSector
<1>0. ext \in Seq(Extent) /\ at \in Int /\ Total(ext) \in Nat /\ img.size \in Nat
  BY Sector, TotalIsNat DEF Extents, Placed, Image
<1>1. PICK from \in Nat :
       /\ from + Reach(w) <= Total(ext)
       /\ \A k \in 0 .. Reach(w) - 1 : Where(ext, from + k) = at + k
       /\ \A k \in 0 .. Len(w.data) - 1 : from + k < img.size /\ w.data[k + 1] = Cell(img, from + k)
       /\ \A k \in Len(w.data) .. Reach(w) - 1 : from + k >= img.size
  BY DEF Placed
<1>2. /\ WriteSectors(w) \in Nat /\ Reach(w) \in Nat /\ Len(w.data) \in Nat
      /\ Len(w.data) <= Reach(w) /\ n \in Nat
  BY ReachIsRounded DEF Placed
<1>3. n * PerSector \in Nat /\ n * PerSector <= Reach(w)
  BY <1>2, Sector DEF Reach
<1>4. Written(w, n) =
        [d \in DOMAIN dev |->
           IF d - at \notin 0 .. n * PerSector - 1 THEN dev[d]
           ELSE IF d - at < Len(w.data) THEN w.data[(d - at) + 1] ELSE Padding]
  BY DEF Written
<1> HIDE DEF at
<1>5. ASSUME NEW d \in DOMAIN dev, d - at \in 0 .. n * PerSector - 1
      PROVE  d = Where(ext, from + (d - at)) /\ from + (d - at) < Total(ext) /\ from + (d - at) \in Nat
             /\ d - at \in 0 .. Reach(w) - 1
  <2>1. d \in Int
    BY <1>5
  <2>2. d - at \in 0 .. Reach(w) - 1
    BY <1>0, <1>2, <1>3, <1>5, <2>1
  <2>3. Where(ext, from + (d - at)) = at + (d - at)
    BY <1>1, <2>2
  <2>4. from + (d - at) < Total(ext) /\ from + (d - at) \in Nat
    BY <1>0, <1>1, <1>2, <2>1, <2>2
  <2> QED
    BY <1>0, <2>1, <2>2, <2>3, <2>4
<1>6. ASSUME NEW d \in DOMAIN dev \ Units(ext) PROVE Written(w, n)[d] = dev[d]
  <2>1. d - at \notin 0 .. n * PerSector - 1
    <3> SUFFICES ASSUME d - at \in 0 .. n * PerSector - 1 PROVE FALSE
      OBVIOUS
    <3>1. d = Where(ext, from + (d - at)) /\ from + (d - at) < Total(ext) /\ from + (d - at) \in Nat
      BY <1>5
    <3> QED
      BY <1>0, <3>1, WhereInside
  <2> QED
    BY <1>4, <2>1
<1>7. ASSUME NEW u \in Nat, u < Total(ext), u < img.size
      PROVE  /\ Written(w, n)[Where(ext, u)] \in {dev[Where(ext, u)], Cell(img, u)}
             /\ n = WriteSectors(w) /\ Lands(ext, w, u) => Written(w, n)[Where(ext, u)] = Cell(img, u)
  <2> DEFINE d == Where(ext, u)
             k == d - at
  <2>1. d \in DOMAIN dev
    BY <1>0, <1>7, WhereInside
  <2>2. CASE k \in 0 .. n * PerSector - 1
    <3>1. /\ d = Where(ext, from + k) /\ from + k < Total(ext) /\ from + k \in Nat
          /\ k \in 0 .. Reach(w) - 1
      BY <1>5, <2>1, <2>2
    <3>2. u = from + k
      BY <1>7, <3>1, WhereInjective
    <3>3. k < Len(w.data)
      <4> SUFFICES ASSUME ~(k < Len(w.data)) PROVE FALSE
        OBVIOUS
      <4>1. k \in Len(w.data) .. Reach(w) - 1
        BY <1>2, <3>1
      <4>2. u >= img.size
        BY <1>1, <3>2, <4>1
      <4> QED
        BY <1>0, <1>7, <4>2
    <3>4. k \in 0 .. Len(w.data) - 1
      BY <1>2, <3>1, <3>3
    <3>5. w.data[k + 1] = Cell(img, u)
      BY <1>1, <3>2, <3>4
    <3>6. Written(w, n)[d] = w.data[k + 1]
      BY <1>4, <2>1, <2>2, <3>3
    <3> QED
      BY <3>5, <3>6
  <2>3. CASE k \notin 0 .. n * PerSector - 1
    <3>1. Written(w, n)[d] = dev[d]
      BY <1>4, <2>1, <2>3
    <3>2. ASSUME n = WriteSectors(w), Lands(ext, w, u) PROVE FALSE
      <4>1. k \in 0 .. Len(w.data) - 1
        BY <3>2 DEF Lands, at
      <4>2. n * PerSector = Reach(w)
        BY <3>2 DEF Reach
      <4>3. k \in 0 .. n * PerSector - 1
        BY <1>2, <4>1, <4>2
      <4> QED
        BY <2>3, <4>3
    <3> QED
      BY <3>1, <3>2
  <2> QED
    BY <2>2, <2>3
<1>8. DOMAIN Written(w, n) = DOMAIN dev
  BY <1>4
<1> QED
  BY <1>6, <1>7, <1>8

LEMMA WriteData ==
  ASSUME NEW sector, NEW img, NEW from \in Nat, NEW to \in Nat, from <= to
  PROVE  /\ Write(sector, img, from, to).sector = sector
         /\ Len(Write(sector, img, from, to).data) = to - from
         /\ \A k \in 0 .. to - from - 1 :
              Write(sector, img, from, to).data[k + 1] = Cell(img, from + k)
<1> DEFINE d == [k \in 1 .. to - from |-> Cell(img, from + k - 1)]
<1>1. Write(sector, img, from, to).sector = sector /\ Write(sector, img, from, to).data = d
  BY DEF Write
<1>2. to - from \in Nat
  OBVIOUS
<1>3. Len(d) = to - from
  BY <1>2
<1>4. ASSUME NEW k \in 0 .. to - from - 1 PROVE d[k + 1] = Cell(img, from + k)
  <2>1. k + 1 \in 1 .. to - from /\ from + (k + 1) - 1 = from + k
    OBVIOUS
  <2> QED
    BY <2>1
<1> HIDE DEF d
<1> QED
  BY <1>1, <1>3, <1>4

\* When a write is placed: in one piece on the device, and with no unit of the image
\* in the rest of its last sector.
LEMMA WriteIsPlaced ==
  ASSUME NEW sector \in Nat, NEW img \in Image, NEW from \in Nat, NEW to \in Nat,
         from <= to, to <= img.size,
         from + RoundedUp(to - from) <= Total(ext),
         \A k \in 0 .. RoundedUp(to - from) - 1 : Where(ext, from + k) = sector * PerSector + k,
         to = img.size \/ (to - from) % PerSector = 0
  PROVE  /\ Placed(ext, Write(sector, img, from, to), img)
         /\ Write(sector, img, from, to).sector = sector
         /\ Len(Write(sector, img, from, to).data) = to - from
<1> DEFINE w == Write(sector, img, from, to)
           n == to - from
<1>0. n \in Nat /\ img.size \in Nat
  BY DEF Image
<1>1. w.sector = sector /\ Len(w.data) = n
  BY WriteData
<1>2. \A k \in 0 .. n - 1 : w.data[k + 1] = Cell(img, from + k)
  BY WriteData
<1>3. Reach(w) = RoundedUp(n) /\ RoundedUp(n) \in Nat
  BY <1>0, <1>1, ReachIsRounded
<1>4. \A k \in 0 .. Reach(w) - 1 : Where(ext, from + k) = w.sector * PerSector + k
  BY <1>1, <1>3
<1>5. \A k \in 0 .. Len(w.data) - 1 : from + k < img.size /\ w.data[k + 1] = Cell(img, from + k)
  BY <1>0, <1>1, <1>2
<1>6. \A k \in Len(w.data) .. Reach(w) - 1 : from + k >= img.size
  <2>1. CASE to = img.size
    BY <1>0, <1>1, <2>1
  <2>2. CASE n % PerSector = 0
    <3>1. RoundedUp(n) <= n
      BY <1>0, <2>2, RoundedUpWithin
    <3> QED
      BY <1>0, <1>1, <1>3, <3>1
  <2> QED
    BY <2>1, <2>2
<1> HIDE DEF w
<1>7. w.sector \in Nat /\ Len(w.data) \in Nat /\ from + Reach(w) <= Total(ext)
  BY <1>0, <1>1, <1>3
<1>8. Placed(ext, w, img)
  BY <1>4, <1>5, <1>6, <1>7 DEF Placed
<1> QED
  BY <1>1, <1>8 DEF w

LEMMA MinOfTwo ==
  ASSUME NEW a \in Nat, NEW b \in Nat
  PROVE  Min({a, b}) = IF a <= b THEN a ELSE b
<1> DEFINE m == Min({a, b})
<1>1. \E x \in {a, b} : \A y \in {a, b} : x <= y
  OBVIOUS
<1>2. m \in {a, b} /\ \A y \in {a, b} : m <= y
  BY <1>1 DEF Min
<1> HIDE DEF m
<1>3. m = IF a <= b THEN a ELSE b
  BY <1>2
<1> QED
  BY <1>3 DEF m

\* The extents hold the whole image, and those it reaches are whole sectors.
Fits(e, img) ==
  /\ img.size <= Total(e)
  /\ \A i \in DOMAIN e : Before(e, i) < img.size =>
       e[i].phys % PerSector = 0 /\ e[i].len % PerSector = 0

DumpIsOld == ext \in Extents /\ dump \in Seq(Extent) /\ Prefix(dump, ext)

LEMMA DumpWhere ==
  ASSUME DumpIsOld
  PROVE  /\ Total(dump) \in Nat /\ Total(ext) \in Nat /\ Total(dump) <= Total(ext)
         /\ \A u \in Nat : u < Total(dump) => Where(ext, u) = Where(dump, u)
<1>1. ext \in Seq(Extent) /\ dump \in Seq(Extent) /\ Prefix(dump, ext)
  BY DEF DumpIsOld, Extents
<1> QED
  BY <1>1, TotalIsNat, PrefixWhere

\* The extents an image reaches begin and end at whole sectors of it.
LEMMA WholeBefore ==
  ASSUME DumpIsOld, NEW img \in Image, Fits(dump, img), NEW i \in DOMAIN dump, Before(dump, i) < img.size
  PROVE  /\ Before(dump, i) % PerSector = 0 /\ Before(dump, i + 1) % PerSector = 0
         /\ Before(dump, i) \in Nat /\ Before(dump, i + 1) \in Nat
         /\ Before(dump, i + 1) = Before(dump, i) + dump[i].len
         /\ Before(dump, i + 1) <= Total(dump)
<1> DEFINE N == Len(dump)
           T == {n \in Nat : n + 1 <= N /\ Before(dump, n + 1) < img.size
                                => Before(dump, n + 1) % PerSector = 0}
<1>0. dump \in Seq(Extent) /\ img.size \in Nat
  BY DEF DumpIsOld, Image
<1>1. /\ Before(dump, 1) = 0
      /\ \A k \in 1 .. N : Before(dump, k + 1) = Before(dump, k) + dump[k].len
      /\ \A k \in 1 .. N + 1 : Before(dump, k) \in Nat
  BY <1>0, BeforeSteps
<1>2. \A k \in 1 .. N : dump[k].len \in Nat
  BY <1>0, ExtentsAre
<1>3. ASSUME NEW k \in 1 .. N, Before(dump, k) < img.size, Before(dump, k) % PerSector = 0
      PROVE  Before(dump, k + 1) % PerSector = 0
  <2>1. dump[k].len % PerSector = 0
    BY <1>0, <1>3 DEF Fits
  <2>2. Before(dump, k) \in Int /\ dump[k].len \in Int
    BY <1>1, <1>2
  <2>3. (Before(dump, k) + dump[k].len) % PerSector = 0
    BY <1>3, <2>1, <2>2, WholeSum
  <2> QED
    BY <1>1, <2>3
<1>4. 0 \in T
  BY <1>1, Sector
<1>5. ASSUME NEW n \in Nat, n \in T PROVE n + 1 \in T
  <2> SUFFICES ASSUME (n + 1) + 1 <= N, Before(dump, (n + 1) + 1) < img.size
               PROVE  Before(dump, (n + 1) + 1) % PerSector = 0
    OBVIOUS
  <2>1. n + 1 \in 1 .. N /\ N \in Nat /\ n + 1 \in 1 .. N + 1 /\ n + 1 <= N
    BY <1>0
  <2>2. Before(dump, (n + 1) + 1) = Before(dump, n + 1) + dump[n + 1].len
    BY <1>1, <2>1
  <2>3. Before(dump, n + 1) < img.size
    BY <1>0, <1>1, <1>2, <2>1, <2>2
  <2>4. Before(dump, n + 1) % PerSector = 0
    BY <1>5, <2>1, <2>3
  <2> QED
    BY <1>3, <2>1, <2>3, <2>4
<1> HIDE DEF T
<1>6. Nat \subseteq T
  BY <1>4, <1>5, NatInduct
<1>7. i \in 1 .. N /\ i \in 1 .. N + 1 /\ i + 1 \in 1 .. N + 1 /\ N + 1 \in 1 .. N + 1
      /\ i - 1 \in Nat /\ (i - 1) + 1 = i /\ i + 1 <= N + 1
  BY <1>0
<1>8. Before(dump, i) % PerSector = 0
  <2>1. i - 1 \in T
    BY <1>6, <1>7
  <2>2. (i - 1) + 1 <= N /\ Before(dump, (i - 1) + 1) < img.size
    BY <1>7
  <2>3. Before(dump, (i - 1) + 1) % PerSector = 0
    BY <2>1, <2>2 DEF T
  <2> QED
    BY <1>7, <2>3
<1>9. Before(dump, i + 1) <= Total(dump)
  BY <1>0, <1>7, BeforeGrows DEF Total
<1> QED
  BY <1>1, <1>3, <1>7, <1>8, <1>9

-----------------------------------------------------------------------------
(* The whole image: its pieces are placed, and leave nothing out. *)

LEMMA PiecesArePlaced ==
  ASSUME DumpIsOld, NEW img \in Image, Fits(dump, img)
  PROVE  /\ Pieces(img) # <<>> /\ Pieces(img) \in Seq(ToSet(Pieces(img)))
         /\ \A i \in DOMAIN Pieces(img) : Placed(ext, Pieces(img)[i], img)
         /\ \A u \in Nat : u < img.size => \E i \in DOMAIN Pieces(img) : Lands(ext, Pieces(img)[i], u)
<1> DEFINE reached == {i \in DOMAIN dump : Before(dump, i) < img.size}
           m == Max(reached)
           to(i) == Min({img.size, Before(dump, i + 1)})
           piece(i) == Write(dump[i].phys \div PerSector, img, Before(dump, i), to(i))
<1>0. dump \in Seq(Extent) /\ img.size \in Nat /\ img.size > 0 /\ Len(dump) \in Nat
      /\ DOMAIN dump = 1 .. Len(dump)
  BY DEF DumpIsOld, Image
<1>1. Pieces(img) = [i \in 1 .. m |-> piece(i)]
  BY DEF Pieces
<1>2. ASSUME NEW u \in Nat, u < img.size
      PROVE  \E j \in DOMAIN dump : j \in reached /\ InExtent(dump, j, u)
  <2>1. u < Total(dump)
    BY <1>0, <1>2, DumpWhere DEF Fits
  <2>2. PICK j \in DOMAIN dump : InExtent(dump, j, u)
    BY <1>0, <2>1, Located
  <2>3. j \in 1 .. Len(dump) + 1
    BY <1>0
  <2>4. Before(dump, j) \in Nat
    BY <1>0, <2>3, BeforeSteps
  <2>5. Before(dump, j) < img.size
    BY <1>0, <1>2, <2>2, <2>4 DEF InExtent
  <2> QED
    BY <2>2, <2>5
<1>3. m \in reached /\ \A i \in reached : i <= m
  <2>1. reached \in SUBSET (0 .. Len(dump)) /\ reached # {}
    BY <1>0, <1>2
  <2> HIDE DEF reached
  <2> QED
    BY <1>0, <2>1, MaxIsGreatest
<1>4. m \in Nat /\ m > 0 /\ m <= Len(dump)
  BY <1>0, <1>3
<1>5. ASSUME NEW i \in 1 .. m
      PROVE  i \in DOMAIN dump /\ Before(dump, i) < img.size
  <2>1. i \in 1 .. Len(dump) + 1 /\ m \in 1 .. Len(dump) + 1 /\ i <= m /\ i \in DOMAIN dump
    BY <1>0, <1>4
  <2>2. Before(dump, i) <= Before(dump, m) /\ Before(dump, i) \in Nat /\ Before(dump, m) \in Nat
    BY <1>0, <2>1, BeforeGrows, BeforeSteps
  <2>3. Before(dump, m) < img.size
    BY <1>3
  <2> QED
    BY <1>0, <2>1, <2>2, <2>3
<1> HIDE DEF m, reached
<1>6. ASSUME NEW i \in 1 .. m
      PROVE  /\ Placed(ext, piece(i), img) /\ to(i) \in Nat /\ Before(dump, i) <= to(i)
             /\ Before(dump, i) \in Nat
             /\ to(i) = img.size \/ to(i) = Before(dump, i + 1)
             /\ piece(i).sector * PerSector = dump[i].phys
             /\ Len(piece(i).data) = to(i) - Before(dump, i)
  <2> DEFINE b == Before(dump, i)
             c == Before(dump, i + 1)
             sector == dump[i].phys \div PerSector
  <2>0. i \in DOMAIN dump /\ b < img.size
    BY <1>5
  <2>1. /\ b \in Nat /\ c \in Nat /\ c = b + dump[i].len /\ c <= Total(dump)
        /\ b % PerSector = 0 /\ c % PerSector = 0
    BY <2>0, WholeBefore
  <2>2. dump[i].phys \in Nat /\ dump[i].len \in Nat /\ dump[i].len > 0
    BY <1>0, <2>0, ExtentsAre
  <2>3. dump[i].phys % PerSector = 0 /\ dump[i].len % PerSector = 0
    BY <2>0 DEF Fits
  <2>4. sector \in Nat /\ sector * PerSector = dump[i].phys
    BY <2>2, <2>3, WholeMeans, Sector
  <2>5. to(i) = IF img.size <= c THEN img.size ELSE c
    BY <1>0, <2>1, MinOfTwo
  <2> DEFINE n == to(i) - b
  <2>6. to(i) \in Nat /\ b <= to(i) /\ to(i) <= img.size /\ to(i) <= c /\ n \in Nat /\ n <= dump[i].len
    BY <1>0, <2>0, <2>1, <2>2, <2>5
  <2>7. RoundedUp(n) <= dump[i].len /\ RoundedUp(n) \in Nat
    BY <2>2, <2>3, <2>6, RoundedUpWithin, RoundedUpBounds
  <2>8. b + RoundedUp(n) <= Total(ext)
    BY <2>1, <2>2, <2>7, DumpWhere
  <2>9. \A k \in 0 .. RoundedUp(n) - 1 : Where(ext, b + k) = sector * PerSector + k
    <3> TAKE k \in 0 .. RoundedUp(n) - 1
    <3>1. b + k \in Nat /\ b <= b + k /\ b + k < c
      BY <2>1, <2>2, <2>7
    <3>2. b + k < Total(dump)
      BY <2>1, <3>1, DumpWhere
    <3>3. InExtent(dump, i, b + k)
      BY <3>1 DEF InExtent
    <3>4. Where(dump, b + k) = dump[i].phys + ((b + k) - b)
      BY <1>0, <2>0, <3>1, <3>3, WhereIs
    <3>5. Where(ext, b + k) = Where(dump, b + k)
      BY <3>1, <3>2, DumpWhere
    <3> QED
      BY <2>1, <2>2, <2>4, <3>4, <3>5
  <2>10. to(i) = img.size \/ n % PerSector = 0
    <3>1. to(i) = c => n = dump[i].len
      BY <2>1, <2>2
    <3> QED
      BY <2>3, <2>5, <3>1
  <2> HIDE DEF b, c, sector, to
  <2>11. /\ Placed(ext, Write(sector, img, b, to(i)), img)
         /\ Write(sector, img, b, to(i)).sector = sector
         /\ Len(Write(sector, img, b, to(i)).data) = to(i) - b
    BY <2>1, <2>4, <2>6, <2>8, <2>9, <2>10, WriteIsPlaced
  <2> QED
    BY <2>1, <2>4, <2>5, <2>6, <2>11 DEF b, c, sector
<1> HIDE DEF piece, to
<1>7. /\ Pieces(img) \in Seq(ToSet(Pieces(img)))
      /\ DOMAIN Pieces(img) = 1 .. m /\ Pieces(img) # <<>>
      /\ \A i \in 1 .. m : Pieces(img)[i] = piece(i)
  BY <1>1, <1>4 DEF ToSet
<1>8. ASSUME NEW u \in Nat, u < img.size PROVE \E i \in 1 .. m : Lands(ext, piece(i), u)
  <2>1. PICK j \in DOMAIN dump : j \in reached /\ InExtent(dump, j, u)
    BY <1>2, <1>8
  <2>2. j \in 1 .. m
    BY <1>0, <1>3, <1>4, <2>1
  <2>3. Where(dump, u) = dump[j].phys + (u - Before(dump, j))
    BY <1>0, <2>1, WhereIs
  <2>4. Where(ext, u) = Where(dump, u)
    BY <1>0, <1>8, DumpWhere DEF Fits
  <2>5. dump[j].phys \in Nat
    BY <1>0, <2>1, ExtentsAre
  <2>6. u < to(j)
    BY <1>6, <1>8, <2>1, <2>2 DEF InExtent
  <2>7. u - Before(dump, j) \in 0 .. to(j) - Before(dump, j) - 1
    BY <1>6, <2>1, <2>2, <2>6 DEF InExtent
  <2>8. Where(ext, u) - piece(j).sector * PerSector = u - Before(dump, j)
    BY <1>6, <2>2, <2>3, <2>4, <2>5
  <2>9. Lands(ext, piece(j), u)
    BY <1>6, <2>2, <2>7, <2>8 DEF Lands
  <2> QED
    BY <2>2, <2>9
<1> QED
  BY <1>4, <1>6, <1>7, <1>8

-----------------------------------------------------------------------------
(* The runs: between them the changed sectors, and no other. *)

Pairs == Nat \X Nat

\* The runs r are those of the changed sectors before the m-th.
RunsTo(r, changed, m) ==
  /\ r \in Seq(Pairs)
  /\ \A i \in DOMAIN r : r[i][1] <= r[i][2] /\ r[i][2] < m
                         /\ \A s \in r[i][1] .. r[i][2] : s \in changed
  /\ \A c \in changed : c < m => \E i \in DOMAIN r : r[i][1] <= c /\ c <= r[i][2]
  /\ m - 1 \in changed => Len(r) > 0 /\ r[Len(r)][2] = m - 1

\* One round of the loop.
Coalesce(r, changed, s) ==
  IF s - 1 \notin changed THEN r
  ELSE IF s - 2 \in changed
       THEN [r EXCEPT ![Len(r)] = <<r[Len(r)][1], s - 1>>]
       ELSE Append(r, <<s - 1, s - 1>>)

LEMMA SeqUpdates ==
  ASSUME NEW P, NEW r \in Seq(P), NEW x \in P
  PROVE  /\ Append(r, x) \in Seq(P) /\ Len(Append(r, x)) = Len(r) + 1
         /\ DOMAIN Append(r, x) = 1 .. Len(r) + 1
         /\ \A i \in DOMAIN r : /\ [r EXCEPT ![i] = x] \in Seq(P)
                               /\ Len([r EXCEPT ![i] = x]) = Len(r)
                               /\ DOMAIN [r EXCEPT ![i] = x] = DOMAIN r
  OBVIOUS

LEMMA CoalesceStep ==
  ASSUME NEW changed \in SUBSET Nat, NEW m \in Nat, NEW r, RunsTo(r, changed, m)
  PROVE  RunsTo(Coalesce(r, changed, m + 1), changed, m + 1)
<1> DEFINE q == Coalesce(r, changed, m + 1)
<1>0. /\ r \in Seq(Pairs) /\ Len(r) \in Nat /\ DOMAIN r = 1 .. Len(r)
      /\ \A i \in DOMAIN r : r[i] \in Pairs /\ r[i][1] \in Nat /\ r[i][2] \in Nat
  BY DEF RunsTo, Pairs
<1>a. (m + 1) - 1 = m /\ (m + 1) - 2 = m - 1
  OBVIOUS
<1>b. \A c \in changed : c \in Nat /\ (c < m + 1 => c < m \/ c = m)
  OBVIOUS
<1>1. CASE m \notin changed
  <2>1. q = r
    BY <1>1, <1>a DEF Coalesce
  <2>2. \A i \in DOMAIN r : r[i][2] < m + 1
    BY <1>0 DEF RunsTo
  <2>3. \A c \in changed : c < m + 1 => c < m
    BY <1>1, <1>b
  <2> QED
    BY <1>0, <1>1, <1>a, <2>1, <2>2, <2>3 DEF RunsTo
<1>2. CASE m \in changed /\ m - 1 \in changed
  <2> DEFINE last == <<r[Len(r)][1], m>>
  <2>1. Len(r) \in DOMAIN r /\ r[Len(r)][2] = m - 1
    BY <1>0, <1>2 DEF RunsTo
  <2>2. q = [r EXCEPT ![Len(r)] = last]
    BY <1>2, <1>a DEF Coalesce
  <2>3. last \in Pairs
    BY <1>0, <2>1 DEF Pairs
  <2> HIDE DEF q, last
  <2>4. q \in Seq(Pairs) /\ Len(q) = Len(r) /\ DOMAIN q = DOMAIN r
    BY <1>0, <2>1, <2>2, <2>3, SeqUpdates
  <2>5. \A i \in DOMAIN r : q[i] = IF i = Len(r) THEN last ELSE r[i]
    BY <2>2
  <2> USE DEF last
  <2>6. r[Len(r)][1] <= m - 1 /\ r[Len(r)][1] \in Nat
    BY <1>0, <2>1 DEF RunsTo
  <2>7. ASSUME NEW i \in DOMAIN q
        PROVE  q[i][1] <= q[i][2] /\ q[i][2] < m + 1 /\ \A s \in q[i][1] .. q[i][2] : s \in changed
    <3>1. CASE i = Len(r)
      <4>1. q[i][1] = r[Len(r)][1] /\ q[i][2] = m
        BY <2>1, <2>5, <3>1
      <4>2. ASSUME NEW s \in r[Len(r)][1] .. m PROVE s \in changed
        <5>1. s = m \/ s \in r[Len(r)][1] .. m - 1
          BY <2>6
        <5> QED
          BY <1>2, <2>1, <5>1 DEF RunsTo
      <4> QED
        BY <2>6, <4>1, <4>2
    <3>2. CASE i # Len(r)
      <4>1. q[i] = r[i] /\ i \in DOMAIN r
        BY <2>4, <2>5, <3>2
      <4>2. /\ r[i][1] <= r[i][2] /\ r[i][2] < m /\ r[i][2] \in Nat
            /\ \A s \in r[i][1] .. r[i][2] : s \in changed
        BY <1>0, <4>1 DEF RunsTo
      <4> QED
        BY <4>1, <4>2
    <3> QED
      BY <3>1, <3>2
  <2>8. ASSUME NEW c \in changed, c < m + 1 PROVE \E i \in DOMAIN q : q[i][1] <= c /\ c <= q[i][2]
    <3>1. q[Len(r)][1] = r[Len(r)][1] /\ q[Len(r)][2] = m /\ Len(r) \in DOMAIN q
      BY <2>1, <2>4, <2>5
    <3>2. CASE c = m
      BY <2>6, <3>1, <3>2
    <3>3. CASE c < m
      <4>1. PICK i \in DOMAIN r : r[i][1] <= c /\ c <= r[i][2]
        BY <3>3 DEF RunsTo
      <4>2. CASE i = Len(r)
        <5>1. q[Len(r)][1] <= c /\ c <= q[Len(r)][2]
          BY <1>b, <3>1, <3>3, <4>1, <4>2
        <5> QED
          BY <3>1, <5>1
      <4>3. CASE i # Len(r)
        BY <2>4, <2>5, <4>1, <4>3
      <4> QED
        BY <4>2, <4>3
    <3> QED
      BY <1>b, <2>8, <3>2, <3>3
  <2>9. Len(q) > 0 /\ q[Len(q)][2] = m
    BY <1>0, <2>1, <2>4, <2>5
  <2>10. RunsTo(q, changed, m + 1)
    BY <1>a, <2>4, <2>7, <2>8, <2>9 DEF RunsTo
  <2> QED
    BY <2>10 DEF q
<1>3. CASE m \in changed /\ m - 1 \notin changed
  <2> DEFINE new == <<m, m>>
             n == Len(r) + 1
  <2>1. q = Append(r, new)
    BY <1>3, <1>a DEF Coalesce
  <2>2. new \in Pairs
    BY DEF Pairs
  <2> HIDE DEF q, new
  <2>3. q \in Seq(Pairs) /\ Len(q) = n /\ DOMAIN q = 1 .. n
    BY <1>0, <2>1, <2>2, SeqUpdates
  <2>4. q[n] = new /\ \A i \in DOMAIN r : q[i] = r[i]
    BY <1>0, <2>1
  <2> USE DEF new
  <2>5. n \in DOMAIN q /\ \A i \in DOMAIN r : i \in DOMAIN q
    BY <1>0, <2>3
  <2>6. \A i \in DOMAIN q : i = n \/ i \in DOMAIN r
    BY <1>0, <2>3
  <2>7. q[n][1] = m /\ q[n][2] = m
    BY <2>4
  <2>8. ASSUME NEW i \in DOMAIN q
        PROVE  q[i][1] <= q[i][2] /\ q[i][2] < m + 1 /\ \A s \in q[i][1] .. q[i][2] : s \in changed
    <3>1. CASE i = n
      <4>1. \A s \in m .. m : s = m
        OBVIOUS
      <4> QED
        BY <1>3, <2>7, <3>1, <4>1
    <3>2. CASE i \in DOMAIN r
      <4>1. q[i] = r[i]
        BY <2>4, <3>2
      <4>2. /\ r[i][1] <= r[i][2] /\ r[i][2] < m /\ r[i][2] \in Nat
            /\ \A s \in r[i][1] .. r[i][2] : s \in changed
        BY <1>0, <3>2 DEF RunsTo
      <4> QED
        BY <4>1, <4>2
    <3> QED
      BY <2>6, <3>1, <3>2
  <2>9. ASSUME NEW c \in changed, c < m + 1 PROVE \E i \in DOMAIN q : q[i][1] <= c /\ c <= q[i][2]
    <3>1. CASE c = m
      BY <2>5, <2>7, <3>1
    <3>2. CASE c < m
      <4>1. PICK i \in DOMAIN r : r[i][1] <= c /\ c <= r[i][2]
        BY <3>2 DEF RunsTo
      <4> QED
        BY <2>4, <2>5, <4>1
    <3> QED
      BY <1>b, <2>9, <3>1, <3>2
  <2>10. Len(q) > 0 /\ q[Len(q)][2] = m
    BY <1>0, <2>3, <2>7
  <2> HIDE DEF n, new
  <2>11. RunsTo(q, changed, m + 1)
    BY <1>a, <2>3, <2>8, <2>9, <2>10 DEF RunsTo
  <2> QED
    BY <2>11 DEF q
<1> QED
  BY <1>1, <1>2, <1>3

LEMMA CoalescedAre ==
  ASSUME NEW changed \in SUBSET Nat, NEW N \in Nat
  PROVE  RunsTo(Coalesced(changed, N), changed, N)
<1> DEFINE S == Seq(Pairs)
           step == [s \in 1 .. N |-> [r \in S |-> Coalesce(r, changed, s)]]
           Body(g) == [s \in 0 .. N |-> IF s = 0 THEN <<>> ELSE Coalesce(g[s-1], changed, s)]
           runs == CHOOSE g : g = Body(g)
<1>0. \A n \in 0 .. N : n = 0 \/ n \in 1 .. N
  OBVIOUS
<1>1. PICK g \in [0 .. N -> S] : Recurses(g, N, <<>>, step)
  <2>1. ASSUME NEW s \in 1 .. N, NEW r \in S PROVE Coalesce(r, changed, s) \in S
    <3>1. s - 1 \in Nat /\ Len(r) \in Nat
      OBVIOUS
    <3>2. CASE Len(r) = 0
      <4>1. <<s - 1, s - 1>> \in Pairs
        BY <3>1 DEF Pairs
      <4>2. Append(r, <<s - 1, s - 1>>) \in S
        BY <4>1
      <4>3. ASSUME NEW x PROVE [r EXCEPT ![Len(r)] = x] = r
        BY <3>2
      <4> QED
        BY <4>2, <4>3 DEF Coalesce
    <3>3. CASE Len(r) # 0
      <4>1. Len(r) \in 1 .. Len(r) /\ r[Len(r)] \in Pairs
        BY <3>1, <3>3
      <4>2. <<s - 1, s - 1>> \in Pairs /\ <<r[Len(r)][1], s - 1>> \in Pairs
        BY <3>1, <4>1 DEF Pairs
      <4>3. Append(r, <<s - 1, s - 1>>) \in S
        BY <4>2
      <4>4. [r EXCEPT ![Len(r)] = <<r[Len(r)][1], s - 1>>] \in S
        BY <4>1, <4>2
      <4> QED
        BY <4>3, <4>4 DEF Coalesce
    <3> QED
      BY <3>2, <3>3
  <2>2. step \in [1 .. N -> [S -> S]]
    BY <2>1
  <2>3. <<>> \in S
    OBVIOUS
  <2> HIDE DEF step, S
  <2> QED
    BY <2>2, <2>3, RecursionExists
<1>2. g = Body(g)
  <2>1. ASSUME NEW n \in 1 .. N PROVE g[n] = Coalesce(g[n-1], changed, n)
    <3>1. n - 1 \in 0 .. N
      OBVIOUS
    <3>2. g[n-1] \in S
      BY <3>1
    <3> HIDE DEF S
    <3> QED
      BY <1>1, <3>2 DEF Recurses
  <2>2. g[0] = <<>> /\ g = [n \in 0 .. N |-> g[n]]
    BY <1>1 DEF Recurses
  <2>3. \A n \in 0 .. N : g[n] = IF n = 0 THEN <<>> ELSE Coalesce(g[n-1], changed, n)
    BY <1>0, <2>1, <2>2
  <2> QED
    BY <2>2, <2>3
<1>3. runs = Body(runs)
  BY <1>2
<1>4. Coalesced(changed, N) = runs[N]
  BY DEF Coalesced, Coalesce
<1> HIDE DEF runs
<1>5. runs[0] = <<>> /\ \A n \in 1 .. N : runs[n] = Coalesce(runs[n-1], changed, n)
  BY <1>3
<1> HIDE DEF Body, step
<1> DEFINE T == {n \in Nat : n <= N => RunsTo(runs[n], changed, n)}
<1>6. 0 \in T
  <2>1. <<>> \in S
    OBVIOUS
  <2>2. \A c \in changed : ~(c < 0) /\ c # 0 - 1
    OBVIOUS
  <2>3. DOMAIN <<>> = {}
    OBVIOUS
  <2>4. RunsTo(<<>>, changed, 0)
    BY <2>1, <2>2, <2>3 DEF RunsTo
  <2> QED
    BY <1>5, <2>4
<1>7. ASSUME NEW n \in Nat, n \in T PROVE n + 1 \in T
  <2> SUFFICES ASSUME n + 1 <= N PROVE RunsTo(runs[n + 1], changed, n + 1)
    OBVIOUS
  <2>1. n + 1 \in 1 .. N /\ (n + 1) - 1 = n
    OBVIOUS
  <2>2. RunsTo(runs[n], changed, n)
    BY <1>7
  <2>3. RunsTo(Coalesce(runs[n], changed, n + 1), changed, n + 1)
    BY <2>2, CoalesceStep
  <2> QED
    BY <1>5, <2>1, <2>3
<1> HIDE DEF T
<1>8. N \in T
  BY <1>6, <1>7, NatInduct
<1> QED
  BY <1>4, <1>8 DEF T

-----------------------------------------------------------------------------
(* A run that is in one piece on the device: its write is placed, and leaves *)
(* nothing of it out.                                                        *)

LEMMA SectorOfUnit ==
  ASSUME NEW u \in Nat
  PROVE  /\ u \div PerSector \in Nat
         /\ (u \div PerSector) * PerSector <= u /\ u < (u \div PerSector + 1) * PerSector
  BY Sector

LEMMA SectorsGrow ==
  ASSUME NEW a \in Nat, NEW b \in Nat, a <= b
  PROVE  a * PerSector \in Nat /\ b * PerSector \in Nat /\ a * PerSector <= b * PerSector
         /\ (b + 1) * PerSector = b * PerSector + PerSector
  BY Sector

InOnePiece(img, r) ==
  \A u \in r[1] * PerSector .. Min({img.size, (r[2] + 1) * PerSector}) - 1 :
    Where(dump, u) - Where(dump, r[1] * PerSector) = u - r[1] * PerSector

LEMMA RunWriteIsPlaced ==
  ASSUME DumpIsOld, NEW img \in Image, Fits(dump, img),
         NEW r \in Pairs, r[1] <= r[2], r[2] < SectorsOf(img), InOnePiece(img, r)
  PROVE  /\ Placed(ext, RunWrite(img, r), img)
         /\ \A u \in Nat : u < img.size /\ r[1] <= u \div PerSector /\ u \div PerSector <= r[2]
                             => Lands(ext, RunWrite(img, r), u)
<1> DEFINE b == r[1] * PerSector
           e == (r[2] + 1) * PerSector
           to == Min({img.size, e})
           at == Where(dump, b)
           sector == at \div PerSector
           n == to - b
<1>0. /\ dump \in Seq(Extent) /\ img.size \in Nat /\ img.size <= Total(dump) /\ Total(dump) \in Nat
      /\ r[1] \in Nat /\ r[2] \in Nat /\ PerSector \in Nat /\ PerSector > 0
  BY Sector, DumpWhere DEF DumpIsOld, Image, Fits, Pairs
<1>1. /\ b \in Nat /\ e \in Nat /\ b < e /\ b % PerSector = 0 /\ e % PerSector = 0
  <2>1. /\ r[1] * PerSector \in Nat /\ r[2] * PerSector \in Nat
        /\ r[1] * PerSector <= r[2] * PerSector
        /\ (r[2] + 1) * PerSector = r[2] * PerSector + PerSector
    BY <1>0, SectorsGrow
  <2>2. b \in Nat /\ e \in Nat /\ b < e
    BY <1>0, <2>1
  <2>3. b % PerSector = 0
    BY <1>0, MultipleIsWhole
  <2>4. e % PerSector = 0
    <3>1. r[2] + 1 \in Int
      BY <1>0
    <3> QED
      BY <3>1, MultipleIsWhole
  <2> QED
    BY <2>2, <2>3, <2>4
<1>2. b < img.size
  <2> DEFINE c == SectorsOf(img)
  <2>1. c \in Nat /\ c * PerSector < img.size + PerSector
    BY <1>0, RoundedUpBounds DEF SectorsOf, RoundedUp
  <2> HIDE DEF c
  <2>2. r[1] + 1 <= c
    BY <1>0, <2>1 DEF c
  <2>3. (r[1] + 1) * PerSector <= c * PerSector /\ (r[1] + 1) * PerSector = b + PerSector
    <3>1. r[1] + 1 \in Nat
      BY <1>0
    <3>2. (r[1] + 1) * PerSector <= c * PerSector
      BY <2>1, <2>2, <3>1, SectorsGrow
    <3>3. (r[1] + 1) * PerSector = r[1] * PerSector + PerSector
      <4>1. r[1] <= r[1]
        BY <1>0
      <4> QED
        BY <1>0, <4>1, SectorsGrow
    <3> QED
      BY <3>2, <3>3
  <2>4. c * PerSector \in Nat
    BY <1>0, <2>1
  <2> QED
    BY <1>0, <1>1, <2>1, <2>3, <2>4
<1> HIDE DEF b, e
<1>3. to = IF img.size <= e THEN img.size ELSE e
  BY <1>0, <1>1, MinOfTwo
<1> HIDE DEF to
<1>4. to \in Nat /\ b < to /\ to <= img.size /\ to <= e /\ n \in Nat
  BY <1>0, <1>1, <1>2, <1>3
<1>5. at \in Nat /\ at % PerSector = 0
  <2>1. PICK j \in DOMAIN dump : InExtent(dump, j, b)
    BY <1>0, <1>1, <1>2, Located
  <2>2. at = dump[j].phys + (b - Before(dump, j))
    BY <1>0, <1>1, <2>1, WhereIs
  <2>3. Before(dump, j) <= b /\ Before(dump, j) \in Nat
    <3>1. j \in 1 .. Len(dump) + 1
      BY <1>0
    <3> QED
      BY <1>0, <2>1, <3>1, BeforeSteps DEF InExtent
  <2>4. Before(dump, j) < img.size
    BY <1>0, <1>1, <1>2, <2>3
  <2>5. Before(dump, j) % PerSector = 0
    BY <2>4, WholeBefore
  <2>6. dump[j].phys \in Nat /\ dump[j].phys % PerSector = 0
    BY <1>0, <2>4, ExtentsAre DEF Fits
  <2> DEFINE d == b - Before(dump, j)
  <2>7. d \in Nat /\ d % PerSector = 0
    <3>1. (b - Before(dump, j)) % PerSector = 0
      BY <1>1, <2>3, <2>5, WholeSum
    <3> QED
      BY <1>1, <2>3, <3>1
  <2> HIDE DEF d
  <2>8. (dump[j].phys + d) % PerSector = 0
    <3>1. dump[j].phys \in Int /\ d \in Int
      BY <2>6, <2>7
    <3> QED
      BY <2>6, <2>7, <3>1, WholeSum
  <2>9. at = dump[j].phys + d
    BY <2>2 DEF d
  <2> HIDE DEF at
  <2> QED
    BY <2>6, <2>7, <2>8, <2>9
<1>6. sector \in Nat /\ sector * PerSector = at
  <2> HIDE DEF at
  <2> QED
    BY <1>5, WholeMeans, Sector
<1>7. \A u \in b .. to - 1 : Where(dump, u) - at = u - b
  BY DEF InOnePiece, b, to, e
<1> HIDE DEF at, sector
<1>8. \A u \in b .. to - 1 : Where(dump, u) = at + (u - b)
  <2> TAKE u \in b .. to - 1
  <2>1. u \in Nat /\ u < Total(dump)
    BY <1>0, <1>1, <1>4
  <2>2. Where(dump, u) \in Int
    BY <1>0, <2>1, WhereInside
  <2> QED
    BY <1>1, <1>4, <1>5, <1>7, <2>1, <2>2
<1> HIDE DEF n
<1>9. /\ RoundedUp(n) \in Nat /\ b + RoundedUp(n) <= Total(dump)
      /\ \A u \in b .. b + RoundedUp(n) - 1 : Where(dump, u) = at + (u - b)
  <2>0. RoundedUp(n) \in Nat /\ n <= RoundedUp(n)
    BY <1>4, RoundedUpBounds
  <2>1. CASE to # img.size
    <3>1. n % PerSector = 0
      BY <1>1, <1>3, <2>1, WholeSum DEF n
    <3>2. RoundedUp(n) = n
      BY <1>4, <2>0, <3>1, RoundedUpWithin
    <3>3. b + RoundedUp(n) = to
      BY <1>1, <1>4, <3>2 DEF n
    <3>4. to <= Total(dump)
      BY <1>0, <1>4
    <3>5. b + RoundedUp(n) <= Total(dump)
      BY <3>3, <3>4
    <3>6. \A u \in b .. b + RoundedUp(n) - 1 : Where(dump, u) = at + (u - b)
      <4>1. b + RoundedUp(n) - 1 = to - 1
        BY <1>1, <1>4, <2>0, <3>3
      <4> QED
        BY <1>8, <4>1, Zenon
    <3> QED
      BY <2>0, <3>5, <3>6
  <2>2. CASE to = img.size
    <3> DEFINE v == img.size - 1
    <3>1. v \in Nat /\ v < Total(dump) /\ v \in b .. to - 1 /\ v < img.size
      BY <1>0, <1>1, <1>2, <2>2
    <3>2. PICK j \in DOMAIN dump : InExtent(dump, j, v)
      BY <1>0, <3>1, Located
    <3> DEFINE p == Before(dump, j)
               q == Before(dump, j + 1)
    <3>3. p \in Nat
      <4>1. j \in 1 .. Len(dump) + 1
        BY <1>0
      <4> QED
        BY <1>0, <4>1, BeforeSteps
    <3>4. p <= v /\ v < q
      BY <3>2 DEF InExtent
    <3>5. p < img.size
      BY <1>0, <3>1, <3>3, <3>4
    <3>6. q \in Nat /\ q % PerSector = 0 /\ q <= Total(dump)
      BY <3>5, WholeBefore
    <3>7. (q - b) % PerSector = 0 /\ q - b \in Int /\ n <= q - b
      <4>1. (q - b) % PerSector = 0
        BY <1>1, <3>6, WholeSum
      <4> QED
        BY <1>0, <1>1, <2>2, <3>1, <3>4, <3>6, <4>1 DEF n
    <3>8. RoundedUp(n) <= q - b
      BY <1>4, <3>7, RoundedUpWithin
    <3>9. dump[j].phys \in Nat
      BY <1>0, ExtentsAre
    <3>10. Where(dump, v) = dump[j].phys + (v - p)
      BY <1>0, <3>1, <3>2, WhereIs
    <3>11. ASSUME NEW u \in b .. b + RoundedUp(n) - 1 PROVE Where(dump, u) = at + (u - b)
      <4>1. CASE u < to
        <5>1. u \in b .. to - 1
          BY <1>1, <1>4, <4>1
        <5> QED
          BY <1>8, <5>1
      <4>2. CASE ~(u < to)
        <5>1. u \in Nat /\ p <= u /\ u < q
          <6>1. u \in Int /\ u >= img.size /\ u <= b + RoundedUp(n) - 1
            BY <1>0, <1>1, <2>0, <2>2, <4>2
          <6>2. u < q
            BY <1>1, <2>0, <3>6, <3>8, <6>1
          <6> HIDE DEF p, q
          <6> QED
            BY <1>0, <3>3, <3>5, <6>1, <6>2
        <5>2. InExtent(dump, j, u)
          BY <5>1 DEF InExtent
        <5>3. Where(dump, u) = dump[j].phys + (u - p)
          BY <1>0, <5>1, <5>2, WhereIs
        <5>4. Where(dump, v) = at + (v - b)
          BY <1>8, <3>1
        <5> HIDE DEF p, q, v
        <5> QED
          BY <1>1, <1>5, <3>1, <3>3, <3>9, <3>10, <5>1, <5>3, <5>4
      <4> QED
        BY <4>1, <4>2
    <3> HIDE DEF q
    <3>12. b + RoundedUp(n) <= Total(dump)
      BY <1>0, <1>1, <2>0, <3>6, <3>8
    <3> QED
      BY <2>0, <3>11, <3>12
  <2> QED
    BY <2>1, <2>2
<1>10. \A k \in 0 .. RoundedUp(n) - 1 : Where(ext, b + k) = sector * PerSector + k
  <2> TAKE k \in 0 .. RoundedUp(n) - 1
  <2>1. b + k \in Nat /\ b + k < Total(dump) /\ b + k \in b .. b + RoundedUp(n) - 1
    BY <1>0, <1>1, <1>9
  <2>2. Where(ext, b + k) = Where(dump, b + k)
    BY <2>1, DumpWhere
  <2>3. Where(dump, b + k) = at + ((b + k) - b)
    BY <1>9, <2>1
  <2> QED
    BY <1>1, <1>5, <1>6, <2>2, <2>3
<1>11. b + RoundedUp(n) <= Total(ext)
  BY <1>0, <1>1, <1>9, DumpWhere
<1>12. to = img.size \/ (to - b) % PerSector = 0
  BY <1>1, <1>3, WholeSum
<1>13. RunWrite(img, r) = Write(sector, img, b, to)
  BY DEF RunWrite, sector, at, b, to, e
<1>14. Placed(ext, Write(sector, img, b, to), img)
  <2>1. \A k \in 0 .. RoundedUp(to - b) - 1 : Where(ext, b + k) = sector * PerSector + k
    BY <1>10 DEF n
  <2>2. b + RoundedUp(to - b) <= Total(ext)
    BY <1>11 DEF n
  <2>3. b <= to
    BY <1>1, <1>4
  <2> QED
    BY <1>1, <1>4, <1>6, <1>12, <2>1, <2>2, <2>3, WriteIsPlaced
<1>15. ASSUME NEW u \in Nat, u < img.size, r[1] <= u \div PerSector, u \div PerSector <= r[2]
       PROVE  Lands(ext, Write(sector, img, b, to), u)
  <2> DEFINE q == u \div PerSector
  <2>1. q \in Nat /\ q * PerSector <= u /\ u < (q + 1) * PerSector
    BY SectorOfUnit
  <2>2. r[1] <= q /\ q <= r[2]
    BY <1>15
  <2> HIDE DEF q
  <2>3. b <= q * PerSector /\ q * PerSector \in Nat
    BY <1>0, <2>1, <2>2, SectorsGrow DEF b
  <2>4. (q + 1) * PerSector <= e /\ (q + 1) * PerSector \in Nat
    <3>1. q + 1 \in Nat /\ r[2] + 1 \in Nat /\ q + 1 <= r[2] + 1
      BY <1>0, <2>1, <2>2
    <3> QED
      BY <3>1, SectorsGrow DEF e
  <2>5. b <= u /\ u < e
    BY <1>1, <2>1, <2>3, <2>4
  <2>6. u < to
    BY <1>3, <1>15, <2>5
  <2>7. u \in b .. to - 1 /\ u - b \in 0 .. to - b - 1
    BY <1>1, <1>4, <2>5, <2>6
  <2>8. Where(ext, u) = at + (u - b)
    BY <1>0, <1>8, <1>15, <2>7, DumpWhere
  <2>9. Where(ext, u) - sector * PerSector = u - b
    BY <1>1, <1>5, <1>6, <2>8
  <2>10. /\ Write(sector, img, b, to).sector = sector
         /\ Len(Write(sector, img, b, to).data) = to - b
    <3>1. b \in Nat /\ to \in Nat /\ b <= to
      BY <1>1, <1>4
    <3> QED
      BY <3>1, WriteData
  <2> QED
    BY <2>7, <2>9, <2>10 DEF Lands
<1> QED
  BY <1>13, <1>14, <1>15

LEMMA RunWritesArePlaced ==
  ASSUME DumpIsOld, NEW img \in Image, Fits(dump, img), ~Crosses(img)
  PROVE  /\ RunWrites(img) \in Seq(ToSet(RunWrites(img)))
         /\ Changed(img) # {} => RunWrites(img) # <<>>
         /\ \A i \in DOMAIN RunWrites(img) : Placed(ext, RunWrites(img)[i], img)
         /\ \A u \in Nat : u < img.size =>
              \/ Cell(img, u) = Cell(base, u)
              \/ \E i \in DOMAIN RunWrites(img) : Lands(ext, RunWrites(img)[i], u)
<1> DEFINE N == SectorsOf(img)
           changed == Changed(img)
           rs == Runs(img)
<1>0. img.size \in Nat /\ N \in Nat /\ N * PerSector >= img.size
  BY RoundedUpBounds DEF Image, SectorsOf, RoundedUp
<1>1. changed \in SUBSET Nat /\ changed = {s \in 0 .. N - 1 : img.version[s + 1] # base.version[s + 1]}
  BY <1>0 DEF Changed
<1>2. rs = Coalesced(changed, N)
  BY DEF Runs
<1>3. \A r \in ToSet(rs) : InOnePiece(img, r)
  BY DEF Crosses, InOnePiece
<1>4. RunWrites(img) = [i \in DOMAIN rs |-> RunWrite(img, rs[i])]
  BY DEF RunWrites
<1> HIDE DEF N, changed, rs
<1>5. RunsTo(rs, changed, N)
  BY <1>0, <1>1, <1>2, CoalescedAre
<1>6. /\ rs \in Seq(Pairs) /\ Len(rs) \in Nat /\ DOMAIN rs = 1 .. Len(rs)
      /\ \A i \in DOMAIN rs : rs[i] \in Pairs /\ rs[i] \in ToSet(rs)
  BY <1>5 DEF RunsTo, ToSet
<1>7. ASSUME NEW i \in DOMAIN rs
      PROVE  /\ Placed(ext, RunWrite(img, rs[i]), img)
             /\ \A u \in Nat :
                  u < img.size /\ rs[i][1] <= u \div PerSector /\ u \div PerSector <= rs[i][2]
                    => Lands(ext, RunWrite(img, rs[i]), u)
  <2>1. rs[i][1] <= rs[i][2] /\ rs[i][2] < SectorsOf(img)
    BY <1>5 DEF RunsTo, N
  <2>2. rs[i] \in Pairs /\ InOnePiece(img, rs[i])
    BY <1>3, <1>6
  <2> QED
    BY <2>1, <2>2, RunWriteIsPlaced
<1>8. ASSUME NEW u \in Nat, u < img.size, Cell(img, u) # Cell(base, u)
      PROVE  \E i \in DOMAIN rs : Lands(ext, RunWrite(img, rs[i]), u)
  <2> DEFINE q == u \div PerSector
  <2>1. q \in Nat /\ q * PerSector <= u
    BY SectorOfUnit
  <2>2. img.version[q + 1] # base.version[q + 1]
    BY <1>8 DEF Cell
  <2>3. q < N
    <3> HIDE DEF q
    <3> SUFFICES ASSUME N <= q PROVE FALSE
      BY <1>0, <2>1
    <3>1. N * PerSector <= q * PerSector /\ N * PerSector \in Nat /\ q * PerSector \in Nat
      BY <1>0, <2>1, SectorsGrow
    <3> QED
      BY <1>0, <1>8, <2>1, <3>1
  <2>4. q \in changed
    <3>1. q \in 0 .. N - 1
      BY <1>0, <2>1, <2>3
    <3> QED
      BY <1>1, <2>2, <3>1
  <2>5. PICK i \in DOMAIN rs : rs[i][1] <= q /\ q <= rs[i][2]
    BY <1>5, <2>3, <2>4 DEF RunsTo
  <2> QED
    BY <1>7, <1>8, <2>5
<1>9. changed # {} => Len(rs) > 0
  <2> SUFFICES ASSUME NEW c \in changed PROVE Len(rs) > 0
    BY <1>6
  <2>1. c < N
    BY <1>0, <1>1
  <2>2. \E i \in DOMAIN rs : TRUE
    BY <1>5, <2>1 DEF RunsTo
  <2> QED
    BY <1>6, <2>2
<1>10. DOMAIN RunWrites(img) = DOMAIN rs /\ \A i \in DOMAIN rs : RunWrites(img)[i] = RunWrite(img, rs[i])
  BY <1>4
<1>11. RunWrites(img) \in Seq(ToSet(RunWrites(img)))
  BY <1>4, <1>6 DEF ToSet
<1>12. changed # {} => RunWrites(img) # <<>>
  <2>1. Len(rs) > 0 => 1 \in DOMAIN RunWrites(img)
    BY <1>6, <1>10
  <2>2. DOMAIN <<>> = {}
    OBVIOUS
  <2> QED
    BY <1>9, <2>1, <2>2
<1> QED
  BY <1>7, <1>8, <1>10, <1>11, <1>12 DEF changed

-----------------------------------------------------------------------------
(* The inductive invariant. *)

\* What has not been written yet is placed, and where the image is not on the device
\* yet, a write to come lands.
Progress ==
  /\ todo \in Seq(ToSet(todo))
  /\ \A i \in DOMAIN todo : Placed(ext, todo[i], target)
  /\ pc # "idle" =>
       \A u \in Nat : u < target.size =>
         Holds(u, target) \/ \E i \in DOMAIN todo : Lands(ext, todo[i], u)

\* What doubt says of the image kept and of the script that is running.
Phase ==
  /\ pc = "delta" => doubt = "delta"
  /\ pc = "full" => doubt = "full"
  /\ doubt # "full" => Fits(dump, base)
  /\ pc # "idle" => Fits(dump, target)
  /\ doubt = "delta" => target.size = base.size

FlashInv ==
  /\ TypeOK /\ DumpIsOld /\ Progress /\ Phase
  /\ OnlyOwnSectors /\ DeviceIsBase /\ OldOrNew

LEMMA FitsLater ==
  ASSUME NEW e \in Seq(Extent), NEW f \in Seq(Extent), Prefix(e, f), NEW img \in Image, Fits(e, img)
  PROVE  Fits(f, img)
<1>0. Total(e) \in Nat /\ Total(f) \in Nat /\ img.size \in Nat
  BY TotalIsNat DEF Image
<1>1. img.size <= Total(f)
  BY <1>0, PrefixWhere DEF Fits
<1>2. ASSUME NEW i \in DOMAIN f, Before(f, i) < img.size
      PROVE  f[i].phys % PerSector = 0 /\ f[i].len % PerSector = 0
  <2>1. i \in DOMAIN e
    <3> SUFFICES ASSUME i > Len(e) PROVE FALSE
      OBVIOUS
    <3>1. i \in 1 .. Len(f) + 1 /\ Len(e) + 1 \in 1 .. Len(f) + 1 /\ Len(e) + 1 <= i
          /\ Len(e) + 1 \in 1 .. Len(e) + 1
      BY DEF Prefix
    <3>2. Before(f, Len(e) + 1) <= Before(f, i) /\ Before(f, i) \in Nat
      BY <3>1, BeforeGrows, BeforeSteps
    <3>3. Before(f, Len(e) + 1) = Total(e)
      BY <3>1, PrefixBefore DEF Total
    <3> QED
      BY <1>0, <1>2, <3>2, <3>3 DEF Fits
  <2>2. i \in 1 .. Len(e) + 1 /\ f[i] = e[i]
    BY <2>1 DEF Prefix
  <2>3. Before(e, i) = Before(f, i)
    BY <2>2, PrefixBefore
  <2> QED
    BY <1>2, <2>1, <2>2, <2>3 DEF Fits
<1> QED
  BY <1>1, <1>2 DEF Fits

LEMMA ImagesAre ==
  ASSUME NEW img \in Images PROVE img \in Image /\ img.size \in Nat /\ img.size > 0
<1>1. img \in Image
  BY FlashAssumption
<1> QED
  BY <1>1 DEF Image

LEMMA InitHolds ==
  ASSUME Init PROVE FlashInv
<1>1. ext \in Extents /\ dump = ext
  BY FlashAssumption DEF Init, Extents
<1>2. DumpIsOld
  BY <1>1 DEF DumpIsOld, Extents, Prefix
<1>3. TypeOK
  BY <1>1, FlashAssumption DEF Init, TypeOK, Extents
<1>4. Progress
  BY DEF Init, Progress, ToSet
<1>5. Phase
  BY DEF Init, Phase
<1>6. OnlyOwnSectors /\ DeviceIsBase /\ OldOrNew
  BY DEF Init, OnlyOwnSectors, DeviceIsBase, OldOrNew
<1> QED
  BY <1>2, <1>3, <1>4, <1>5, <1>6 DEF FlashInv

LEMMA GrowKeeps ==
  ASSUME FlashInv, NEW x \in Growth, Grow(x) PROVE FlashInv'
<1>0. /\ TypeOK /\ DumpIsOld /\ Phase /\ OnlyOwnSectors /\ DeviceIsBase /\ OldOrNew
      /\ x \in Extent /\ pc = "idle" /\ todo = <<>> /\ {base, target} \subseteq Images
  BY FlashAssumption DEF FlashInv, TypeOK, Grow
<1>1. ext \in Extents /\ ext \in Seq(Extent) /\ dump \in Seq(Extent) /\ Prefix(dump, ext)
  BY <1>0 DEF DumpIsOld, Extents
<1>2. ext' = Append(ext, x) /\ UNCHANGED <<dump, dev, pc, base, target, doubt, todo, flashes>>
  BY DEF Grow
<1>3. ext' \in Extents /\ ext' \in Seq(Extent) /\ Prefix(ext, ext')
  BY <1>0, <1>1, <1>2, AppendPrefix DEF Grow, Extents
<1>4. Prefix(dump, ext')
  BY <1>1, <1>3 DEF Prefix
<1>5. TypeOK'
  BY <1>0, <1>2, <1>3 DEF TypeOK
<1>6. DumpIsOld'
  BY <1>1, <1>2, <1>3, <1>4 DEF DumpIsOld
<1>7. Progress'
  BY <1>0, <1>2 DEF Progress, ToSet
<1>8. Phase'
  BY <1>0, <1>2 DEF Phase
<1>9. OnlyOwnSectors'
  <2>1. \A i \in DOMAIN ext : i \in DOMAIN ext' /\ ext'[i] = ext[i]
    BY <1>1, <1>3 DEF Prefix
  <2>2. Units(ext) \subseteq Units(ext')
    BY <2>1 DEF Units
  <2> QED
    BY <1>0, <1>2, <2>2 DEF OnlyOwnSectors
<1>10. ASSUME NEW u \in Nat, u < base.size, doubt # "full" PROVE Where(ext', u) = Where(ext, u)
  <2>1. base.size <= Total(dump) /\ base.size \in Nat
    BY <1>0, <1>10, ImagesAre DEF Phase, Fits
  <2>2. u < Total(ext)
    BY <1>0, <1>10, <2>1, DumpWhere
  <2> QED
    BY <1>1, <1>3, <2>2, PrefixWhere
<1>11. base.size \in Nat
  BY <1>0, ImagesAre
<1>12. DeviceIsBase'
  BY <1>0, <1>2, <1>10, <1>11 DEF DeviceIsBase, Holds
<1>13. OldOrNew'
  BY <1>0, <1>2, <1>10, <1>11 DEF OldOrNew, Holds
<1> QED
  BY <1>5, <1>6, <1>7, <1>8, <1>9, <1>12, <1>13 DEF FlashInv

LEMMA DumpKeeps ==
  ASSUME FlashInv, Dump PROVE FlashInv'
<1>0. /\ TypeOK /\ DumpIsOld /\ Phase /\ OnlyOwnSectors /\ DeviceIsBase /\ OldOrNew
      /\ pc = "idle" /\ todo = <<>> /\ base \in Image
  BY ImagesAre DEF FlashInv, TypeOK, Dump
<1>1. dump' = ext /\ UNCHANGED <<ext, dev, pc, base, target, doubt, todo, flashes>>
  BY DEF Dump
<1>2. ext \in Extents /\ ext \in Seq(Extent) /\ dump \in Seq(Extent) /\ Prefix(dump, ext)
  BY <1>0 DEF DumpIsOld, Extents
<1>3. TypeOK'
  BY <1>0, <1>1 DEF TypeOK
<1>4. DumpIsOld'
  BY <1>1, <1>2 DEF DumpIsOld, Prefix
<1>5. Progress'
  BY <1>0, <1>1 DEF Progress, ToSet
<1>6. Phase'
  <2>1. doubt # "full" => Fits(ext, base)
    BY <1>0, <1>2, FitsLater DEF Phase
  <2> QED
    BY <1>0, <1>1, <2>1 DEF Phase
<1>7. OnlyOwnSectors' /\ DeviceIsBase' /\ OldOrNew'
  BY <1>0, <1>1 DEF OnlyOwnSectors, DeviceIsBase, OldOrNew, Holds
<1> QED
  BY <1>3, <1>4, <1>5, <1>6, <1>7 DEF FlashInv

\* What a flash begins with, whichever script it is.
LEMMA BeginKeeps ==
  ASSUME FlashInv, NEW img \in Images, NEW script \in {"full", "delta"}, NEW writes,
         Begin(script, img, writes), doubt' = script,
         writes # <<>>, writes \in Seq(ToSet(writes)), Fits(dump, img),
         \A i \in DOMAIN writes : Placed(ext, writes[i], img),
         \A u \in Nat : u < img.size => Holds(u, img) \/ \E i \in DOMAIN writes : Lands(ext, writes[i], u),
         script = "delta" => /\ img.size = base.size /\ Fits(dump, base)
                             /\ \A u \in Nat : u < base.size => Holds(u, base) \/ Holds(u, img)
  PROVE  FlashInv'
<1>0. TypeOK /\ DumpIsOld /\ OnlyOwnSectors /\ flashes < MaxFlashes
  BY DEF FlashInv, Begin
<1>1. /\ UNCHANGED <<ext, dump, dev, base>> /\ target' = img /\ todo' = writes /\ pc' = script
      /\ flashes' = flashes + 1
  BY DEF Begin
<1>2. TypeOK'
  <2>1. flashes' \in 0 .. MaxFlashes
    BY <1>0, <1>1, FlashAssumption DEF TypeOK
  <2> QED
    BY <1>0, <1>1, <2>1 DEF TypeOK
<1>3. DumpIsOld' /\ OnlyOwnSectors'
  BY <1>0, <1>1 DEF DumpIsOld, OnlyOwnSectors
<1>4. Progress'
  BY <1>1 DEF Progress, Holds
<1>5. Phase'
  BY <1>1 DEF Phase
<1>6. DeviceIsBase'
  BY DEF DeviceIsBase
<1>7. OldOrNew'
  <2>1. base.size \in Nat
    BY <1>0, ImagesAre DEF TypeOK
  <2>2. \A u \in 0 .. base.size - 1 : u \in Nat /\ u < base.size
    BY <2>1
  <2> QED
    BY <1>1, <2>2 DEF OldOrNew, Holds
<1> QED
  BY <1>2, <1>3, <1>4, <1>5, <1>6, <1>7 DEF FlashInv

LEMMA BeginFullKeeps ==
  ASSUME FlashInv, NEW img \in Images, BeginFull(img) PROVE FlashInv'
<1>1. img \in Image /\ DumpIsOld
  BY ImagesAre DEF FlashInv
<1>2. Fits(dump, img)
  BY DEF BeginFull, Aligned, Fits
<1>3. Begin("full", img, Pieces(img)) /\ doubt' = "full"
  BY DEF BeginFull
<1>4. /\ Pieces(img) # <<>> /\ Pieces(img) \in Seq(ToSet(Pieces(img)))
      /\ \A i \in DOMAIN Pieces(img) : Placed(ext, Pieces(img)[i], img)
      /\ \A u \in Nat : u < img.size => \E i \in DOMAIN Pieces(img) : Lands(ext, Pieces(img)[i], u)
  BY <1>1, <1>2, PiecesArePlaced
<1> DEFINE writes == Pieces(img)
<1> HIDE DEF writes
<1>5. Begin("full", img, writes)
  BY <1>3 DEF writes
<1>6. /\ writes # <<>> /\ writes \in Seq(ToSet(writes))
      /\ \A i \in DOMAIN writes : Placed(ext, writes[i], img)
      /\ \A u \in Nat : u < img.size => \E i \in DOMAIN writes : Lands(ext, writes[i], u)
  BY <1>4 DEF writes
<1> QED
  BY <1>2, <1>3, <1>5, <1>6, BeginKeeps

LEMMA BeginDeltaKeeps ==
  ASSUME ~MayCross, FlashInv, NEW img \in Images, BeginDelta(img) PROVE FlashInv'
<1>1. img \in Image /\ DumpIsOld /\ Phase /\ DeviceIsBase /\ OldOrNew
      /\ base \in Images /\ base.size \in Nat /\ img.size = base.size
  BY ImagesAre DEF FlashInv, TypeOK, BeginDelta
<1>2. doubt = "none" \/ (doubt = "delta" /\ img = target)
  BY DEF BeginDelta
<1>3. Fits(dump, base) /\ Fits(dump, img)
  BY <1>1, <1>2 DEF Phase, Fits
<1>4. Begin("delta", img, RunWrites(img)) /\ doubt' = "delta" /\ ~Crosses(img) /\ Changed(img) # {}
  BY DEF BeginDelta
<1>5. ASSUME NEW u \in Nat, u < base.size
      PROVE  /\ Holds(u, base) \/ Holds(u, img)
             /\ Cell(img, u) = Cell(base, u) => Holds(u, img)
  <2>1. u \in 0 .. base.size - 1
    BY <1>1, <1>5
  <2>2. Holds(u, base) \/ Holds(u, img)
    BY <1>1, <1>2, <2>1 DEF DeviceIsBase, OldOrNew
  <2> QED
    BY <2>2 DEF Holds
<1> DEFINE writes == RunWrites(img)
<1>6. /\ writes # <<>> /\ writes \in Seq(ToSet(writes))
      /\ \A i \in DOMAIN writes : Placed(ext, writes[i], img)
      /\ \A u \in Nat : u < img.size => \/ Cell(img, u) = Cell(base, u)
                                        \/ \E i \in DOMAIN writes : Lands(ext, writes[i], u)
  BY <1>1, <1>3, <1>4, RunWritesArePlaced
<1> HIDE DEF writes
<1>7. Begin("delta", img, writes)
  BY <1>4 DEF writes
<1>8. \A u \in Nat : u < img.size => Holds(u, img) \/ \E i \in DOMAIN writes : Lands(ext, writes[i], u)
  BY <1>1, <1>5, <1>6
<1> QED
  BY <1>1, <1>3, <1>4, <1>5, <1>6, <1>7, <1>8, BeginKeeps

\* What the next write does to the device, all of it or part of it.
LEMMA NextWrite ==
  ASSUME FlashInv, todo # <<>>, NEW n \in 0 .. WriteSectors(Head(todo)),
         dev' = Written(Head(todo), n)
  PROVE  /\ pc \in {"full", "delta"} /\ Len(todo) \in Nat \ {0}
         /\ DOMAIN dev' = 0 .. DevUnits - 1
         /\ \A d \in DOMAIN dev' \ Units(ext) : dev'[d] = Other(d)
         /\ \A u \in Nat : u < target.size =>
              /\ dev'[Where(ext, u)] \in {dev[Where(ext, u)], Cell(target, u)}
              /\ n = WriteSectors(Head(todo)) /\ Lands(ext, Head(todo), u)
                   => dev'[Where(ext, u)] = Cell(target, u)
<1> DEFINE w == Head(todo)
<1>1. /\ todo \in Seq(ToSet(todo)) /\ DOMAIN dev = 0 .. DevUnits - 1 /\ ext \in Extents
      /\ pc \in {"full", "delta"} /\ target \in Image /\ target.size \in Nat /\ DumpIsOld
  BY ImagesAre DEF FlashInv, TypeOK, Progress, DumpIsOld
<1>2. Len(todo) \in Nat \ {0} /\ w = todo[1] /\ 1 \in DOMAIN todo
  <2> DEFINE S == ToSet(todo)
  <2>1. todo \in Seq(S)
    BY <1>1
  <2> HIDE DEF S
  <2> QED
    BY <2>1
<1>3. Placed(ext, w, target)
  BY <1>2 DEF FlashInv, Progress
<1>4. target.size <= Total(ext)
  <2>1. target.size <= Total(dump)
    BY <1>1 DEF FlashInv, Phase, Fits
  <2> QED
    BY <1>1, <2>1, DumpWhere
<1> HIDE DEF w
<1>5. n \in 0 .. WriteSectors(w) /\ dev' = Written(w, n)
  BY DEF w
<1>6. /\ DOMAIN Written(w, n) = DOMAIN dev
      /\ \A d \in DOMAIN dev \ Units(ext) : Written(w, n)[d] = dev[d]
      /\ \A u \in Nat : u < Total(ext) /\ u < target.size =>
           /\ Written(w, n)[Where(ext, u)] \in {dev[Where(ext, u)], Cell(target, u)}
           /\ n = WriteSectors(w) /\ Lands(ext, w, u) => Written(w, n)[Where(ext, u)] = Cell(target, u)
  BY <1>1, <1>3, <1>5, WrittenIs
<1>7. \A d \in DOMAIN dev \ Units(ext) : dev[d] = Other(d)
  BY DEF FlashInv, OnlyOwnSectors
<1>8. ASSUME NEW u \in Nat, u < target.size PROVE u < Total(ext)
  <2>1. Total(ext) \in Nat
    BY <1>1, DumpWhere
  <2> QED
    BY <1>1, <1>4, <1>8, <2>1
<1> QED
  BY <1>1, <1>2, <1>5, <1>6, <1>7, <1>8 DEF w

LEMMA WriteOkKeeps ==
  ASSUME FlashInv, WriteOk PROVE FlashInv'
<1> DEFINE n == WriteSectors(Head(todo))
<1>0. /\ TypeOK /\ DumpIsOld /\ Progress /\ Phase /\ OldOrNew /\ todo # <<>>
      /\ {base, target} \subseteq Images /\ base.size \in Nat /\ target.size \in Nat
  BY ImagesAre DEF FlashInv, TypeOK, WriteOk
<1>1. dev' = Written(Head(todo), n) /\ todo' = Tail(todo) /\ UNCHANGED <<ext, dump, target, flashes>>
  BY DEF WriteOk
<1>2. n \in 0 .. n
  <2> DEFINE S == ToSet(todo)
  <2>1. todo \in Seq(S)
    BY <1>0 DEF Progress
  <2> HIDE DEF S
  <2>2. Head(todo) = todo[1] /\ 1 \in DOMAIN todo
    BY <1>0, <2>1
  <2>3. Placed(ext, todo[1], target)
    BY <1>0, <2>2 DEF Progress
  <2>4. n \in Nat
    BY <2>2, <2>3, ReachIsRounded DEF Placed
  <2> QED
    BY <2>4
<1>3. /\ pc \in {"full", "delta"} /\ Len(todo) \in Nat \ {0}
      /\ DOMAIN dev' = 0 .. DevUnits - 1
      /\ \A d \in DOMAIN dev' \ Units(ext) : dev'[d] = Other(d)
      /\ \A u \in Nat : u < target.size =>
           /\ dev'[Where(ext, u)] \in {dev[Where(ext, u)], Cell(target, u)}
           /\ Lands(ext, Head(todo), u) => dev'[Where(ext, u)] = Cell(target, u)
  BY <1>0, <1>1, <1>2, NextWrite
<1> HIDE DEF n
<1>4. /\ todo' \in Seq(ToSet(todo')) /\ DOMAIN todo' = 1 .. Len(todo) - 1
      /\ (todo' = <<>> <=> Len(todo) = 1)
      /\ Head(todo) = todo[1] /\ DOMAIN todo = 1 .. Len(todo)
      /\ \A i \in 1 .. Len(todo) - 1 : todo'[i] = todo[i + 1]
  <2> DEFINE S == ToSet(todo)
             t == Tail(todo)
  <2>1. todo \in Seq(S)
    BY <1>0 DEF Progress
  <2> HIDE DEF S
  <2>2. t \in Seq(S) /\ Len(t) = Len(todo) - 1 /\ \A i \in 1 .. Len(todo) - 1 : t[i] = todo[i + 1]
    BY <1>0, <2>1
  <2>3. Head(todo) = todo[1] /\ DOMAIN todo = 1 .. Len(todo)
    BY <2>1
  <2> HIDE DEF t
  <2>4. t = [i \in 1 .. Len(t) |-> t[i]] /\ Len(t) \in Nat
    BY <2>2
  <2>5. \A i \in 1 .. Len(t) : t[i] \in ToSet(t)
    BY <2>4 DEF ToSet
  <2>6. t \in Seq(ToSet(t))
    BY <2>4, <2>5
  <2>7. t = <<>> <=> Len(t) = 0
    BY <2>2
  <2>8. DOMAIN t = 1 .. Len(todo) - 1
    BY <2>2
  <2>9. todo' = t
    BY <1>1 DEF t
  <2> QED
    BY <1>3, <2>2, <2>3, <2>6, <2>7, <2>8, <2>9
<1>5. ASSUME NEW u \in Nat, u < target.size
      PROVE  dev'[Where(ext, u)] = Cell(target, u) \/ \E i \in DOMAIN todo' : Lands(ext, todo'[i], u)
  <2>1. Holds(u, target) \/ \E i \in DOMAIN todo : Lands(ext, todo[i], u)
    BY <1>0, <1>3, <1>5 DEF Progress
  <2>2. CASE Holds(u, target)
    BY <1>3, <1>5, <2>2 DEF Holds
  <2>3. ASSUME NEW i \in DOMAIN todo, Lands(ext, todo[i], u)
        PROVE  dev'[Where(ext, u)] = Cell(target, u) \/ \E j \in DOMAIN todo' : Lands(ext, todo'[j], u)
    <3>1. CASE i = 1
      BY <1>3, <1>4, <1>5, <2>3, <3>1
    <3>2. CASE i # 1
      <4>1. i - 1 \in 1 .. Len(todo) - 1 /\ (i - 1) + 1 = i
        BY <1>3, <1>4, <3>2
      <4>2. todo'[i - 1] = todo[i] /\ i - 1 \in DOMAIN todo'
        BY <1>4, <4>1
      <4> QED
        BY <2>3, <4>2
    <3> QED
      BY <3>1, <3>2
  <2> QED
    BY <2>1, <2>2, <2>3
<1>6. \A i \in DOMAIN todo' : Placed(ext, todo'[i], target)
  <2> SUFFICES ASSUME NEW i \in 1 .. Len(todo) - 1 PROVE Placed(ext, todo[i + 1], target)
    BY <1>4
  <2>1. i + 1 \in DOMAIN todo
    BY <1>3, <1>4
  <2> QED
    BY <1>0, <2>1 DEF Progress
<1>7. DumpIsOld' /\ OnlyOwnSectors'
  BY <1>0, <1>1, <1>3 DEF DumpIsOld, OnlyOwnSectors
<1>8. Progress'
  BY <1>1, <1>4, <1>5, <1>6 DEF Progress, Holds
<1>9. CASE Len(todo) = 1
  <2>1. pc' = "idle" /\ base' = target /\ doubt' = "none" /\ todo' = <<>>
    BY <1>4, <1>9 DEF WriteOk
  <2>2. TypeOK'
    BY <1>0, <1>1, <1>3, <2>1 DEF TypeOK
  <2>3. Phase'
    BY <1>0, <1>1, <1>3, <2>1 DEF Phase
  <2>4. DeviceIsBase'
    <3>1. \A u \in 0 .. target.size - 1 : u \in Nat /\ u < target.size
      BY <1>0
    <3>2. \A u \in 0 .. target.size - 1 : dev'[Where(ext, u)] = Cell(target, u)
      BY <1>5, <2>1, <3>1
    <3> QED
      BY <1>1, <2>1, <3>2 DEF DeviceIsBase, Holds
  <2>5. OldOrNew'
    BY <2>1 DEF OldOrNew
  <2> QED
    BY <1>7, <1>8, <2>2, <2>3, <2>4, <2>5 DEF FlashInv
<1>10. CASE Len(todo) # 1
  <2>1. UNCHANGED <<pc, base, doubt>> /\ todo' # <<>>
    BY <1>4, <1>10 DEF WriteOk
  <2>2. TypeOK'
    BY <1>0, <1>1, <1>3, <2>1 DEF TypeOK
  <2>3. Phase'
    BY <1>0, <1>1, <2>1 DEF Phase
  <2>4. DeviceIsBase'
    BY <1>0, <1>3, <2>1 DEF DeviceIsBase, Phase
  <2>5. OldOrNew'
    <3> SUFFICES ASSUME doubt = "delta", NEW u \in 0 .. base.size - 1
                 PROVE  dev'[Where(ext, u)] \in {Cell(base, u), Cell(target, u)}
      BY <1>1, <2>1 DEF OldOrNew, Holds
    <3>1. u \in Nat /\ u < target.size
      BY <1>0 DEF Phase
    <3>2. dev[Where(ext, u)] \in {Cell(base, u), Cell(target, u)}
      BY <1>0 DEF OldOrNew, Holds
    <3> QED
      BY <1>3, <3>1, <3>2
  <2> QED
    BY <1>7, <1>8, <2>2, <2>3, <2>4, <2>5 DEF FlashInv
<1> QED
  BY <1>9, <1>10

LEMMA WriteFailsKeeps ==
  ASSUME FlashInv, WriteFails PROVE FlashInv'
<1>0. /\ TypeOK /\ DumpIsOld /\ Phase /\ OldOrNew /\ todo # <<>>
      /\ {base, target} \subseteq Images /\ base.size \in Nat /\ target.size \in Nat
  BY ImagesAre DEF FlashInv, TypeOK, WriteFails
<1>1. PICK n \in 0 .. WriteSectors(Head(todo)) : dev' = Written(Head(todo), n)
  BY DEF WriteFails
<1>2. todo' = <<>> /\ pc' = "idle" /\ UNCHANGED <<ext, dump, base, target, doubt, flashes>>
  BY DEF WriteFails
<1>3. /\ pc \in {"full", "delta"} /\ DOMAIN dev' = 0 .. DevUnits - 1
      /\ \A d \in DOMAIN dev' \ Units(ext) : dev'[d] = Other(d)
      /\ \A u \in Nat : u < target.size => dev'[Where(ext, u)] \in {dev[Where(ext, u)], Cell(target, u)}
  BY <1>0, <1>1, NextWrite
<1>4. TypeOK'
  BY <1>0, <1>2, <1>3 DEF TypeOK
<1>5. DumpIsOld' /\ OnlyOwnSectors'
  BY <1>0, <1>2, <1>3 DEF DumpIsOld, OnlyOwnSectors
<1>6. Progress'
  BY <1>2 DEF Progress, ToSet
<1>7. Phase'
  BY <1>0, <1>2 DEF Phase
<1>8. DeviceIsBase'
  BY <1>0, <1>2, <1>3 DEF DeviceIsBase, Phase
<1>9. OldOrNew'
  <2> SUFFICES ASSUME doubt = "delta", NEW u \in 0 .. base.size - 1
               PROVE  dev'[Where(ext, u)] \in {Cell(base, u), Cell(target, u)}
    BY <1>2 DEF OldOrNew, Holds
  <2>1. u \in Nat /\ u < target.size
    BY <1>0 DEF Phase
  <2>2. dev[Where(ext, u)] \in {Cell(base, u), Cell(target, u)}
    BY <1>0 DEF OldOrNew, Holds
  <2> QED
    BY <1>3, <2>1, <2>2
<1> QED
  BY <1>4, <1>5, <1>6, <1>7, <1>8, <1>9 DEF FlashInv

LEMMA StepKeeps ==
  ASSUME ~MayCross, FlashInv, [Next]_vars PROVE FlashInv'
<1>1. CASE Next
  BY <1>1, GrowKeeps, DumpKeeps, BeginFullKeeps, BeginDeltaKeeps, WriteOkKeeps, WriteFailsKeeps DEF Next
<1>2. CASE UNCHANGED vars
  <2>1. UNCHANGED <<ext, dump, dev, pc, base, target, doubt, todo, flashes>>
    BY <1>2 DEF vars
  <2>2. TypeOK' /\ DumpIsOld' /\ OnlyOwnSectors'
    BY <2>1 DEF FlashInv, TypeOK, DumpIsOld, OnlyOwnSectors
  <2>3. Progress'
    BY <2>1 DEF FlashInv, Progress, Holds
  <2>4. Phase' /\ DeviceIsBase' /\ OldOrNew'
    BY <2>1 DEF FlashInv, Phase, DeviceIsBase, OldOrNew, Holds
  <2> QED
    BY <2>2, <2>3, <2>4 DEF FlashInv
<1> QED
  BY <1>1, <1>2

-----------------------------------------------------------------------------
(* What flashing guarantees, if no run of a delta leaves an extent: the script *)
(* looks up only where a run starts, and one that went on past its extent would*)
(* be written over whatever follows it on the device (FlashSpill).             *)

LEMMA FlashInvHolds ==
  ASSUME ~MayCross PROVE Spec => []FlashInv
<1>1. Init => FlashInv
  BY InitHolds
<1>2. FlashInv /\ [Next]_vars => FlashInv'
  BY StepKeeps
<1> QED
  BY <1>1, <1>2, PTL DEF Spec

\* Nothing outside the partition's extents is written, however a flash ends and
\* while it runs, with a full image or a delta, after the partition has grown with
\* the operator's lpdump.txt not made anew: for every layout of disjoint extents.
THEOREM FlashOnlyOwnSectors ==
  ASSUME ~MayCross PROVE Spec => []OnlyOwnSectors
<1>1. FlashInv => OnlyOwnSectors
  BY DEF FlashInv
<1> QED
  BY <1>1, FlashInvHolds, PTL

\* After a flash that succeeded the partition holds the image the operator keeps,
\* to the last unit: the pieces of a full flash leave no gap where extents meet, and
\* the runs of a delta leave no changed sector out.
THEOREM FlashDeviceIsBase ==
  ASSUME ~MayCross PROVE Spec => []DeviceIsBase
<1>1. FlashInv => DeviceIsBase
  BY DEF FlashInv
<1> QED
  BY <1>1, FlashInvHolds, PTL

\* A delta that stops half way, any number of times and anywhere in a write, leaves
\* each unit old or new, so that the same delta run again repairs it.
THEOREM FlashOldOrNew ==
  ASSUME ~MayCross PROVE Spec => []OldOrNew
<1>1. FlashInv => OldOrNew
  BY DEF FlashInv
<1> QED
  BY <1>1, FlashInvHolds, PTL

\* The runs of a delta hold the sectors that differ, and no other.
THEOREM RunsAreTheChanged ==
  ASSUME NEW img \in Image
  PROVE  \A s \in 0 .. SectorsOf(img) - 1 :
           s \in Changed(img)
             <=> \E i \in DOMAIN Runs(img) : Runs(img)[i][1] <= s /\ s <= Runs(img)[i][2]
<1> DEFINE N == SectorsOf(img)
           changed == Changed(img)
           rs == Runs(img)
<1>1. N \in Nat
  BY RoundedUpBounds DEF Image, SectorsOf
<1>2. changed \in SUBSET Nat
  BY <1>1 DEF Changed
<1>3. rs = Coalesced(changed, N)
  BY DEF Runs
<1> HIDE DEF N, changed, rs
<1>4. RunsTo(rs, changed, N)
  BY <1>1, <1>2, <1>3, CoalescedAre
<1>5. \A i \in DOMAIN rs : rs[i][1] \in Nat /\ rs[i][2] \in Nat
  BY <1>4 DEF RunsTo, Pairs
<1>6. \A s \in 0 .. N - 1 :
        s \in changed <=> \E i \in DOMAIN rs : rs[i][1] <= s /\ s <= rs[i][2]
  <2> TAKE s \in 0 .. N - 1
  <2>1. s \in Nat /\ s < N
    BY <1>1
  <2>2. s \in changed => \E i \in DOMAIN rs : rs[i][1] <= s /\ s <= rs[i][2]
    BY <1>4, <2>1 DEF RunsTo
  <2>3. ASSUME NEW i \in DOMAIN rs, rs[i][1] <= s, s <= rs[i][2] PROVE s \in changed
    <3>1. s \in rs[i][1] .. rs[i][2]
      BY <1>5, <2>1, <2>3
    <3> QED
      BY <1>4, <3>1 DEF RunsTo
  <2> QED
    BY <2>2, <2>3
<1> QED
  BY <1>6 DEF N, changed, rs

=============================================================================
