--------------------------- MODULE EpdcShimProofs ---------------------------
(***************************************************************************)
(* The damage path and the composer shim: what becomes of a dirty region of*)
(* any shape on a panel of any size, and what becomes of a frame whatever  *)
(* the order of requests, validation passes, failures and new settings.    *)
(***************************************************************************)
EXTENDS EpdcShim, DamagePath, FiniteSetTheorems, TLAPS

-----------------------------------------------------------------------------
(* Induction, for sets of numbers. *)

\* Among finite sets there is one that no other is a part of.
LEMMA SmallestSet ==
  ASSUME NEW T, NEW x0 \in T, \A x \in T : IsFiniteSet(x)
  PROVE  \E x \in T : \A y \in T : y \subseteq x => y = x
<1> DEFINE U == UNION T
<1>1. IsWellFoundedOn(StrictSubsetOrdering(U), FiniteSubsetsOf(U))
  BY FS_StrictSubsetOrderingWellFounded
<1>2. T \subseteq FiniteSubsetsOf(U)
  BY DEF FiniteSubsetsOf
<1>3. \E x \in T : \A y \in T : ~ (<<y, x>> \in StrictSubsetOrdering(U))
  BY <1>1, <1>2, WFMin
<1>4. \A x, y \in T : y \subseteq x /\ y # x => <<y, x>> \in StrictSubsetOrdering(U)
  BY DEF StrictSubsetOrdering
<1> QED
  BY <1>3, <1>4

LEMMA LeastNumber ==
  ASSUME NEW S \in SUBSET Nat, NEW n0 \in S
  PROVE  \E m \in S : \A k \in S : m <= k
<1> DEFINE T == {1 .. n : n \in S}
<1>1. \A x \in T : IsFiniteSet(x)
  BY FS_Interval
<1>2. 1 .. n0 \in T
  OBVIOUS
<1> HIDE DEF T
<1>3. PICK x \in T : \A y \in T : y \subseteq x => y = x
  BY <1>1, <1>2, SmallestSet
<1>4. PICK m \in S : x = 1 .. m
  BY DEF T
<1>5. ASSUME NEW k \in S, k < m PROVE FALSE
  <2>1. 1 .. k \subseteq 1 .. m /\ 1 .. k \in T
    BY <1>5 DEF T
  <2>2. 1 .. k = 1 .. m
    BY <2>1, <1>3, <1>4
  <2>3. m \in 1 .. m /\ m \notin 1 .. k
    BY <1>5
  <2> QED
    BY <2>2, <2>3
<1> QED
  BY <1>5

LEMMA NatInduct ==
  ASSUME NEW S, 0 \in S, \A n \in Nat : n \in S => n + 1 \in S
  PROVE  Nat \subseteq S
<1> SUFFICES ASSUME NEW n0 \in Nat \ S PROVE FALSE
  OBVIOUS
<1>1. PICK m \in Nat \ S : \A k \in Nat \ S : m <= k
  <2> DEFINE R == Nat \ S
  <2>1. R \in SUBSET Nat /\ n0 \in R
    OBVIOUS
  <2> HIDE DEF R
  <2>2. \E m \in R : \A k \in R : m <= k
    BY <2>1, LeastNumber
  <2> QED
    BY <2>2 DEF R
<1>2. m # 0 /\ m - 1 \in Nat
  OBVIOUS
<1>3. m - 1 \in S
  BY <1>1, <1>2
<1> QED
  BY <1>2, <1>3

(* What a recursive function needs to be what it is defined to be: a function *)
(* that satisfies its equation exists.                                       *)
Recurses(g, N, zero, step) ==
  g[0] = zero /\ \A n \in 1 .. N : g[n] = step[n][g[n-1]]

LEMMA RecursionExists ==
  ASSUME NEW N \in Nat, NEW S, NEW zero \in S, NEW step \in [1 .. N -> [S -> S]]
  PROVE  \E g \in [0 .. N -> S] : Recurses(g, N, zero, step)
<1> DEFINE Good(m, g) == /\ g \in [0 .. m -> S] /\ g[0] = zero
                         /\ \A n \in 1 .. m : g[n] = step[n][g[n-1]]
           T == {m \in Nat : m <= N => \E g : Good(m, g)}
<1>1. 0 \in T
  <2>1. Good(0, [k \in 0 .. 0 |-> zero])
    OBVIOUS
  <2> QED
    BY <2>1
<1>2. ASSUME NEW m \in Nat, m \in T PROVE m + 1 \in T
  <2> SUFFICES ASSUME m + 1 <= N PROVE \E g : Good(m + 1, g)
    OBVIOUS
  <2>1. PICK g : Good(m, g)
    BY <1>2
  <2> DEFINE h == [k \in 0 .. m + 1 |-> IF k = m + 1 THEN step[m + 1][g[m]] ELSE g[k]]
  <2>2. step[m + 1][g[m]] \in S
    BY <2>1
  <2>3. h \in [0 .. m + 1 -> S] /\ h[0] = zero
    BY <2>1, <2>2
  <2>4. ASSUME NEW n \in 1 .. m + 1 PROVE h[n] = step[n][h[n-1]]
    <3>1. CASE n = m + 1
      <4>1. n - 1 = m /\ h[n] = step[m + 1][g[m]] /\ h[m] = g[m]
        BY <3>1
      <4> QED
        BY <3>1, <4>1
    <3>2. CASE n \in 1 .. m
      <4>1. h[n] = g[n] /\ h[n-1] = g[n-1]
        BY <3>2
      <4> QED
        BY <2>1, <3>2, <4>1
    <3> QED
      BY <3>1, <3>2
  <2> HIDE DEF h
  <2>5. Good(m + 1, h)
    BY <2>3, <2>4
  <2> QED
    BY <2>5
<1> HIDE DEF T
<1>3. N \in T
  BY <1>1, <1>2, NatInduct
<1> QED
  BY <1>3 DEF T, Recurses

-----------------------------------------------------------------------------
(* The rectangles. *)

LEMMA FullPanelAccepted == Acceptable(FullPanel)
  BY PanelAssumption DEF Acceptable, FullPanel, Box

LEMMA FullPanelCovers ==
  ASSUME NEW p \in Pixels PROVE Covers(FullPanel, p)
  BY PanelAssumption DEF Pixels, Covers, FullPanel, Box

LEMMA ClampAccepted ==
  ASSUME NEW r \in Rect PROVE Acceptable(Clamp(r))
<1>1. Clamp(r) = IF Trim(r).right <= Trim(r).left \/ Trim(r).bottom <= Trim(r).top
                 THEN FullPanel ELSE Trim(r)
  BY DEF Clamp
<1>2. /\ Trim(r).left = Upper(r.left, 0) /\ Trim(r).right = Lower(r.right, PanelW)
      /\ Trim(r).top = Upper(r.top, 0) /\ Trim(r).bottom = Lower(r.bottom, PanelH)
  BY DEF Trim, Box
<1>3. /\ r.left \in Int /\ r.top \in Int /\ r.right \in Int /\ r.bottom \in Int
      /\ PanelW \in Nat /\ PanelH \in Nat
  BY PanelAssumption DEF Rect
<1>4. CASE ~(Trim(r).right <= Trim(r).left \/ Trim(r).bottom <= Trim(r).top)
  <2>1. Clamp(r) = Trim(r)
    BY <1>1, <1>4
  <2>2. /\ 0 <= Trim(r).left /\ Trim(r).left < Trim(r).right /\ Trim(r).right <= PanelW
        /\ 0 <= Trim(r).top /\ Trim(r).top < Trim(r).bottom /\ Trim(r).bottom <= PanelH
    BY <1>2, <1>3, <1>4 DEF Upper, Lower
  <2> QED
    BY <2>1, <2>2 DEF Acceptable
<1> QED
  BY <1>1, <1>4, FullPanelAccepted

LEMMA ClampCovers ==
  ASSUME NEW r \in Rect, NEW p \in Pixels, Covers(r, p) PROVE Covers(Clamp(r), p)
<1>1. /\ p[1] \in Int /\ 0 <= p[1] /\ p[1] < PanelW
      /\ p[2] \in Int /\ 0 <= p[2] /\ p[2] < PanelH
  BY PanelAssumption DEF Pixels
<1>2. Covers(Trim(r), p)
  BY <1>1, PanelAssumption DEF Covers, Trim, Box, Upper, Lower, Rect
<1> QED
  BY <1>2, FullPanelCovers DEF Clamp

(* The kernel accepts whatever init_parms submits: between one and MaxRects  *)
(* rectangles, each of them inside the panel and not empty, whatever the     *)
(* damage file held.                                                         *)
THEOREM UpdateRectsAccepted ==
  ASSUME NEW rects \in Seq(Rect), NEW force_full \in BOOLEAN
  PROVE  /\ Len(UpdateRects(rects, force_full)) \in 1 .. MaxRects
         /\ \A i \in 1 .. Len(UpdateRects(rects, force_full)) :
               Acceptable(UpdateRects(rects, force_full)[i])
<1>1. CASE force_full \/ rects = <<>>
  <2>1. UpdateRects(rects, force_full) = <<FullPanel>>
    BY <1>1 DEF UpdateRects
  <2> QED
    BY <2>1, FullPanelAccepted, PanelAssumption
<1>2. CASE ~(force_full \/ rects = <<>>)
  <2> DEFINE m == Lower(Len(rects), MaxRects)
  <2>1. m \in 1 .. MaxRects /\ m <= Len(rects)
    BY <1>2, PanelAssumption DEF Lower
  <2>2. UpdateRects(rects, force_full) = [i \in 1 .. m |-> Clamp(rects[i])]
    BY <1>2 DEF UpdateRects
  <2>3. \A i \in 1 .. m : rects[i] \in Rect
    BY <2>1
  <2> HIDE DEF m
  <2>4. Len(UpdateRects(rects, force_full)) = m
    BY <2>1, <2>2
  <2>5. \A i \in 1 .. m : Acceptable(UpdateRects(rects, force_full)[i])
    BY <2>2, <2>3, ClampAccepted
  <2> QED
    BY <2>1, <2>4, <2>5
<1> QED
  BY <1>1, <1>2

(* No published pixel is left out of the update: clamping only ever enlarges *)
(* what lies on the panel.                                                   *)
THEOREM UpdateRectsCover ==
  ASSUME NEW rects \in Seq(Rect), NEW force_full \in BOOLEAN, Len(rects) <= MaxRects
  PROVE  CoveredBy(rects) \subseteq CoveredBy(UpdateRects(rects, force_full))
<1> SUFFICES ASSUME NEW p \in Pixels, NEW j \in DOMAIN rects, Covers(rects[j], p)
             PROVE  \E i \in DOMAIN UpdateRects(rects, force_full) :
                       Covers(UpdateRects(rects, force_full)[i], p)
  BY DEF CoveredBy
<1>1. CASE force_full \/ rects = <<>>
  <2>1. UpdateRects(rects, force_full) = <<FullPanel>>
    BY <1>1 DEF UpdateRects
  <2> QED
    BY <2>1, FullPanelCovers
<1>2. CASE ~(force_full \/ rects = <<>>)
  <2>1. Lower(Len(rects), MaxRects) = Len(rects)
    BY PanelAssumption DEF Lower
  <2>2. UpdateRects(rects, force_full) = [i \in 1 .. Len(rects) |-> Clamp(rects[i])]
    BY <1>2, <2>1 DEF UpdateRects
  <2>3. j \in 1 .. Len(rects) /\ rects[j] \in Rect
    OBVIOUS
  <2>4. Covers(Clamp(rects[j]), p)
    BY <2>3, ClampCovers
  <2> QED
    BY <2>2, <2>3, <2>4
<1> QED
  BY <1>1, <1>2

LEMMA UpdateRectsAreSeq ==
  ASSUME NEW rects \in Seq(Rect), NEW force_full \in BOOLEAN
  PROVE  DOMAIN UpdateRects(rects, force_full) = 1 .. Len(UpdateRects(rects, force_full))
<1> DEFINE m == Lower(Len(rects), MaxRects)
<1>1. m \in Nat
  BY PanelAssumption DEF Lower
<1>2. UpdateRects(rects, force_full) = <<FullPanel>>
      \/ UpdateRects(rects, force_full) = [i \in 1 .. m |-> Clamp(rects[i])]
  BY DEF UpdateRects
<1> HIDE DEF m
<1> QED
  BY <1>1, <1>2

-----------------------------------------------------------------------------
(* The bounds of a region. *)

\* A sequence of numbers has a least one.
LEMMA HasLeast ==
  ASSUME NEW n0 \in Nat \ {0}, NEW f0 \in [1 .. n0 -> Int]
  PROVE  \E i \in 1 .. n0 : \A j \in 1 .. n0 : f0[i] <= f0[j]
<1> DEFINE Has(n, f) == \E i \in 1 .. n : \A j \in 1 .. n : f[i] <= f[j]
           S == {n \in Nat : \A f \in [1 .. n + 1 -> Int] : Has(n + 1, f)}
<1>1. 0 \in S
  <2>1. ASSUME NEW f \in [1 .. 0 + 1 -> Int] PROVE Has(0 + 1, f)
    <3>1. 1 .. 0 + 1 = {1} /\ f[1] <= f[1]
      OBVIOUS
    <3> QED
      BY <3>1
  <2> QED
    BY <2>1
<1>2. ASSUME NEW n \in Nat, n \in S PROVE n + 1 \in S
  <2>1. ASSUME NEW f \in [1 .. (n + 1) + 1 -> Int] PROVE Has((n + 1) + 1, f)
    <3> DEFINE m == n + 1
               g == [k \in 1 .. m |-> f[k]]
    <3>1. g \in [1 .. m -> Int] /\ m \in Nat /\ f[m + 1] \in Int
      OBVIOUS
    <3>2. PICK i \in 1 .. m : \A j \in 1 .. m : g[i] <= g[j]
      BY <1>2, <3>1
    <3>3. /\ \A j \in 1 .. m : f[j] \in Int /\ f[i] <= f[j]
          /\ \A j \in 1 .. m + 1 : j \in 1 .. m \/ j = m + 1
          /\ i \in 1 .. m + 1 /\ f[i] \in Int
      BY <3>2
    <3> HIDE DEF m, g
    <3>4. CASE f[i] <= f[m + 1]
      BY <3>3, <3>4 DEF m
    <3>5. CASE ~(f[i] <= f[m + 1])
      <4>1. m + 1 \in 1 .. m + 1
        BY <3>1
      <4>2. ASSUME NEW j \in 1 .. m + 1 PROVE f[m + 1] <= f[j]
        <5>1. CASE j = m + 1
          BY <3>1, <5>1
        <5>2. CASE j \in 1 .. m
          <6>1. f[j] \in Int /\ f[i] \in Int /\ f[m + 1] \in Int /\ f[i] <= f[j]
            BY <3>1, <3>3, <5>2
          <6> QED
            BY <3>5, <6>1
        <5> QED
          BY <3>3, <5>1, <5>2
      <4> QED
        BY <4>1, <4>2 DEF m
    <3> QED
      BY <3>4, <3>5, Zenon
  <2>2. n + 1 \in Nat
    OBVIOUS
  <2> HIDE DEF Has
  <2> QED
    BY <2>1, <2>2
<1> HIDE DEF S
<1>3. Nat \subseteq S
  BY <1>1, <1>2, NatInduct
<1>4. n0 - 1 \in Nat /\ (n0 - 1) + 1 = n0
  OBVIOUS
<1> QED
  BY <1>3, <1>4 DEF S

LEMMA MinOfSeq ==
  ASSUME NEW n \in Nat \ {0}, NEW f \in [1 .. n -> Int]
  PROVE  /\ Min({f[i] : i \in 1 .. n}) \in Int
         /\ \A j \in 1 .. n : Min({f[i] : i \in 1 .. n}) <= f[j]
<1>1. PICK i \in 1 .. n : \A j \in 1 .. n : f[i] <= f[j]
  BY HasLeast
<1>2. \E x \in {f[k] : k \in 1 .. n} : \A y \in {f[k] : k \in 1 .. n} : x <= y
  BY <1>1
<1> QED
  BY <1>2 DEF Min

LEMMA MaxOfSeq ==
  ASSUME NEW n \in Nat \ {0}, NEW f \in [1 .. n -> Int]
  PROVE  /\ Max({f[i] : i \in 1 .. n}) \in Int
         /\ \A j \in 1 .. n : f[j] <= Max({f[i] : i \in 1 .. n})
<1> DEFINE g == [k \in 1 .. n |-> 0 - f[k]]
<1>0. g \in [1 .. n -> Int]
  OBVIOUS
<1>1. PICK i \in 1 .. n : \A j \in 1 .. n : g[i] <= g[j]
  BY <1>0, HasLeast
<1>2. \A j \in 1 .. n : f[i] >= f[j]
  BY <1>1
<1>3. \E x \in {f[k] : k \in 1 .. n} : \A y \in {f[k] : k \in 1 .. n} : x >= y
  BY <1>2
<1> QED
  BY <1>3 DEF Max

\* The bounds are a rectangle, and hold every rectangle of the region.
LEMMA BoundsHold ==
  ASSUME NEW g \in Seq(Rect), g # <<>>
  PROVE  /\ GetBounds(g) \in Rect
         /\ \A j \in DOMAIN g :
              /\ GetBounds(g).left <= g[j].left /\ GetBounds(g).top <= g[j].top
              /\ g[j].right <= GetBounds(g).right /\ g[j].bottom <= GetBounds(g).bottom
<1> DEFINE n == Len(g)
           l == [i \in 1 .. n |-> g[i].left]
           t0 == [i \in 1 .. n |-> g[i].top]
           r == [i \in 1 .. n |-> g[i].right]
           b == [i \in 1 .. n |-> g[i].bottom]
<1>1. n \in Nat \ {0} /\ DOMAIN g = 1 .. n /\ \A i \in 1 .. n : g[i] \in Rect
  OBVIOUS
<1>2. /\ l \in [1 .. n -> Int] /\ t0 \in [1 .. n -> Int]
      /\ r \in [1 .. n -> Int] /\ b \in [1 .. n -> Int]
  BY <1>1 DEF Rect
<1>3. /\ {g[i].left : i \in DOMAIN g} = {l[i] : i \in 1 .. n}
      /\ {g[i].top : i \in DOMAIN g} = {t0[i] : i \in 1 .. n}
      /\ {g[i].right : i \in DOMAIN g} = {r[i] : i \in 1 .. n}
      /\ {g[i].bottom : i \in DOMAIN g} = {b[i] : i \in 1 .. n}
  BY <1>1
<1>4. GetBounds(g) = Box(Min({g[i].left : i \in DOMAIN g}), Min({g[i].top : i \in DOMAIN g}),
                         Max({g[i].right : i \in DOMAIN g}), Max({g[i].bottom : i \in DOMAIN g}))
  BY DEF GetBounds
<1>5. GetBounds(g) = Box(Min({l[i] : i \in 1 .. n}), Min({t0[i] : i \in 1 .. n}),
                         Max({r[i] : i \in 1 .. n}), Max({b[i] : i \in 1 .. n}))
  BY <1>3, <1>4
<1>6. \A i \in 1 .. n : l[i] = g[i].left /\ t0[i] = g[i].top /\ r[i] = g[i].right /\ b[i] = g[i].bottom
  OBVIOUS
<1> HIDE DEF n, l, t0, r, b
<1>7. /\ Min({l[i] : i \in 1 .. n}) \in Int /\ \A j \in 1 .. n : Min({l[i] : i \in 1 .. n}) <= l[j]
      /\ Min({t0[i] : i \in 1 .. n}) \in Int /\ \A j \in 1 .. n : Min({t0[i] : i \in 1 .. n}) <= t0[j]
  BY <1>1, <1>2, MinOfSeq
<1>8. /\ Max({r[i] : i \in 1 .. n}) \in Int /\ \A j \in 1 .. n : r[j] <= Max({r[i] : i \in 1 .. n})
      /\ Max({b[i] : i \in 1 .. n}) \in Int /\ \A j \in 1 .. n : b[j] <= Max({b[i] : i \in 1 .. n})
  BY <1>1, <1>2, MaxOfSeq
<1>9. GetBounds(g) \in Rect
  BY <1>5, <1>7, <1>8 DEF Box, Rect
<1> QED
  BY <1>1, <1>5, <1>6, <1>7, <1>8, <1>9 DEF Box

LEMMA InnerCovers ==
  ASSUME NEW r \in Rect, NEW b \in Rect, NEW p, p[1] \in Int, p[2] \in Int,
         b.left <= r.left, b.top <= r.top, r.right <= b.right, r.bottom <= b.bottom,
         Covers(r, p)
  PROVE  Covers(b, p)
<1>1. /\ r.left \in Int /\ r.top \in Int /\ r.right \in Int /\ r.bottom \in Int
      /\ b.left \in Int /\ b.top \in Int /\ b.right \in Int /\ b.bottom \in Int
  BY DEF Rect
<1> QED
  BY <1>1 DEF Covers

\* What is published are rectangles, no more than fit, and they hold the region.
LEMMA PublishableHolds ==
  ASSUME NEW g \in Seq(Rect)
  PROVE  /\ Publishable(g) \in Seq(Rect) /\ Len(Publishable(g)) <= MaxRects
         /\ CoveredBy(g) \subseteq CoveredBy(Publishable(g))
<1>1. CASE Len(g) <= MaxRects
  BY <1>1 DEF Publishable
<1>2. CASE ~(Len(g) <= MaxRects)
  <2>1. g # <<>> /\ Publishable(g) = <<GetBounds(g)>>
    BY <1>2, PanelAssumption DEF Publishable
  <2>2. Publishable(g) \in Seq(Rect) /\ Len(Publishable(g)) <= MaxRects
    BY <2>1, BoundsHold, PanelAssumption
  <2>3. ASSUME NEW p \in Pixels, NEW j \in DOMAIN g, Covers(g[j], p)
        PROVE  Covers(GetBounds(g), p)
    <3>1. /\ p[1] \in Int /\ p[2] \in Int /\ g[j] \in Rect /\ GetBounds(g) \in Rect
          /\ GetBounds(g).left <= g[j].left /\ GetBounds(g).top <= g[j].top
          /\ g[j].right <= GetBounds(g).right /\ g[j].bottom <= GetBounds(g).bottom
      BY <2>1, BoundsHold, PanelAssumption DEF Pixels
    <3> QED
      BY <2>3, <3>1, InnerCovers
  <2>4. CoveredBy(g) \subseteq CoveredBy(Publishable(g))
    BY <2>1, <2>3 DEF CoveredBy
  <2> QED
    BY <2>2, <2>4
<1> QED
  BY <1>1, <1>2

-----------------------------------------------------------------------------
(* The damage path, for every region. *)

LEMMA RegionTypeCorrect == RegionSpec => [](region \in Seq(Rect))
<1>1. RegionInit => region \in Seq(Rect)
  BY DEF RegionInit
<1>2. region \in Seq(Rect) /\ [AddRect]_region => (region \in Seq(Rect))'
  BY PathAssumption DEF AddRect
<1> QED
  BY <1>1, <1>2, PTL DEF RegionSpec

\* Every pixel of the dirty region lies in some rectangle handed to the kernel,
\* also when publishEpdcDamage collapses it to its bounds and init_parms clamps.
THEOREM PathDamageIsRefreshed == RegionSpec => []DamageIsRefreshed
<1>1. region \in Seq(Rect) => DamageIsRefreshed
  <2> SUFFICES ASSUME region \in Seq(Rect), NEW full \in BOOLEAN
               PROVE  CoveredBy(region) \subseteq CoveredBy(Submitted(full))
    BY DEF DamageIsRefreshed
  <2> QED
    BY PublishableHolds, UpdateRectsCover DEF Submitted
<1> QED
  BY <1>1, RegionTypeCorrect, PTL

\* The kernel is never handed a rectangle it would reject, nor too many.
THEOREM PathKernelAccepts == RegionSpec => []KernelAccepts
<1>1. region \in Seq(Rect) => KernelAccepts
  <2> SUFFICES ASSUME region \in Seq(Rect), NEW full \in BOOLEAN
               PROVE  /\ Len(Submitted(full)) \in 1 .. MaxRects
                      /\ \A i \in DOMAIN Submitted(full) : Acceptable(Submitted(full)[i])
    BY DEF KernelAccepts
  <2>1. Publishable(region) \in Seq(Rect)
    BY PublishableHolds
  <2>2. /\ Len(Submitted(full)) \in 1 .. MaxRects
        /\ \A i \in 1 .. Len(Submitted(full)) : Acceptable(Submitted(full)[i])
    BY <2>1, UpdateRectsAccepted DEF Submitted
  <2>3. DOMAIN Submitted(full) = 1 .. Len(Submitted(full))
    BY <2>1, UpdateRectsAreSeq DEF Submitted
  <2> QED
    BY <2>2, <2>3
<1> QED
  BY <1>1, RegionTypeCorrect, PTL

\* Where a rectangle reaches into the panel, clamping adds no pixel to it.
LEMMA ClampAddsNothing ==
  ASSUME NEW r \in Rect, NEW q \in Pixels, Covers(r, q), NEW p \in Pixels, Covers(Clamp(r), p)
  PROVE  Covers(r, p)
<1>1. /\ p[1] \in Int /\ 0 <= p[1] /\ p[1] < PanelW /\ p[2] \in Int /\ 0 <= p[2] /\ p[2] < PanelH
      /\ q[1] \in Int /\ 0 <= q[1] /\ q[1] < PanelW /\ q[2] \in Int /\ 0 <= q[2] /\ q[2] < PanelH
      /\ PanelW \in Nat /\ PanelH \in Nat
  BY PanelAssumption DEF Pixels
<1>2. Covers(Trim(r), q)
  BY <1>1 DEF Covers, Trim, Box, Upper, Lower, Rect
<1>3. Clamp(r) = Trim(r)
  BY <1>1, <1>2 DEF Clamp, Covers, Trim, Box, Upper, Lower, Rect
<1> QED
  BY <1>1, <1>3 DEF Covers, Trim, Box, Upper, Lower, Rect

\* With no more rectangles than fit, all of them reaching into the panel, nothing
\* is driven that did not change.
THEOREM PathNoOverRefresh == RegionSpec => []NoOverRefresh
<1>1. region \in Seq(Rect) => NoOverRefresh
  <2> SUFFICES ASSUME region \in Seq(Rect), Len(region) \in 1 .. MaxRects,
                      \A i \in DOMAIN region : CoveredBy(<<region[i]>>) # {}
               PROVE  CoveredBy(Submitted(FALSE)) = CoveredBy(region)
    BY DEF NoOverRefresh
  <2> DEFINE sub == [i \in 1 .. Len(region) |-> Clamp(region[i])]
  <2>1. Submitted(FALSE) = sub
    <3>1. Publishable(region) = region /\ region # <<>>
      BY DEF Publishable
    <3>2. Lower(Len(region), MaxRects) = Len(region)
      BY PanelAssumption DEF Lower
    <3> QED
      BY <3>1, <3>2 DEF Submitted, UpdateRects
  <2>2. ASSUME NEW p \in Pixels, NEW i \in 1 .. Len(region), Covers(Clamp(region[i]), p)
        PROVE  Covers(region[i], p)
    <3>1. region[i] \in Rect /\ i \in DOMAIN region
      OBVIOUS
    <3>2. PICK q \in CoveredBy(<<region[i]>>) : TRUE
      BY <3>1
    <3>3. q \in Pixels /\ Covers(region[i], q)
      BY <3>2 DEF CoveredBy
    <3> QED
      BY <2>2, <3>1, <3>3, ClampAddsNothing
  <2>3. CoveredBy(sub) \subseteq CoveredBy(region)
    <3>1. /\ DOMAIN region = 1 .. Len(region) /\ DOMAIN sub = 1 .. Len(region)
          /\ \A i \in 1 .. Len(region) : sub[i] = Clamp(region[i])
      OBVIOUS
    <3> HIDE DEF sub
    <3> QED
      BY <2>2, <3>1 DEF CoveredBy
  <2>4. CoveredBy(region) \subseteq CoveredBy(Submitted(FALSE))
    <3>1. Publishable(region) \in Seq(Rect) /\ Len(Publishable(region)) <= MaxRects
          /\ CoveredBy(region) \subseteq CoveredBy(Publishable(region))
      BY PublishableHolds
    <3> QED
      BY <3>1, UpdateRectsCover DEF Submitted
  <2> HIDE DEF sub
  <2> QED
    BY <2>1, <2>3, <2>4, Zenon
<1> QED
  BY <1>1, RegionTypeCorrect, PTL

-----------------------------------------------------------------------------
(* The hash of a request. *)

LEMMA ShimConstants ==
  /\ Objects \subseteq Nat /\ Plane \in Objects
  /\ MaxObj \in Nat /\ MaxObj > 0 /\ HashMod \in Nat /\ HashMod > 0
  /\ Recheck \in Nat /\ Recheck > 0
  /\ MaxFrames \in Nat /\ MaxTime \in Nat /\ MaxTime > 0 /\ MaxDrives \in Nat
<1>1. Objects \subseteq Nat
  BY ShimAssumption, Zenon
<1> QED
  BY <1>1, ShimAssumption

Recorded == [obj : Objects, fb : 0 .. 2]

LEMMA HashType ==
  ASSUME NEW q \in Seq(Recorded)
  PROVE  Hash(q) \in 0 .. HashMod - 1
<1> DEFINE N == Len(q)
           Mix(n, x) == (x * 31 + q[n].obj * 131 + q[n].fb) % HashMod
           V == 0 .. HashMod - 1
           step == [n \in 1 .. N |-> [x \in V |-> Mix(n, x)]]
           Body(g) == [n \in 0 .. N |-> IF n = 0 THEN 0 ELSE (g[n-1] * 31 + q[n].obj * 131 + q[n].fb) % HashMod]
           sig == CHOOSE g : g = Body(g)
<1>1. N \in Nat /\ HashMod \in Nat \ {0}
  BY ShimAssumption
<1>2. \A n \in 1 .. N : q[n].obj \in Int /\ q[n].fb \in Int
  <2> SUFFICES ASSUME NEW n \in 1 .. N PROVE q[n].obj \in Int /\ q[n].fb \in Int
    OBVIOUS
  <2>1. q[n] \in Recorded
    OBVIOUS
  <2>2. q[n].obj \in Objects /\ q[n].fb \in 0 .. 2
    BY <2>1 DEF Recorded
  <2>3. Objects \subseteq Nat
    BY ShimConstants
  <2>4. q[n].obj \in Nat
    BY <2>2, <2>3, Zenon
  <2>5. q[n].fb \in Int
    BY <2>2
  <2> QED
    BY <2>4, <2>5
<1>3. ASSUME NEW n \in 1 .. N, NEW x \in Int
      PROVE  Mix(n, x) \in 0 .. HashMod - 1
  <2>1. x * 31 + q[n].obj * 131 + q[n].fb \in Int
    BY <1>2
  <2> QED
    BY <1>1, <2>1
<1>4. step \in [1 .. N -> [V -> V]]
  BY <1>1, <1>3
<1>5. PICK g \in [0 .. N -> V] : g[0] = 0 /\ \A n \in 1 .. N : g[n] = step[n][g[n-1]]
  <2>1. 0 \in V
    BY <1>1
  <2>2. N \in Nat
    BY <1>1
  <2> HIDE DEF step, N, V
  <2>3. \E g \in [0 .. N -> V] : Recurses(g, N, 0, step)
    BY <1>4, <2>1, <2>2, RecursionExists
  <2> QED
    BY <2>3 DEF Recurses
<1>6. g = Body(g)
  <2>1. \A n \in 0 .. N : g[n] = IF n = 0 THEN 0 ELSE (g[n-1] * 31 + q[n].obj * 131 + q[n].fb) % HashMod
    <3>1. ASSUME NEW n \in 1 .. N PROVE g[n] = Mix(n, g[n-1])
      <4>1. n - 1 \in 0 .. N /\ g[n-1] \in V
        BY <1>1, <1>5
      <4> QED
        BY <1>5, <4>1
    <3> QED
      BY <1>1, <1>5, <3>1
  <2> QED
    BY <2>1, <1>5
<1>7. sig = Body(sig)
  BY <1>6
<1>8. Hash(q) = sig[N]
  BY DEF Hash
<1> HIDE DEF sig
<1>9. /\ sig[0] = 0 /\ \A n \in 1 .. N : sig[n] = Mix(n, sig[n-1])
  BY <1>1, <1>7
<1> HIDE DEF Body, step, N, Mix
<1> DEFINE T == {n \in Nat : n <= N => sig[n] \in 0 .. HashMod - 1}
<1>10. 0 \in T
  BY <1>1, <1>9
<1>11. ASSUME NEW n \in Nat, n \in T PROVE n + 1 \in T
  <2> SUFFICES ASSUME n + 1 <= N PROVE sig[n + 1] \in 0 .. HashMod - 1
    BY DEF T
  <2>1. n + 1 \in 1 .. N /\ (n + 1) - 1 = n
    BY <1>1
  <2>2. sig[n] \in Int
    BY <1>1, <1>11, <2>1 DEF T
  <2> QED
    BY <1>3, <1>9, <2>1, <2>2
<1> HIDE DEF T
<1>12. N \in T
  BY <1>1, <1>10, <1>11, NatInduct
<1> QED
  BY <1>1, <1>8, <1>12 DEF T

-----------------------------------------------------------------------------
(* The cache of objects. *)

Cached == [obj : Objects, epdc : BOOLEAN]

Distinct(q) == \A i, j \in DOMAIN q : q[i].obj = q[j].obj => i = j

LEMMA InjectiveMeans ==
  ASSUME NEW q PROVE IsInjective([i \in DOMAIN q |-> q[i].obj]) <=> Distinct(q)
  BY DEF IsInjective, Distinct

LEMMA AppendDistinct ==
  ASSUME NEW T, NEW q \in Seq(T), Distinct(q), NEW e \in T,
         \A i \in DOMAIN q : q[i].obj # e.obj
  PROVE  Distinct(Append(q, e))
<1>1. \A i \in DOMAIN Append(q, e) : Append(q, e)[i] = IF i = Len(q) + 1 THEN e ELSE q[i]
  OBVIOUS
<1>2. \A i \in DOMAIN Append(q, e) : i = Len(q) + 1 \/ i \in DOMAIN q
  OBVIOUS
<1> QED
  BY <1>1, <1>2 DEF Distinct

\* What the loop over the recorded objects leaves in the cache: no object twice, no
\* entry lost or changed, and every recorded object as long as there is room.
LEMMA LookedHolds ==
  ASSUME NEW answers \in BOOLEAN, pend \in Seq(Recorded),
         cache \in Seq(Cached), Len(cache) <= MaxObj, Distinct(cache)
  PROVE  /\ Looked(answers) \in Seq(Cached) /\ Len(Looked(answers)) <= MaxObj
         /\ Distinct(Looked(answers))
         /\ \A i \in DOMAIN Looked(answers) :
              \/ Looked(answers)[i] \in ToSet(cache)
              \/ Looked(answers)[i].epdc = (answers /\ Looked(answers)[i].obj = Plane)
         /\ \A n \in DOMAIN pend :
              \/ pend[n].obj \in Known(Looked(answers))
              \/ Len(Looked(answers)) >= MaxObj
<1> DEFINE N == Len(pend)
           S == Seq(Cached)
           New(n) == [obj |-> pend[n].obj, epdc |-> answers /\ pend[n].obj = Plane]
           Grown(n, c) == IF pend[n].obj \in Known(c) \/ Len(c) >= MaxObj THEN c
                          ELSE Append(c, New(n))
           step == [n \in 1 .. N |-> [c \in S |-> Grown(n, c)]]
           Body(g) == [n \in 0 .. N |->
                         IF n = 0 THEN cache
                         ELSE IF pend[n].obj \in Known(g[n-1]) \/ Len(g[n-1]) >= MaxObj THEN g[n-1]
                         ELSE Append(g[n-1], [obj |-> pend[n].obj,
                                              epdc |-> answers /\ pend[n].obj = Plane])]
           After == CHOOSE g : g = Body(g)
<1>1. N \in Nat /\ \A n \in 1 .. N : New(n) \in Cached /\ New(n).obj = pend[n].obj
  <2>1. ASSUME NEW n \in 1 .. N PROVE pend[n].obj \in Objects
    <3>1. pend[n] \in Recorded
      OBVIOUS
    <3> QED
      BY <3>1 DEF Recorded
  <2>2. (answers /\ TRUE) \in BOOLEAN
    OBVIOUS
  <2> QED
    BY <2>1 DEF Cached
<1>2. \A n \in 1 .. N, c \in S : Grown(n, c) \in S
  <2> HIDE DEF New
  <2> QED
    BY <1>1
<1>3. PICK g \in [0 .. N -> S] : Recurses(g, N, cache, step)
  <2>1. step \in [1 .. N -> [S -> S]]
    BY <1>2
  <2>2. N \in Nat /\ cache \in S
    BY <1>1
  <2> HIDE DEF step, N, S
  <2> QED
    BY <2>1, <2>2, RecursionExists
<1>4. g = Body(g)
  <2>1. g[0] = cache
    BY <1>3 DEF Recurses
  <2>2. ASSUME NEW n \in 1 .. N PROVE g[n] = Grown(n, g[n-1])
    <3>1. n - 1 \in 0 .. N
      BY <1>1
    <3>2. g[n-1] \in S
      BY <3>1
    <3>3. g[n] = step[n][g[n-1]]
      BY <1>3 DEF Recurses
    <3> HIDE DEF Grown, S
    <3> QED
      BY <3>2, <3>3
  <2>3. \A n \in 0 .. N : g[n] = IF n = 0 THEN cache ELSE Grown(n, g[n-1])
    <3> HIDE DEF Grown
    <3>1. \A n \in 0 .. N : n = 0 \/ n \in 1 .. N
      BY <1>1
    <3> QED
      BY <2>1, <2>2, <3>1
  <2>4. g = [n \in 0 .. N |-> g[n]]
    BY <1>3
  <2> QED
    BY <2>3, <2>4
<1>5. After = Body(After)
  BY <1>4
<1>6. Looked(answers) = After[N]
  BY DEF Looked
<1> HIDE DEF After
<1>7. After[0] = cache /\ \A n \in 1 .. N : After[n] = Grown(n, After[n-1])
  <2>1. \A n \in 0 .. N : After[n] = IF n = 0 THEN cache ELSE Grown(n, After[n-1])
    BY <1>5
  <2> HIDE DEF Grown
  <2>2. 0 \in 0 .. N /\ \A n \in 1 .. N : n \in 0 .. N /\ n # 0
    BY <1>1
  <2> QED
    BY <2>1, <2>2
<1> HIDE DEF Body, step
<1> DEFINE Holds(n) ==
      /\ After[n] \in Seq(Cached) /\ Len(After[n]) <= MaxObj
      /\ Distinct(After[n])
      /\ \A i \in DOMAIN After[n] :
           After[n][i] \in ToSet(cache) \/ After[n][i].epdc = (answers /\ After[n][i].obj = Plane)
      /\ \A k \in 1 .. n : pend[k].obj \in Known(After[n]) \/ Len(After[n]) >= MaxObj
<1>8. Holds(0)
  BY <1>7 DEF ToSet
<1>9. ASSUME NEW n \in Nat, n + 1 <= N, Holds(n) PROVE Holds(n + 1)
  <2>0. n + 1 \in 1 .. N /\ (n + 1) - 1 = n
    <3>1. N \in Nat /\ n + 1 <= N
      BY <1>1, <1>9
    <3> HIDE DEF N
    <3> QED
      BY <3>1
  <2>1. After[n + 1] = Grown(n + 1, After[n])
    BY <1>7, <2>0
  <2>2. CASE pend[n + 1].obj \in Known(After[n]) \/ Len(After[n]) >= MaxObj
    <3>1. After[n + 1] = After[n]
      BY <2>1, <2>2
    <3>2. \A k \in 1 .. n + 1 : k \in 1 .. n \/ k = n + 1
      BY <1>9
    <3> QED
      BY <1>9, <2>2, <3>1, <3>2
  <2>3. CASE ~(pend[n + 1].obj \in Known(After[n]) \/ Len(After[n]) >= MaxObj)
    <3> DEFINE e == New(n + 1)
               a == After[n]
               b == After[n + 1]
    <3>1. b = Append(a, e) /\ a \in Seq(Cached) /\ e \in Cached /\ e.obj = pend[n + 1].obj
      BY <1>1, <1>9, <2>0, <2>1, <2>3
    <3>2. e.epdc = (answers /\ e.obj = Plane)
      BY <3>1
    <3>3. Distinct(b)
      <4>1. \A i \in DOMAIN a : a[i].obj # e.obj
        BY <2>3, <3>1 DEF Known
      <4>2. Distinct(a)
        BY <1>9
      <4> HIDE DEF a, e, b
      <4> QED
        BY <3>1, <4>1, <4>2, AppendDistinct
    <3>4. Len(a) < MaxObj
      BY <2>3, ShimConstants, <3>1
    <3>5. DOMAIN b = 1 .. Len(a) + 1 /\ Len(b) = Len(a) + 1
          /\ \A i \in 1 .. Len(a) + 1 : b[i] = IF i = Len(a) + 1 THEN e ELSE a[i]
      <4> HIDE DEF a, e, b
      <4> QED
        BY <3>1
    <3>6. Known(b) = Known(a) \cup {pend[n + 1].obj}
      <4> HIDE DEF a, e, b
      <4>1. Known(b) = {b[i].obj : i \in 1 .. Len(a) + 1}
        BY <3>5 DEF Known
      <4>2. Known(a) = {a[i].obj : i \in 1 .. Len(a)}
        BY <3>1 DEF Known
      <4>3. Len(a) + 1 \in 1 .. Len(a) + 1 /\ b[Len(a) + 1] = e
            /\ \A i \in 1 .. Len(a) : i \in 1 .. Len(a) + 1 /\ b[i] = a[i]
        BY <3>1, <3>5
      <4>4. \A i \in 1 .. Len(a) + 1 : i \in 1 .. Len(a) \/ i = Len(a) + 1
        BY <3>1
      <4>5. e.obj = pend[n + 1].obj
        BY <3>1
      <4> QED
        BY <4>1, <4>2, <4>3, <4>4, <4>5
    <3>7. \A k \in 1 .. n + 1 : pend[k].obj \in Known(b)
      <4>1. \A k \in 1 .. n : pend[k].obj \in Known(a)
        BY <1>9, <3>4, <3>1, ShimConstants
      <4>2. \A k \in 1 .. n + 1 : k \in 1 .. n \/ k = n + 1
        BY <1>9
      <4> QED
        BY <3>6, <4>1, <4>2
    <3>8. \A i \in DOMAIN b : b[i] \in ToSet(cache) \/ b[i].epdc = (answers /\ b[i].obj = Plane)
      <4>1. \A i \in DOMAIN a : a[i] \in ToSet(cache) \/ a[i].epdc = (answers /\ a[i].obj = Plane)
        BY <1>9
      <4>2. DOMAIN a = 1 .. Len(a)
        BY <3>1
      <4> HIDE DEF a, e, b
      <4> QED
        BY <3>2, <3>5, <4>1, <4>2
    <3>9. b \in Seq(Cached) /\ Len(b) <= MaxObj
      <4> HIDE DEF e, a, b
      <4> QED
        BY <3>1, <3>4, <3>5, ShimConstants
    <3> QED
      BY <3>3, <3>7, <3>8, <3>9
  <2> QED
    BY <2>2, <2>3
<1> DEFINE T == {n \in Nat : n <= N => Holds(n)}
<1> HIDE DEF Holds
<1>10. 0 \in T
  BY <1>8
<1>11. \A n \in Nat : n \in T => n + 1 \in T
  BY <1>1, <1>9
<1> HIDE DEF T
<1>12. N \in T
  BY <1>1, <1>10, <1>11, NatInduct
<1>13. Holds(N)
  BY <1>1, <1>12 DEF T
<1> QED
  BY <1>6, <1>13 DEF Holds

-----------------------------------------------------------------------------
(* Types: the conjuncts of TypeOK by the variables that change together.     *)

MailOK ==
  /\ posted \in [id : Nat, rects : Seq(Rect)] /\ seen \in 0 .. posted.id
  /\ verdict \in [kind : {"unknown", "unchanged", "new"}, full : {0, 1}, rects : Seq(Rect)]

SfOK == frame \in [Pixels -> Nat] /\ fb \in {1, 2} /\ due \in BOOLEAN

PendOK == pend \in Seq(Recorded) /\ Len(pend) <= MaxObj /\ Distinct(pend)

CacheOK == cache \in Seq(Cached) /\ Len(cache) <= MaxObj /\ Distinct(cache)
           /\ fbid_known \in BOOLEAN

TunableOK == t \in Setting /\ commits_since_recheck \in 0 .. Recheck

PolicyOK == /\ last_fb_sig \in 0 .. HashMod - 1 /\ last_inject \in 0 .. now
            /\ updates_since_full \in Nat

PanelOK == /\ ebc \in [Pixels -> Nat] /\ rough \in Nat /\ missed \in 0 .. rough
           /\ update_marker \in 0 .. MaxDrives

RestOK == /\ now \in 1 .. MaxTime /\ lost \in BOOLEAN /\ attached \in BOOLEAN
          /\ request \subseteq Objects

LEMMA TypeParts ==
  TypeOK <=> /\ MailOK /\ SfOK /\ PendOK /\ CacheOK
             /\ TunableOK /\ PolicyOK /\ PanelOK /\ RestOK
<1>1. (\A q \in {pend, cache} : IsInjective([i \in DOMAIN q |-> q[i].obj]))
      <=> Distinct(pend) /\ Distinct(cache)
  BY InjectiveMeans
<1> QED
  BY <1>1 DEF TypeOK, MailOK, SfOK, PendOK, CacheOK, TunableOK, PolicyOK, PanelOK, RestOK,
              Recorded, Cached

LEMMA TypePartsNext ==
  TypeOK' <=> /\ MailOK' /\ SfOK' /\ PendOK' /\ CacheOK'
              /\ TunableOK' /\ PolicyOK' /\ PanelOK' /\ RestOK'
<1>1. (\A q \in {pend', cache'} : IsInjective([i \in DOMAIN q |-> q[i].obj]))
      <=> Distinct(pend') /\ Distinct(cache')
  BY InjectiveMeans
<1> QED
  BY <1>1 DEF TypeOK, MailOK, SfOK, PendOK, CacheOK, TunableOK, PolicyOK, PanelOK, RestOK,
              Recorded, Cached

LEMMA MaxOfNats ==
  ASSUME NEW B \in Nat, NEW S \in SUBSET (0 .. B), S # {}
  PROVE  Max(S) \in Nat
<1> DEFINE R == {n \in Nat : B - n \in S}
<1>1. PICK x \in S : TRUE
  OBVIOUS
<1>2. B - x \in R
  OBVIOUS
<1>3. PICK m \in R : \A k \in R : m <= k
  <2>1. R \in SUBSET Nat
    OBVIOUS
  <2> HIDE DEF R
  <2> QED
    BY <1>2, <2>1, LeastNumber
<1>4. \A y \in S : B - m >= y
  <2> SUFFICES ASSUME NEW y \in S PROVE B - m >= y
    OBVIOUS
  <2>1. y \in Nat /\ B - y \in R /\ m \in Nat
    OBVIOUS
  <2>2. m <= B - y
    BY <1>3, <2>1
  <2> QED
    BY <2>1, <2>2
<1>5. B - m \in S
  OBVIOUS
<1>6. \E y \in S : \A z \in S : y >= z
  BY <1>4, <1>5
<1>7. Max(S) \in S
  <2> HIDE DEF R
  <2> QED
    BY <1>6 DEF Max
<1>8. S \subseteq Nat
  OBVIOUS
<1> QED
  BY <1>7, <1>8, Zenon

LEMMA RefreshHolds ==
  ASSUME TunableOK, RefreshTunables PROVE TunableOK'
<1>1. CASE commits_since_recheck + 1 < Recheck
  BY <1>1, ShimConstants DEF TunableOK, RefreshTunables
<1>2. CASE ~(commits_since_recheck + 1 < Recheck)
  <2>1. commits_since_recheck' = 0 /\ t' \in Settings
    BY <1>2 DEF RefreshTunables
  <2>2. Settings \subseteq Setting
    BY ShimAssumption, Zenon
  <2> QED
    BY <2>1, <2>2, ShimConstants DEF TunableOK
<1> QED
  BY <1>1, <1>2

LEMMA ReadHolds ==
  ASSUME MailOK, attached \in BOOLEAN, ReadDamage
  PROVE  /\ MailOK' /\ attached' \in BOOLEAN /\ posted' = posted
         /\ attached' => posted.id > 0 \/ attached
         /\ attached => attached'
         /\ \/ verdict'.kind = "unknown" /\ verdict'.rects = <<>> /\ seen' = seen
            \/ attached' /\ seen = posted.id /\ verdict'.kind = "unchanged" /\ seen' = seen
            \/ /\ attached' /\ seen # posted.id /\ verdict'.kind = "new"
               /\ verdict'.rects = posted.rects /\ seen' = posted.id
<1>1. attached' \in BOOLEAN /\ (attached' => posted.id > 0 \/ attached) /\ (attached => attached')
  <2>1. (posted.id > 0) \in BOOLEAN
    OBVIOUS
  <2>2. attached' = attached \/ attached' = (posted.id > 0)
    BY DEF ReadDamage
  <2>3. attached' \in BOOLEAN
    BY <2>1, <2>2
  <2>4. attached => attached'
    BY DEF ReadDamage
  <2>5. attached' => posted.id > 0 \/ attached
    BY <2>2
  <2> QED
    BY <2>3, <2>4, <2>5
<1>2. CASE M!GiveUp
  BY <1>1, <1>2 DEF M!GiveUp, M!Unknown, M!Verdict, MailOK
<1>3. CASE attached' /\ M!Take
  <2>1. posted' = posted /\ seen' = posted.id /\ posted.id \in Nat
    BY <1>3 DEF M!Take, MailOK
  <2>2. CASE seen = posted.id
    BY <1>1, <1>3, <2>1, <2>2 DEF M!Take, M!Unchanged, M!Verdict, MailOK
  <2>3. CASE seen # posted.id
    BY <1>1, <1>3, <2>1, <2>3 DEF M!Take, M!New, M!Verdict, MailOK
  <2> QED
    BY <2>2, <2>3
<1> QED
  BY <1>2, <1>3 DEF ReadDamage

LEMMA RememberHolds ==
  ASSUME PendOK, last_fb_sig \in 0 .. HashMod - 1, RememberSignature
  PROVE  last_fb_sig' \in 0 .. HashMod - 1
<1>1. Signature \in 0 .. HashMod - 1
  BY HashType DEF PendOK, Signature
<1> QED
  BY <1>1 DEF RememberSignature

LEMMA RecordHolds ==
  ASSUME PendOK, SfOK, NEW o \in Objects, Record(o)
  PROVE  /\ PendOK'
         /\ Known(pend') \subseteq Known(pend) \cup {o}
         /\ Known(pend) \subseteq Known(pend')
         /\ Len(pend) < MaxObj => o \in Known(pend')
         /\ o \in Known(pend) => o \in Known(pend')
         /\ \A i \in DOMAIN pend' :
              \/ i \in DOMAIN pend /\ pend'[i] = pend[i]
              \/ pend'[i] = [obj |-> o, fb |-> IF o = Plane /\ fbid_known THEN fb ELSE 0]
<1> DEFINE id == IF o = Plane /\ fbid_known THEN fb ELSE 0
           e == [obj |-> o, fb |-> id]
<1>1. e \in Recorded /\ e.obj = o
  BY DEF Recorded, SfOK
<1>2. /\ pend \in Seq(Recorded) /\ DOMAIN pend = 1 .. Len(pend) /\ Len(pend) \in Nat
      /\ Len(pend) <= MaxObj /\ Distinct(pend)
  BY DEF PendOK
<1>3. CASE Slot(o) # {}
  <2>1. pend' = [i \in DOMAIN pend |-> IF i \in Slot(o) /\ id # 0 THEN e ELSE pend[i]]
    BY <1>3 DEF Record
  <2> HIDE DEF e, id
  <2>2. \A i \in DOMAIN pend : pend'[i] \in Recorded /\ pend'[i].obj = pend[i].obj
    BY <1>1, <1>2, <2>1 DEF Slot
  <2>3. DOMAIN pend' = DOMAIN pend
    BY <2>1
  <2>4. pend' \in Seq(Recorded) /\ Len(pend') = Len(pend)
    <3>1. pend' \in [1 .. Len(pend) -> Recorded]
      BY <1>2, <2>1, <2>2
    <3> QED
      BY <1>2, <3>1
  <2>5. Distinct(pend')
    BY <1>2, <2>2, <2>3 DEF Distinct
  <2>6. Known(pend') = Known(pend) /\ o \in Known(pend)
    BY <1>3, <2>2, <2>3 DEF Known, Slot
  <2>7. \A i \in DOMAIN pend' : i \in DOMAIN pend /\ (pend'[i] = pend[i] \/ pend'[i] = e)
    BY <2>1
  <2> QED
    BY <1>2, <2>4, <2>5, <2>6, <2>7 DEF PendOK, e, id
<1>4. CASE Slot(o) = {} /\ Len(pend) < MaxObj
  <2>1. pend' = Append(pend, e)
    BY <1>4 DEF Record
  <2> HIDE DEF e, id
  <2>2. \A i \in DOMAIN pend : pend[i].obj # o
    BY <1>4 DEF Slot
  <2>3. Distinct(pend')
    BY <1>1, <1>2, <2>1, <2>2, AppendDistinct
  <2>4. pend' \in Seq(Recorded) /\ Len(pend') = Len(pend) + 1 /\ DOMAIN pend' = 1 .. Len(pend) + 1
    BY <1>1, <1>2, <2>1
  <2>5. \A i \in 1 .. Len(pend) + 1 : pend'[i] = IF i = Len(pend) + 1 THEN e ELSE pend[i]
    BY <1>1, <1>2, <2>1
  <2>6. \A i \in 1 .. Len(pend) + 1 : i = Len(pend) + 1 \/ i \in 1 .. Len(pend)
    BY <1>2
  <2>7. /\ Len(pend) + 1 \in DOMAIN pend' /\ pend'[Len(pend) + 1] = e
        /\ \A i \in DOMAIN pend : i \in DOMAIN pend' /\ pend'[i] = pend[i]
    BY <1>2, <2>4, <2>5
  <2>8. \A i \in DOMAIN pend' : (i \in DOMAIN pend /\ pend'[i] = pend[i]) \/ pend'[i] = e
    BY <1>2, <2>4, <2>5, <2>6
  <2>9. o \in Known(pend') /\ Known(pend) \subseteq Known(pend') /\ Known(pend') \subseteq Known(pend) \cup {o}
    BY <1>1, <2>7, <2>8 DEF Known
  <2>10. Len(pend') <= MaxObj
    BY <1>2, <1>4, <2>4, ShimConstants
  <2> QED
    BY <2>3, <2>4, <2>8, <2>9, <2>10 DEF PendOK, e, id
<1>5. CASE Slot(o) = {} /\ ~(Len(pend) < MaxObj)
  <2>1. pend' = pend
    BY <1>5 DEF Record
  <2> QED
    BY <1>2, <1>5, <2>1 DEF PendOK
<1> QED
  BY <1>3, <1>4, <1>5

-----------------------------------------------------------------------------
(* Every step keeps the types, and that every recorded object is one of the  *)
(* request.                                                                  *)

RequestedOnly == Known(pend) \subseteq request

\* The updates since the last clean, or since the last that was lost, were all counted.
RoughCounted == rough - missed <= updates_since_full

ShimInv == TypeOK /\ RequestedOnly /\ RoughCounted

LEMMA InitHolds == Init => ShimInv
<1> SUFFICES ASSUME Init PROVE ShimInv
  OBVIOUS
<1>1. MailOK
  <2>1. <<>> \in Seq(Rect)
    OBVIOUS
  <2>2. posted = [id |-> 0, rects |-> <<>>] /\ seen = 0
        /\ verdict = [kind |-> "unknown", full |-> 0, rects |-> <<>>]
    BY DEF Init, M!Init, M!Unknown, M!Verdict
  <2> QED
    BY <2>1, <2>2 DEF MailOK
<1>2. SfOK /\ PanelOK
  <2>1. 0 \in 0 .. MaxDrives /\ 0 \in 0 .. 0
    BY ShimConstants
  <2> QED
    BY <2>1 DEF Init, SfOK, PanelOK
<1>3. PendOK /\ CacheOK
  <2>1. <<>> \in Seq(Recorded) /\ <<>> \in Seq(Cached) /\ Len(<<>>) = 0 /\ 0 <= MaxObj
    BY ShimConstants
  <2>2. pend = <<>> /\ cache = <<>> /\ fbid_known = FALSE
    BY DEF Init
  <2>3. DOMAIN pend = {} /\ DOMAIN cache = {}
    BY <2>2
  <2> QED
    BY <2>1, <2>2, <2>3 DEF PendOK, CacheOK, Distinct
<1>4. TunableOK
  BY ShimConstants DEF Init, TunableOK, Defaults, Setting
<1>5. PolicyOK /\ RestOK
  <2>1. 0 \in 0 .. HashMod - 1 /\ 0 \in 0 .. 1 /\ 1 \in 1 .. MaxTime
    BY ShimConstants
  <2> QED
    BY <2>1 DEF Init, PolicyOK, RestOK
<1>6. RequestedOnly /\ RoughCounted
  BY DEF Init, RequestedOnly, RoughCounted, Known
<1> QED
  BY <1>1, <1>2, <1>3, <1>4, <1>5, <1>6, TypeParts DEF ShimInv

LEMMA PostHolds ==
  ASSUME MailOK, NEW rects \in Seq(Rect), M!Post(rects)
  PROVE  /\ MailOK' /\ posted' = [id |-> posted.id + 1, rects |-> rects]
         /\ seen' = seen /\ posted'.id > seen'
  BY DEF M!Post, MailOK

LEMMA ComposeFrame ==
  ASSUME SfOK, NEW area \in Regions, Compose(area)
  PROVE  /\ SfOK'
         /\ \A p \in Pixels : p \notin CoveredBy(area) => frame'[p] = frame[p]
<1>1. Max({frame[q] : q \in Pixels}) \in Nat
  <2> DEFINE S == {frame[q] : q \in Pixels}
  <2>1. ASSUME NEW q \in Pixels PROVE frame[q] \in 0 .. MaxFrames
    BY ShimConstants DEF SfOK, Compose
  <2>2. <<0, 0>> \in Pixels
    BY PanelAssumption DEF Pixels
  <2>3. S \in SUBSET (0 .. MaxFrames) /\ S # {}
    BY <2>1, <2>2
  <2>4. MaxFrames \in Nat
    BY ShimConstants
  <2> HIDE DEF S
  <2>5. Max(S) \in Nat
    BY <2>3, <2>4, MaxOfNats
  <2> QED
    BY <2>5 DEF S
<1>2. frame' = [p \in Pixels |-> IF p \in CoveredBy(area)
                                 THEN Max({frame[q] : q \in Pixels}) + 1 ELSE frame[p]]
  BY DEF Compose
<1>3. frame' \in [Pixels -> Nat]
  <2> DEFINE top == Max({frame[q] : q \in Pixels})
  <2>1. top + 1 \in Nat
    BY <1>1
  <2> HIDE DEF top
  <2>2. frame \in [Pixels -> Nat]
    BY DEF SfOK
  <2> QED
    BY <1>2, <2>1, <2>2 DEF top
<1>4. fb' \in {1, 2} /\ due' \in BOOLEAN
  BY DEF SfOK, Compose
<1> QED
  BY <1>2, <1>3, <1>4 DEF SfOK

LEMMA ComposeMail ==
  ASSUME MailOK, NEW area \in Regions, Compose(area)
  PROVE  /\ MailOK'
         /\ \/ posted.id = 0 /\ posted' = posted /\ seen' = seen
            \/ /\ posted.id # 0
               /\ posted' = [id |-> posted.id + 1, rects |-> Publishable(area)]
               /\ seen' = seen /\ posted'.id > seen'
<1>1. area \in Seq(Rect)
  BY ShimAssumption, Zenon
<1>2. Publishable(area) \in Seq(Rect)
  BY <1>1, PublishableHolds
<1>3. CASE posted.id = 0
  BY <1>3 DEF Compose, mailbox, MailOK
<1>4. CASE posted.id # 0
  <2>1. M!Post(Publishable(area))
    BY <1>4 DEF Compose
  <2> QED
    BY <1>2, <1>4, <2>1, PostHolds
<1> QED
  BY <1>3, <1>4

LEMMA SurroundingsHold ==
  ASSUME ShimInv,
         Tick \/ MapDamage \/ (\E area \in Regions : Compose(area)) \/ ComposeIdle
  PROVE  ShimInv'
<1> USE DEF ShimInv
<1>0. /\ MailOK /\ SfOK /\ PendOK /\ CacheOK /\ TunableOK /\ PolicyOK /\ PanelOK /\ RestOK
  BY TypeParts
<1>1. CASE Tick
  <2>1. now' \in 1 .. MaxTime /\ now' = now + 1
    BY <1>0, <1>1, ShimConstants DEF Tick, RestOK
  <2>2. PolicyOK'
    BY <1>0, <1>1, <2>1, ShimConstants DEF Tick, PolicyOK, RestOK, policy
  <2>3. RestOK'
    BY <1>0, <1>1, <2>1 DEF Tick, RestOK
  <2>4. MailOK' /\ SfOK' /\ PendOK'
    BY <1>0, <1>1 DEF Tick, MailOK, SfOK, PendOK, mailbox, sfVars, Distinct
  <2>5. CacheOK' /\ TunableOK' /\ PanelOK'
    BY <1>0, <1>1 DEF Tick, CacheOK, TunableOK, PanelOK, drmVars, tunable, panel, Distinct
  <2>6. RequestedOnly' /\ RoughCounted'
    BY <1>1 DEF Tick, RequestedOnly, RoughCounted, Known, panel, policy
  <2> QED
    BY <2>2, <2>3, <2>4, <2>5, <2>6, TypePartsNext
<1>2. ASSUME MailOK', SfOK',
             UNCHANGED <<now, request, tunable, attached, pend, drmVars, policy, panel, lost>>
      PROVE  ShimInv'
  <2>1. PendOK' /\ CacheOK'
    BY <1>0, <1>2 DEF PendOK, CacheOK, drmVars, Distinct
  <2>2. TunableOK' /\ PolicyOK' /\ PanelOK' /\ RestOK'
    BY <1>0, <1>2 DEF TunableOK, PolicyOK, PanelOK, RestOK, tunable, policy, panel
  <2>3. RequestedOnly' /\ RoughCounted'
    BY <1>2 DEF RequestedOnly, RoughCounted, Known, panel, policy
  <2> QED
    BY <1>2, <2>1, <2>2, <2>3, TypePartsNext
<1>3. CASE MapDamage
  <2>1. MailOK'
    <3>1. <<>> \in Seq(Rect) /\ M!Post(<<>>)
      BY <1>3 DEF MapDamage
    <3> QED
      BY <1>0, <3>1, PostHolds
  <2>2. SfOK'
    BY <1>0, <1>3 DEF MapDamage, SfOK, sfVars
  <2> QED
    BY <1>2, <1>3, <2>1, <2>2 DEF MapDamage
<1>4. CASE \E area \in Regions : Compose(area)
  <2>1. PICK area \in Regions : Compose(area)
    BY <1>4
  <2>2. MailOK' /\ SfOK'
    BY <1>0, <2>1, ComposeFrame, ComposeMail
  <2> QED
    BY <1>2, <2>1, <2>2 DEF Compose
<1>5. CASE ComposeIdle
  <2>1. MailOK'
    <3>1. <<>> \in Seq(Rect)
      OBVIOUS
    <3>2. Publishable(<<>>) \in Seq(Rect)
      BY <3>1, PublishableHolds
    <3>3. M!Post(Publishable(<<>>))
      BY <1>5 DEF ComposeIdle
    <3> QED
      BY <1>0, <3>2, <3>3, PostHolds
  <2>2. SfOK'
    BY <1>0, <1>5 DEF ComposeIdle, SfOK
  <2> QED
    BY <1>2, <1>5, <2>1, <2>2 DEF ComposeIdle
<1> QED
  BY <1>1, <1>3, <1>4, <1>5

LEMMA AddPropertyHolds ==
  ASSUME ShimInv, NEW o \in Objects, AddProperty(o)
  PROVE  ShimInv'
<1>0. /\ MailOK /\ SfOK /\ PendOK /\ CacheOK /\ TunableOK /\ PolicyOK /\ PanelOK /\ RestOK
  BY TypeParts DEF ShimInv
<1>1. Record(o) /\ request' = request \cup {o}
  BY DEF AddProperty
<1>2. PendOK' /\ Known(pend') \subseteq Known(pend) \cup {o}
  BY <1>0, <1>1, RecordHolds
<1>3. RequestedOnly' /\ RoughCounted'
  BY <1>1, <1>2 DEF AddProperty, ShimInv, RequestedOnly, RoughCounted, panel, policy
<1>4. MailOK' /\ SfOK' /\ CacheOK'
  BY <1>0 DEF AddProperty, MailOK, SfOK, CacheOK, mailbox, sfVars, drmVars, Distinct
<1>5. TunableOK' /\ PolicyOK' /\ PanelOK'
  BY <1>0 DEF AddProperty, TunableOK, PolicyOK, PanelOK, tunable, policy, panel
<1>6. RestOK'
  BY <1>0, <1>1 DEF AddProperty, RestOK
<1> QED
  BY <1>2, <1>3, <1>4, <1>5, <1>6, TypePartsNext DEF ShimInv

\* What every request that is over has in common.
LEMMA OverHolds ==
  ASSUME ShimInv, RefreshTunables, pend' = <<>>, request' = {}, UNCHANGED <<frame, fb, now>>,
         due' \in BOOLEAN
  PROVE  TunableOK' /\ SfOK' /\ PendOK' /\ RequestedOnly'
<1>0. SfOK /\ TunableOK
  BY TypeParts DEF ShimInv
<1>1. TunableOK'
  BY <1>0, RefreshHolds
<1>2. SfOK'
  BY <1>0 DEF SfOK
<1>3. PendOK'
  <2>1. <<>> \in Seq(Recorded) /\ Len(<<>>) = 0 /\ 0 <= MaxObj
    BY ShimConstants
  <2>2. DOMAIN pend' = {}
    OBVIOUS
  <2> QED
    BY <2>1, <2>2 DEF PendOK, Distinct
<1>4. RequestedOnly'
  <2>1. DOMAIN pend' = {}
    OBVIOUS
  <2> QED
    BY <2>1 DEF RequestedOnly, Known
<1> QED
  BY <1>1, <1>2, <1>3, <1>4

LEMMA TestOnlyHolds == ASSUME ShimInv, TestOnly PROVE ShimInv'
<1>0. /\ MailOK /\ SfOK /\ PendOK /\ CacheOK /\ TunableOK /\ PolicyOK /\ PanelOK /\ RestOK
  BY TypeParts DEF ShimInv
<1>1. TunableOK' /\ SfOK' /\ PendOK' /\ RequestedOnly'
  <2>1. due' \in BOOLEAN
    BY <1>0 DEF TestOnly, SfOK, sfVars
  <2> QED
    BY <2>1, OverHolds DEF TestOnly, sfVars
<1>2. MailOK' /\ CacheOK' /\ RoughCounted'
  BY <1>0 DEF TestOnly, ShimInv, MailOK, CacheOK, RoughCounted, mailbox, drmVars, Distinct, panel, policy
<1>3. PolicyOK' /\ PanelOK' /\ RestOK'
  BY <1>0 DEF TestOnly, PolicyOK, PanelOK, RestOK, policy, panel
<1> QED
  BY <1>1, <1>2, <1>3, TypePartsNext DEF ShimInv

LEMMA CommitOver ==
  ASSUME ShimInv, CommitBegins, CommitEnds
  PROVE  /\ TunableOK' /\ SfOK' /\ PendOK' /\ RequestedOnly'
         /\ request' \subseteq Objects /\ due' = FALSE /\ UNCHANGED <<frame, fb, now>>
  BY OverHolds DEF CommitBegins, CommitEnds

LEMMA CommitDisabledHolds == ASSUME ShimInv, CommitDisabled PROVE ShimInv'
<1>0. /\ MailOK /\ SfOK /\ PendOK /\ CacheOK /\ TunableOK /\ PolicyOK /\ PanelOK /\ RestOK
  BY TypeParts DEF ShimInv
<1>1. /\ TunableOK' /\ SfOK' /\ PendOK' /\ RequestedOnly'
      /\ request' \subseteq Objects /\ due' = FALSE /\ UNCHANGED <<frame, fb, now>>
  BY CommitOver DEF CommitDisabled
<1>2. MailOK' /\ CacheOK' /\ RoughCounted'
  BY <1>0 DEF CommitDisabled, ShimInv, MailOK, CacheOK, RoughCounted, mailbox, drmVars, Distinct,
              panel, policy
<1>3. PolicyOK' /\ PanelOK'
  BY <1>0, <1>1 DEF CommitDisabled, PolicyOK, PanelOK, policy, panel
<1>4. RestOK'
  BY <1>0, <1>1 DEF CommitDisabled, RestOK, SfOK
<1> QED
  BY <1>1, <1>2, <1>3, <1>4, TypePartsNext DEF ShimInv

LEMMA CommitNothingNewHolds == ASSUME ShimInv, CommitNothingNew PROVE ShimInv'
<1>0. /\ MailOK /\ SfOK /\ PendOK /\ CacheOK /\ TunableOK /\ PolicyOK /\ PanelOK /\ RestOK
  BY TypeParts DEF ShimInv
<1>1. /\ TunableOK' /\ SfOK' /\ PendOK' /\ RequestedOnly'
      /\ request' \subseteq Objects /\ due' = FALSE /\ UNCHANGED <<frame, fb, now>>
  BY CommitOver DEF CommitNothingNew
<1>2. MailOK' /\ attached' \in BOOLEAN
  BY <1>0, ReadHolds DEF CommitNothingNew, RestOK
<1>3. CacheOK' /\ RoughCounted'
  BY <1>0 DEF CommitNothingNew, ShimInv, CacheOK, RoughCounted, drmVars, Distinct, panel, policy
<1>4. PolicyOK' /\ PanelOK'
  BY <1>0, <1>1 DEF CommitNothingNew, PolicyOK, PanelOK, policy, panel
<1>5. RestOK'
  BY <1>0, <1>1, <1>2 DEF CommitNothingNew, RestOK
<1> QED
  BY <1>1, <1>2, <1>3, <1>4, <1>5, TypePartsNext DEF ShimInv

LEMMA CommitThrottledHolds == ASSUME ShimInv, CommitThrottled PROVE ShimInv'
<1>0. /\ MailOK /\ SfOK /\ PendOK /\ CacheOK /\ TunableOK /\ PolicyOK /\ PanelOK /\ RestOK
  BY TypeParts DEF ShimInv
<1>1. /\ TunableOK' /\ SfOK' /\ PendOK' /\ RequestedOnly'
      /\ request' \subseteq Objects /\ due' = FALSE /\ UNCHANGED <<frame, fb, now>>
  BY CommitOver DEF CommitThrottled
<1>2. MailOK' /\ attached' \in BOOLEAN
  BY <1>0, ReadHolds DEF CommitThrottled, RestOK
<1>3. CacheOK' /\ RoughCounted'
  BY <1>0 DEF CommitThrottled, ShimInv, CacheOK, RoughCounted, drmVars, Distinct, panel, policy
<1>4. last_fb_sig' \in 0 .. HashMod - 1
  BY <1>0, RememberHolds DEF CommitThrottled, PolicyOK
<1>5. PolicyOK' /\ PanelOK'
  BY <1>0, <1>1, <1>4 DEF CommitThrottled, PolicyOK, PanelOK, panel
<1>6. RestOK'
  BY <1>0, <1>1, <1>2 DEF CommitThrottled, RestOK, SfOK
<1> QED
  BY <1>1, <1>2, <1>3, <1>5, <1>6, TypePartsNext DEF ShimInv

\* A clean that is due is one: the whole panel, in the quality waveform, with a flash.
LEMMA DueMeansClean == CleanDue => Cleans
<1> SUFFICES ASSUME CleanDue PROVE Cleans
  OBVIOUS
<1>1. NewRects = <<FullPanel>>
  BY DEF NewRects, UpdateRects
<1>2. Drive = [wf |-> "quality", upd |-> 1]
  BY DEF Drive
<1> QED
  BY <1>1, <1>2 DEF Cleans

LEMMA CommitInjectsHolds ==
  ASSUME ShimInv, NEW ok \in BOOLEAN, CommitInjects(ok)
  PROVE  /\ ShimInv' /\ (t'.fullevery > 0 => rough' - missed' < t'.fullevery)
<1>0. /\ MailOK /\ SfOK /\ PendOK /\ CacheOK /\ TunableOK /\ PolicyOK /\ PanelOK /\ RestOK
  BY TypeParts DEF ShimInv
<1>1. /\ TunableOK' /\ SfOK' /\ PendOK' /\ RequestedOnly'
      /\ request' \subseteq Objects /\ due' = FALSE /\ UNCHANGED <<frame, fb, now>>
  BY CommitOver DEF CommitInjects
<1>2. MailOK' /\ attached' \in BOOLEAN
  BY <1>0, ReadHolds DEF CommitInjects, RestOK
<1>3. CacheOK'
  <2>1. PICK answers \in BOOLEAN :
          /\ cache' = Looked(answers)
          /\ fbid_known' = (fbid_known \/ (answers /\ Plane \in Known(cache') \ Known(cache)))
    BY DEF CommitInjects, LookUpAll
  <2>2. Looked(answers) \in Seq(Cached) /\ Len(Looked(answers)) <= MaxObj /\ Distinct(Looked(answers))
    BY <1>0, LookedHolds DEF PendOK, CacheOK
  <2>3. fbid_known' \in BOOLEAN
    BY <2>1, Zenon
  <2> QED
    BY <2>1, <2>2, <2>3 DEF CacheOK
<1>4. last_fb_sig' \in 0 .. HashMod - 1
  BY <1>0, RememberHolds DEF CommitInjects, PolicyOK
<1>5. /\ t'.fullevery \in Nat /\ updates_since_full \in Nat /\ rough \in Nat
      /\ missed \in Nat /\ missed <= rough /\ rough - missed <= updates_since_full
  BY <1>0, <1>1 DEF TunableOK, Setting, PolicyOK, PanelOK, ShimInv, RoughCounted
<1>6. /\ updates_since_full' \in Nat /\ rough' \in Nat /\ missed' \in 0 .. rough'
      /\ rough' - missed' <= updates_since_full'
      /\ (t'.fullevery > 0 => rough' - missed' < t'.fullevery)
  <2>0. Residue(ok)
    BY DEF CommitInjects
  <2>1. CASE CleanDue
    <3>1. updates_since_full' = 0
      BY <2>1 DEF CommitInjects, CountUpdate
    <3>2. \/ rough' = 0 /\ missed' = 0
          \/ rough' = rough /\ missed' = rough
      BY <2>0, <2>1, DueMeansClean DEF Residue
    <3> QED
      BY <1>5, <3>1, <3>2
  <2>2. CASE ~CleanDue /\ t'.fullevery > 0
    <3>1. updates_since_full' = updates_since_full + 1
      BY <2>2 DEF CommitInjects, CountUpdate
    <3>2. updates_since_full + 1 < t'.fullevery
      BY <1>5, <2>2 DEF CleanDue
    <3>3. \/ rough' = 0 /\ missed' = 0
          \/ rough' \in {rough, rough + 1} /\ missed' = missed
      BY <2>0, <2>2 DEF Residue
    <3> QED
      BY <1>5, <3>1, <3>2, <3>3
  <2>3. CASE ~CleanDue /\ ~(t'.fullevery > 0)
    <3>1. updates_since_full' = updates_since_full
      BY <2>3 DEF CommitInjects, CountUpdate
    <3>2. \/ rough' = 0 /\ missed' = 0
          \/ rough' = rough /\ missed' = missed
      BY <2>0, <2>3 DEF Residue
    <3> QED
      BY <1>5, <2>3, <3>1, <3>2
  <2> QED
    BY <2>1, <2>2, <2>3
<1>7. PolicyOK'
  <2>1. now \in 1 .. MaxTime /\ last_inject' = now /\ now' = now
    BY <1>0, <1>1 DEF CommitInjects, RestOK
  <2>2. last_inject' \in 0 .. now'
    BY <2>1, ShimConstants
  <2> QED
    BY <1>4, <1>6, <2>2 DEF PolicyOK
<1>8. PanelOK'
  <2>1. ebc' = [p \in Pixels |-> IF ok /\ Plane \in Injected /\ p \in CoveredBy(NewRects)
                                 THEN frame[p] ELSE ebc[p]]
    BY DEF CommitInjects, Apply
  <2>2. ebc' \in [Pixels -> Nat]
    <3> DEFINE C == CoveredBy(NewRects)
    <3> HIDE DEF C
    <3> QED
      BY <1>0, <2>1 DEF SfOK, PanelOK, C
  <2>3. update_marker' \in 0 .. MaxDrives
    BY <1>0, ShimConstants DEF CommitInjects, PanelOK
  <2> QED
    BY <1>6, <2>2, <2>3 DEF PanelOK
<1>9. RestOK'
  <2>1. lost' \in BOOLEAN
    <3>1. lost' = FALSE \/ lost' = (lost \/ (due /\ ~ok))
      BY DEF CommitInjects
    <3> QED
      BY <1>0, <3>1 DEF RestOK, SfOK
  <2> QED
    BY <1>0, <1>1, <1>2, <2>1 DEF RestOK
<1> QED
  BY <1>1, <1>2, <1>3, <1>6, <1>7, <1>8, <1>9, TypePartsNext DEF ShimInv, RoughCounted

LEMMA StepHolds == ASSUME ShimInv, [Next]_vars PROVE ShimInv'
<1>1. CASE UNCHANGED vars
  <2>0. /\ MailOK /\ SfOK /\ PendOK /\ CacheOK /\ TunableOK /\ PolicyOK /\ PanelOK /\ RestOK
    BY TypeParts DEF ShimInv
  <2>1. MailOK' /\ SfOK' /\ PendOK' /\ CacheOK'
    BY <1>1, <2>0 DEF vars, MailOK, SfOK, PendOK, CacheOK, mailbox, sfVars, drmVars, Distinct
  <2>2. TunableOK' /\ PolicyOK' /\ PanelOK' /\ RestOK'
    BY <1>1, <2>0 DEF vars, TunableOK, PolicyOK, PanelOK, RestOK, tunable, policy, panel
  <2>3. RequestedOnly' /\ RoughCounted'
    BY <1>1 DEF ShimInv, vars, RequestedOnly, RoughCounted, Known, policy, panel
  <2> QED
    BY <2>1, <2>2, <2>3, TypePartsNext DEF ShimInv
<1>2. CASE Tick \/ MapDamage \/ (\E area \in Regions : Compose(area)) \/ ComposeIdle
  BY <1>2, SurroundingsHold
<1>3. CASE \E o \in Objects : AddProperty(o)
  BY <1>3, AddPropertyHolds
<1>4. CASE TestOnly \/ CommitDisabled \/ CommitNothingNew \/ CommitThrottled
  BY <1>4, TestOnlyHolds, CommitDisabledHolds, CommitNothingNewHolds, CommitThrottledHolds
<1>5. CASE CommitInjects(TRUE) \/ (MayFail /\ CommitInjects(FALSE))
  BY <1>5, CommitInjectsHolds
<1> QED
  BY <1>1, <1>2, <1>3, <1>4, <1>5 DEF Next

LEMMA ShimInvHolds == Spec => []ShimInv
<1>1. ShimInv /\ [Next]_vars => ShimInv'
  BY StepHolds
<1> QED
  BY <1>1, InitHolds, PTL DEF Spec

-----------------------------------------------------------------------------
\* Every variable keeps its type: the two arrays never grow past MAX_OBJ entries, never
\* name an object twice, and the loops over them stay inside.
THEOREM ShimTypeCorrect == Spec => []TypeOK
<1>1. ShimInv => TypeOK
  BY DEF ShimInv
<1> QED
  BY <1>1, ShimInvHolds, PTL

\* The shim adds its properties to no object the composer did not put in the request,
\* whatever was recorded for earlier requests and validation passes.
THEOREM ShimTouchesOnlyRequested == Spec => TouchesOnlyRequested
<1>1. ShimInv /\ [Next]_vars => (update_marker' # update_marker => Injected \subseteq request)
  BY DEF ShimInv, RequestedOnly, Known, Injected
<1>2. ShimInv /\ [Next]_vars =>
        [update_marker' # update_marker => Injected \subseteq request]_vars
  BY <1>1
<1> QED
  BY <1>2, ShimInvHolds, PTL DEF Spec, TouchesOnlyRequested

\* However fullevery is set and whenever it is changed, no N updates in a row that the
\* panel was driven with while a clean was asked for go by without one that cleans the
\* whole panel, counted anew from a clean that was due and was lost with its commit.
THEOREM ShimCleanInTime == Spec => CleanInTime
<1>1. ShimInv /\ [Next]_vars =>
        (update_marker' # update_marker /\ t'.fullevery > 0 => rough' - missed' < t'.fullevery)
  <2> SUFFICES ASSUME ShimInv, [Next]_vars, update_marker' # update_marker, t'.fullevery > 0
               PROVE  rough' - missed' < t'.fullevery
    OBVIOUS
  <2>1. \E ok \in BOOLEAN : CommitInjects(ok)
    BY DEF Next, vars, panel, Tick, MapDamage, Compose, ComposeIdle, AddProperty, TestOnly,
           CommitDisabled, CommitNothingNew, CommitThrottled
  <2> QED
    BY <2>1, CommitInjectsHolds
<1>2. ShimInv /\ [Next]_vars =>
        [update_marker' # update_marker /\ t'.fullevery > 0 => rough' - missed' < t'.fullevery]_vars
  BY <1>1
<1> QED
  BY <1>2, ShimInvHolds, PTL DEF Spec, CleanInTime

-----------------------------------------------------------------------------
(* The buffer. What BufferIsFrame takes for granted, next to HashTells and a *)
(* property enumeration that does not fail: the ways in which the code can   *)
(* lose a frame without knowing.                                             *)

FewObjects == IsFiniteSet(Objects) /\ Cardinality(Objects) <= MaxObj

AlwaysSkips == \A s \in Settings : s.skipsame

Sound == ~LookupMayFail /\ FewObjects /\ AlwaysSkips /\ HashTells

\* The request as recorded: every object of it, the plane with the newest framebuffer.
RequestRecorded ==
  /\ Known(pend) = request
  /\ \A i \in DOMAIN pend : pend[i].fb = IF pend[i].obj = Plane /\ fbid_known THEN fb ELSE 0

CacheKnows == \A i \in DOMAIN cache : cache[i].obj = Plane => cache[i].epdc = TRUE

\* A frame that is due was posted, and nobody has seen it yet.
DueIsUnseen ==
  /\ attached => posted.id > 0
  /\ due /\ posted.id > 0 => seen < posted.id
  /\ Len(posted.rects) <= MaxRects

\* Only what a frame that is due has damaged may be out of date.
StaleIsDamage ==
  ~lost => \A p \in Pixels :
    \/ ebc[p] = frame[p]
    \/ due /\ (posted.id = 0 \/ posted.rects = <<>> \/ p \in CoveredBy(posted.rects))

\* sig is not the hash of any request for framebuffer id.
Forgotten(sig, id) == \A q \in Requests : Shows(q, id) => Hash(q) # sig

\* Without the mapping, the hash remembered is not that of a framebuffer with
\* something new in it.
SigIsOld ==
  /\ ~fbid_known => last_fb_sig = 0
  /\ ~attached /\ ~lost /\ fbid_known =>
       \/ ~due /\ Forgotten(last_fb_sig, 3 - fb)
       \/ due /\ Forgotten(last_fb_sig, fb)
       \/ due /\ ebc = frame /\ Forgotten(last_fb_sig, 3 - fb)

BufferInv ==
  /\ ShimInv /\ RequestRecorded /\ CacheKnows /\ t.skipsame = TRUE
  /\ DueIsUnseen /\ StaleIsDamage /\ SigIsOld

\* With an object missing, there is room for it.
LEMMA RoomLeft ==
  ASSUME FewObjects, NEW T, NEW q \in Seq(T), \A e \in T : e.obj \in Objects, Distinct(q),
         NEW o \in Objects, o \notin Known(q)
  PROVE  Len(q) < MaxObj
<1> DEFINE S == 1 .. Len(q)
           R == Objects \ {o}
           f == [i \in S |-> q[i].obj]
<1>1. f \in Injection(S, R)
  <2>1. \A i \in S : q[i].obj \in R
    BY DEF Known
  <2>2. IsInjective(f)
    BY DEF IsInjective, Distinct
  <2> QED
    BY <2>1, <2>2 DEF Injection
<1>2. IsFiniteSet(R) /\ Cardinality(R) = Cardinality(Objects) - 1
  BY FS_RemoveElement DEF FewObjects
<1>3. Cardinality(S) <= Cardinality(R)
  <2> HIDE DEF S, R, f
  <2> QED
    BY <1>1, <1>2, FS_Injection
<1>4. Cardinality(S) = Len(q)
  <2>1. 1 \in Int /\ Len(q) \in Int /\ Len(q) >= 0
    OBVIOUS
  <2>2. Cardinality(1 .. Len(q)) = IF 1 > Len(q) THEN 0 ELSE Len(q) - 1 + 1
    BY <2>1, FS_Interval
  <2> QED
    BY <2>1, <2>2
<1>5. Cardinality(Objects) \in Nat /\ Cardinality(Objects) <= MaxObj
  BY FS_CardinalityType DEF FewObjects
<1>6. Cardinality(S) \in Nat
  BY <1>4
<1> HIDE DEF S, R
<1> QED
  BY <1>2, <1>3, <1>4, <1>5, <1>6, ShimConstants

\* The recorded request is one the hash tells apart.
LEMMA PendIsRequest ==
  ASSUME ShimInv, RequestRecorded, fbid_known
  PROVE  /\ pend \in Requests
         /\ Plane \in request => Shows(pend, fb)
         /\ \A id \in {1, 2} : Shows(pend, id) => id = fb
<1>0. PendOK /\ SfOK
  BY TypeParts DEF ShimInv
<1>1. pend \in Seq(Recorded) /\ Len(pend) \in 0 .. MaxObj /\ DOMAIN pend = 1 .. Len(pend)
  BY <1>0, ShimConstants DEF PendOK
<1>2. pend \in [1 .. Len(pend) -> [obj : Objects, fb : 0 .. 2]]
  <2>1. pend \in [1 .. Len(pend) -> Recorded]
    BY <1>1
  <2> QED
    BY <2>1 DEF Recorded
<1>3. IsInjective([i \in DOMAIN pend |-> pend[i].obj])
  BY <1>0, InjectiveMeans DEF PendOK
<1>4. \A i \in DOMAIN pend : pend[i].fb = IF pend[i].obj = Plane THEN fb ELSE 0
  BY DEF RequestRecorded
<1>5. \A i \in DOMAIN pend : pend[i].fb # 0 <=> pend[i].obj = Plane
  BY <1>0, <1>4 DEF SfOK
<1>6. pend \in Requests
  BY <1>1, <1>2, <1>3, <1>5 DEF Requests
<1>7. ASSUME Plane \in request PROVE Shows(pend, fb)
  <2>1. PICK i \in DOMAIN pend : pend[i].obj = Plane
    BY <1>7 DEF RequestRecorded, Known
  <2>2. pend[i] \in [obj : Objects, fb : 0 .. 2] /\ pend[i].fb = fb
    BY <1>1, <1>2, <1>4, <2>1
  <2>3. pend[i] = [obj |-> Plane, fb |-> fb]
    BY <2>1, <2>2
  <2> QED
    BY <2>3 DEF Shows
<1>8. ASSUME NEW id \in {1, 2}, Shows(pend, id) PROVE id = fb
  BY <1>4, <1>8 DEF Shows
<1> QED
  BY <1>6, <1>7, <1>8

\* The hash of a request is that of no request for the other framebuffer.
LEMMA SignatureTells ==
  ASSUME HashTells, ShimInv, RequestRecorded, fbid_known
  PROVE  /\ Forgotten(Signature, 3 - fb)
         /\ Plane \in request => ~Forgotten(Signature, fb)
<1>0. fb \in {1, 2} /\ 3 - fb \in {1, 2} /\ 3 - fb # fb
  BY TypeParts DEF ShimInv, SfOK
<1>1. ASSUME NEW q \in Requests, Shows(q, 3 - fb), Hash(q) = Signature PROVE FALSE
  <2>1. pend \in Requests /\ Hash(pend) = Hash(q)
    BY <1>1, PendIsRequest DEF Signature
  <2> DEFINE id == 3 - fb
  <2>2. id \in {1, 2} /\ Shows(q, id)
    BY <1>0, <1>1
  <2> HIDE DEF id
  <2>3. Shows(pend, id)
    BY <2>1, <2>2 DEF HashTells
  <2>4. id = fb
    BY <2>2, <2>3, PendIsRequest
  <2> QED
    BY <1>0, <2>4 DEF id
<1>2. ASSUME Plane \in request PROVE ~Forgotten(Signature, fb)
  <2>1. pend \in Requests /\ Shows(pend, fb) /\ Hash(pend) = Signature
    BY <1>2, PendIsRequest DEF Signature
  <2> QED
    BY <2>1 DEF Forgotten
<1> QED
  BY <1>1, <1>2 DEF Forgotten

LEMMA ZeroIsForgotten ==
  ASSUME HashTells, NEW id \in {1, 2} PROVE Forgotten(0, id)
  BY DEF HashTells, Forgotten

\* What is left over of a request that has ended.
LEMMA EmptyRecorded ==
  ASSUME pend' = <<>>, request' = {} PROVE RequestRecorded'
<1>1. DOMAIN pend' = {}
  OBVIOUS
<1> QED
  BY <1>1 DEF RequestRecorded, Known

LEMMA SkipsNext ==
  ASSUME AlwaysSkips, RefreshTunables, t.skipsame = TRUE PROVE t'.skipsame = TRUE
<1>1. t' = t \/ t' \in Settings
  BY DEF RefreshTunables
<1>2. \A x \in Settings : x.skipsame = TRUE
  <2>1. \A x \in Settings : x \in Setting
    BY ShimAssumption, Zenon
  <2>2. \A x \in Setting : x.skipsame \in BOOLEAN
    BY DEF Setting
  <2> QED
    BY <2>1, <2>2 DEF AlwaysSkips
<1> QED
  BY <1>1, <1>2

LEMMA InitBuffer == Sound /\ Init => BufferInv
<1> SUFFICES ASSUME Sound, Init PROVE BufferInv
  OBVIOUS
<1>1. ShimInv
  BY InitHolds
<1>2. DOMAIN pend = {} /\ DOMAIN cache = {} /\ request = {}
  BY DEF Init
<1>3. RequestRecorded /\ CacheKnows
  BY <1>2 DEF RequestRecorded, CacheKnows, Known
<1>4. t.skipsame = TRUE
  BY DEF Init, Defaults
<1>5. DueIsUnseen
  <2>1. posted = [id |-> 0, rects |-> <<>>] /\ attached = FALSE
    BY DEF Init, M!Init
  <2>2. Len(<<>>) = 0 /\ 0 <= MaxRects
    BY PanelAssumption
  <2> QED
    BY <2>1, <2>2 DEF DueIsUnseen
<1>6. StaleIsDamage /\ SigIsOld
  BY DEF Init, StaleIsDamage, SigIsOld
<1> QED
  BY <1>1, <1>3, <1>4, <1>5, <1>6 DEF BufferInv

LEMMA TickBuffer == ASSUME BufferInv, Tick PROVE BufferInv'
<1>1. ShimInv'
  BY SurroundingsHold DEF BufferInv
<1>2. RequestRecorded' /\ CacheKnows' /\ t'.skipsame = TRUE
  BY DEF BufferInv, Tick, RequestRecorded, CacheKnows, Known, tunable, drmVars, sfVars
<1>3. DueIsUnseen' /\ StaleIsDamage'
  BY DEF BufferInv, Tick, DueIsUnseen, StaleIsDamage, mailbox, sfVars, panel
<1>4. SigIsOld'
  BY DEF BufferInv, Tick, SigIsOld, mailbox, sfVars, panel, policy, drmVars
<1> QED
  BY <1>1, <1>2, <1>3, <1>4 DEF BufferInv

LEMMA MapBuffer == ASSUME BufferInv, MapDamage PROVE BufferInv'
<1>1. ShimInv'
  BY SurroundingsHold DEF BufferInv
<1>2. RequestRecorded' /\ CacheKnows' /\ t'.skipsame = TRUE
  BY DEF BufferInv, MapDamage, RequestRecorded, CacheKnows, Known, tunable, drmVars, sfVars
<1>3. posted' = [id |-> posted.id + 1, rects |-> <<>>] /\ posted.id = 0
  BY DEF MapDamage, M!Post
<1>4. DueIsUnseen'
  <2>1. Len(<<>>) = 0 /\ 0 <= MaxRects
    BY PanelAssumption
  <2> QED
    BY <1>3, <2>1 DEF MapDamage, DueIsUnseen, sfVars
<1>5. StaleIsDamage'
  BY <1>3 DEF BufferInv, MapDamage, StaleIsDamage, sfVars, panel
<1>6. SigIsOld'
  BY DEF BufferInv, MapDamage, SigIsOld, sfVars, panel, policy, drmVars
<1> QED
  BY <1>1, <1>2, <1>4, <1>5, <1>6 DEF BufferInv

LEMMA ComposeBuffer ==
  ASSUME BufferInv, NEW area \in Regions, Compose(area) PROVE BufferInv'
<1>0. ShimInv /\ MailOK /\ SfOK
  BY TypeParts DEF BufferInv, ShimInv
<1>1. ShimInv'
  BY <1>0, SurroundingsHold
<1>2. area \in Seq(Rect)
  BY ShimAssumption, Zenon
<1>3. /\ Publishable(area) \in Seq(Rect) /\ Len(Publishable(area)) <= MaxRects
      /\ CoveredBy(area) \subseteq CoveredBy(Publishable(area))
  BY <1>2, PublishableHolds
<1>4. DOMAIN pend = {} /\ request = {}
  <2>1. request = {} /\ Known(pend) = {}
    BY DEF Compose, BufferInv, RequestRecorded
  <2> QED
    BY <2>1 DEF Known
<1>5. RequestRecorded' /\ CacheKnows' /\ t'.skipsame = TRUE
  <2>1. pend' = pend /\ request' = request
    BY DEF Compose
  <2>2. RequestRecorded'
    BY <1>4, <2>1 DEF RequestRecorded, Known
  <2> QED
    BY <2>2 DEF Compose, BufferInv, CacheKnows, tunable, drmVars
<1>6. \/ posted.id = 0 /\ posted' = posted /\ seen' = seen
      \/ /\ posted.id # 0
         /\ posted' = [id |-> posted.id + 1, rects |-> Publishable(area)]
         /\ seen' = seen /\ posted'.id > seen'
  BY <1>0, ComposeMail
<1>7. due' = TRUE /\ fb' = 3 - fb /\ ~due /\ attached' = attached /\ lost' = lost /\ ebc' = ebc
      /\ last_fb_sig' = last_fb_sig /\ fbid_known' = fbid_known
  BY DEF Compose, panel, policy, drmVars
<1>8. DueIsUnseen'
  <2>1. CASE posted.id = 0
    BY <1>6, <1>7, <2>1 DEF BufferInv, DueIsUnseen
  <2>2. CASE posted.id # 0
    <3>1. posted'.id > seen' /\ seen' \in Nat /\ posted'.id \in Nat /\ posted'.rects = Publishable(area)
          /\ posted.id \in Nat /\ posted'.id = posted.id + 1
      BY <1>0, <1>6, <2>2 DEF MailOK
    <3> QED
      BY <1>3, <1>7, <3>1 DEF BufferInv, DueIsUnseen
  <2> QED
    BY <2>1, <2>2
<1>9. StaleIsDamage'
  <2> SUFFICES ASSUME ~lost, NEW p \in Pixels
               PROVE  \/ ebc[p] = frame'[p]
                      \/ posted'.id = 0 \/ posted'.rects = <<>> \/ p \in CoveredBy(posted'.rects)
    BY <1>7 DEF StaleIsDamage
  <2>1. ebc[p] = frame[p]
    BY <1>7 DEF BufferInv, StaleIsDamage
  <2>2. CASE p \notin CoveredBy(area)
    BY <1>0, <2>1, <2>2, ComposeFrame
  <2>3. CASE p \in CoveredBy(area) /\ posted.id # 0
    BY <1>3, <1>6, <2>3
  <2>4. CASE posted.id = 0
    BY <1>6, <2>4
  <2> QED
    BY <2>2, <2>3, <2>4
<1>10. SigIsOld'
  <2>1. fb \in {1, 2} /\ 3 - (3 - fb) = fb
    BY <1>0 DEF SfOK
  <2>2. ~fbid_known => last_fb_sig = 0
    BY DEF BufferInv, SigIsOld
  <2>3. ~attached /\ ~lost /\ fbid_known => Forgotten(last_fb_sig, 3 - fb)
    BY <1>7 DEF BufferInv, SigIsOld
  <2> QED
    BY <1>7, <2>2, <2>3 DEF SigIsOld
<1> QED
  BY <1>1, <1>5, <1>8, <1>9, <1>10 DEF BufferInv

LEMMA IdleBuffer == ASSUME BufferInv, ComposeIdle PROVE BufferInv'
<1>0. ShimInv /\ MailOK /\ SfOK /\ PanelOK
  BY TypeParts DEF BufferInv, ShimInv
<1>1. ShimInv'
  BY <1>0, SurroundingsHold
<1>2. Publishable(<<>>) \in Seq(Rect) /\ Len(Publishable(<<>>)) <= MaxRects
  <2>1. <<>> \in Seq(Rect)
    OBVIOUS
  <2> QED
    BY <2>1, PublishableHolds
<1>3. posted' = [id |-> posted.id + 1, rects |-> Publishable(<<>>)] /\ seen' = seen
      /\ posted'.id > seen' /\ posted.id > 0
  <2>1. M!Post(Publishable(<<>>))
    BY DEF ComposeIdle
  <2>2. posted.id > 0
    BY ShimConstants DEF ComposeIdle
  <2> QED
    BY <1>0, <1>2, <2>1, <2>2, PostHolds
<1>4. RequestRecorded' /\ CacheKnows' /\ t'.skipsame = TRUE
  BY DEF BufferInv, ComposeIdle, RequestRecorded, CacheKnows, Known, tunable, drmVars
<1>5. due' = TRUE /\ ~due /\ UNCHANGED <<frame, fb, ebc, lost, attached, last_fb_sig, fbid_known>>
  BY DEF ComposeIdle, panel, policy, drmVars
<1>6. DueIsUnseen'
  <2>1. posted'.rects = Publishable(<<>>) /\ seen' \in Nat /\ posted'.id \in Nat /\ posted'.id > 0
    BY <1>0, <1>3 DEF MailOK
  <2> QED
    BY <1>2, <1>3, <1>5, <2>1 DEF DueIsUnseen
<1>7. \A p \in Pixels : ~lost => ebc[p] = frame[p]
  BY <1>5 DEF BufferInv, StaleIsDamage
<1>8. StaleIsDamage'
  BY <1>5, <1>7 DEF StaleIsDamage
<1>9. ~lost => ebc = frame
  BY <1>0, <1>7 DEF SfOK, PanelOK
<1>10. SigIsOld'
  BY <1>5, <1>9 DEF BufferInv, SigIsOld
<1> QED
  BY <1>1, <1>4, <1>6, <1>8, <1>10 DEF BufferInv

LEMMA AddBuffer ==
  ASSUME Sound, BufferInv, NEW o \in Objects, AddProperty(o) PROVE BufferInv'
<1>0. ShimInv /\ PendOK /\ SfOK /\ RequestRecorded
  BY TypeParts DEF BufferInv, ShimInv
<1>1. ShimInv'
  BY <1>0, AddPropertyHolds
<1>2. /\ Known(pend') \subseteq Known(pend) \cup {o}
      /\ Known(pend) \subseteq Known(pend')
      /\ Len(pend) < MaxObj => o \in Known(pend')
      /\ o \in Known(pend) => o \in Known(pend')
      /\ \A i \in DOMAIN pend' :
           \/ i \in DOMAIN pend /\ pend'[i] = pend[i]
           \/ pend'[i] = [obj |-> o, fb |-> IF o = Plane /\ fbid_known THEN fb ELSE 0]
  BY <1>0, RecordHolds DEF AddProperty
<1>3. o \notin Known(pend) => Len(pend) < MaxObj
  <2>1. \A e \in Recorded : e.obj \in Objects
    BY DEF Recorded
  <2> QED
    BY <1>0, <2>1, RoomLeft DEF PendOK, Sound
<1>4. RequestRecorded'
  <2>1. Known(pend') = request'
    BY <1>0, <1>2, <1>3 DEF RequestRecorded, AddProperty
  <2>2. fb' = fb /\ fbid_known' = fbid_known
    BY DEF AddProperty, sfVars, drmVars
  <2>3. \A i \in DOMAIN pend' :
          pend'[i].fb = IF pend'[i].obj = Plane /\ fbid_known THEN fb ELSE 0
    BY <1>0, <1>2 DEF RequestRecorded
  <2> QED
    BY <2>1, <2>2, <2>3 DEF RequestRecorded
<1>5. CacheKnows' /\ t'.skipsame = TRUE
  BY DEF BufferInv, AddProperty, CacheKnows, tunable, drmVars
<1>6. DueIsUnseen' /\ StaleIsDamage'
  BY DEF BufferInv, AddProperty, DueIsUnseen, StaleIsDamage, mailbox, sfVars, panel
<1>7. SigIsOld'
  BY DEF BufferInv, AddProperty, SigIsOld, mailbox, sfVars, panel, policy, drmVars
<1> QED
  BY <1>1, <1>4, <1>5, <1>6, <1>7 DEF BufferInv

LEMMA TestBuffer == ASSUME Sound, BufferInv, TestOnly PROVE BufferInv'
<1>1. ShimInv'
  BY TestOnlyHolds DEF BufferInv
<1>2. RequestRecorded'
  BY EmptyRecorded DEF TestOnly
<1>3. CacheKnows' /\ t'.skipsame = TRUE
  BY SkipsNext DEF Sound, BufferInv, TestOnly, CacheKnows, drmVars
<1>4. DueIsUnseen' /\ StaleIsDamage'
  BY DEF BufferInv, TestOnly, DueIsUnseen, StaleIsDamage, mailbox, sfVars, panel
<1>5. SigIsOld'
  BY DEF BufferInv, TestOnly, SigIsOld, mailbox, sfVars, panel, policy, drmVars
<1> QED
  BY <1>1, <1>2, <1>3, <1>4, <1>5 DEF BufferInv

-----------------------------------------------------------------------------
(* The commits. *)

LEMMA DisabledBuffer == ASSUME Sound, BufferInv, CommitDisabled PROVE BufferInv'
<1>1. ShimInv'
  BY CommitDisabledHolds DEF BufferInv
<1>2. RequestRecorded' /\ due' = FALSE /\ UNCHANGED <<frame, fb>>
  BY EmptyRecorded DEF CommitDisabled, CommitEnds
<1>3. CacheKnows' /\ t'.skipsame = TRUE
  BY SkipsNext DEF Sound, BufferInv, CommitDisabled, CommitBegins, CacheKnows, drmVars
<1>4. DueIsUnseen'
  BY <1>2 DEF BufferInv, CommitDisabled, DueIsUnseen, mailbox
<1>5. ~lost' => ~lost /\ ~due
  BY DEF CommitDisabled
<1>6. StaleIsDamage'
  BY <1>2, <1>5 DEF BufferInv, CommitDisabled, StaleIsDamage, panel
<1>7. SigIsOld'
  BY <1>2, <1>5 DEF BufferInv, CommitDisabled, SigIsOld, policy, drmVars
<1> QED
  BY <1>1, <1>2, <1>3, <1>4, <1>6, <1>7 DEF BufferInv

\* What the commits that look at the damage have in common.
LEMMA LookedAt ==
  ASSUME Sound, BufferInv, CommitBegins, ReadDamage, CommitEnds
  PROVE  /\ RequestRecorded' /\ t'.skipsame = TRUE /\ DueIsUnseen'
         /\ due' = FALSE /\ fb' = fb /\ frame' = frame
         /\ fb \in {1, 2} /\ 3 - fb \in {1, 2}
         /\ attached => attached'
         /\ due => Plane \in request
<1>0. MailOK /\ SfOK /\ RestOK
  BY TypeParts DEF BufferInv, ShimInv
<1>1. RequestRecorded' /\ due' = FALSE /\ UNCHANGED <<frame, fb>>
  BY EmptyRecorded DEF CommitEnds
<1>2. t'.skipsame = TRUE
  BY SkipsNext DEF Sound, BufferInv, CommitBegins
<1>3. posted' = posted /\ (attached' => posted.id > 0 \/ attached) /\ (attached => attached')
  BY <1>0, ReadHolds DEF RestOK
<1>4. DueIsUnseen'
  BY <1>1, <1>3 DEF BufferInv, DueIsUnseen
<1> QED
  BY <1>0, <1>1, <1>2, <1>3, <1>4 DEF SfOK, CommitBegins

LEMMA NothingNewBuffer == ASSUME Sound, BufferInv, CommitNothingNew PROVE BufferInv'
<1>0. /\ ShimInv /\ MailOK /\ SfOK /\ PanelOK /\ RestOK /\ RequestRecorded /\ HashTells
      /\ CommitBegins /\ ReadDamage /\ CommitEnds /\ NothingNew
  BY TypeParts DEF BufferInv, ShimInv, CommitNothingNew, Sound
<1>1. ShimInv'
  BY CommitNothingNewHolds DEF BufferInv
<1>2. /\ RequestRecorded' /\ t'.skipsame = TRUE /\ DueIsUnseen'
      /\ due' = FALSE /\ fb' = fb /\ frame' = frame
      /\ (attached => attached') /\ (due => Plane \in request)
  BY <1>0, LookedAt
<1>3. UNCHANGED <<ebc, lost, cache, fbid_known, last_fb_sig>>
  BY DEF CommitNothingNew, panel, drmVars, policy
<1>4. ASSUME ~attached' PROVE fbid_known /\ last_fb_sig = Signature
  BY <1>0, <1>4 DEF NothingNew
<1>5. ASSUME due, ~lost PROVE ebc = frame
  <2>1. CASE attached'
    <3>1. verdict'.kind = "unchanged"
      BY <1>0, <2>1 DEF NothingNew
    <3>2. seen = posted.id /\ posted.id > 0
      BY <1>0, <2>1, <3>1, ReadHolds DEF RestOK, BufferInv, DueIsUnseen
    <3> QED
      BY <1>0, <1>5, <3>2 DEF BufferInv, DueIsUnseen, MailOK
  <2>2. CASE ~attached'
    <3>1. ~Forgotten(last_fb_sig, fb)
      BY <1>0, <1>2, <1>4, <1>5, <2>2, SignatureTells
    <3> QED
      BY <1>2, <1>4, <1>5, <2>2, <3>1 DEF BufferInv, SigIsOld
  <2> QED
    BY <2>1, <2>2
<1>6. StaleIsDamage'
  <2>1. ASSUME ~lost, NEW p \in Pixels PROVE ebc[p] = frame[p]
    <3>1. CASE due
      BY <1>5, <2>1, <3>1
    <3>2. CASE ~due
      BY <2>1, <3>2 DEF BufferInv, StaleIsDamage
    <3> QED
      BY <3>1, <3>2
  <2> QED
    BY <1>2, <1>3, <2>1 DEF StaleIsDamage
<1>7. SigIsOld'
  <2>1. ASSUME ~attached' PROVE Forgotten(last_fb_sig, 3 - fb)
    BY <1>0, <1>4, <2>1, SignatureTells
  <2> QED
    BY <1>2, <1>3, <2>1 DEF SigIsOld, BufferInv
<1>8. CacheKnows'
  BY <1>3 DEF BufferInv, CacheKnows
<1> QED
  BY <1>1, <1>2, <1>6, <1>7, <1>8 DEF BufferInv

\* The hash remembered by a commit that is not skipped.
LEMMA Remembered ==
  ASSUME Sound, BufferInv, RememberSignature, t'.skipsame = TRUE
  PROVE  /\ ~fbid_known => last_fb_sig' = 0
         /\ ~attached' => Forgotten(last_fb_sig', 3 - fb)
<1>0. ShimInv /\ RequestRecorded /\ HashTells /\ 3 - fb \in {1, 2} /\ CacheOK
  BY TypeParts DEF BufferInv, ShimInv, Sound, SfOK
<1>1. CASE fbid_known
  <2>1. Forgotten(Signature, 3 - fb)
    BY <1>0, <1>1, SignatureTells
  <2> QED
    BY <1>1, <2>1 DEF RememberSignature
<1>2. CASE ~fbid_known
  <2>1. last_fb_sig' = 0
    BY <1>2 DEF RememberSignature, BufferInv, SigIsOld
  <2>2. Forgotten(0, 3 - fb)
    <3> DEFINE id == 3 - fb
    <3>1. id \in {1, 2}
      BY <1>0
    <3> HIDE DEF id
    <3>2. Forgotten(0, id)
      BY <1>0, <3>1, ZeroIsForgotten
    <3> QED
      BY <3>2 DEF id
  <2> QED
    BY <1>2, <2>1, <2>2
<1> QED
  BY <1>1, <1>2

LEMMA ThrottledBuffer == ASSUME Sound, BufferInv, CommitThrottled PROVE BufferInv'
<1>0. CommitBegins /\ ReadDamage /\ CommitEnds /\ RememberSignature
  BY DEF CommitThrottled
<1>1. ShimInv'
  BY CommitThrottledHolds DEF BufferInv
<1>2. /\ RequestRecorded' /\ t'.skipsame = TRUE /\ DueIsUnseen'
      /\ due' = FALSE /\ fb' = fb /\ frame' = frame
  BY <1>0, LookedAt
<1>3. UNCHANGED <<ebc, cache, fbid_known>> /\ (~lost' => ~lost /\ ~due)
  BY DEF CommitThrottled, panel, drmVars
<1>4. StaleIsDamage' /\ CacheKnows'
  BY <1>2, <1>3 DEF BufferInv, StaleIsDamage, CacheKnows
<1>5. SigIsOld'
  BY <1>0, <1>2, <1>3, Remembered DEF SigIsOld
<1> QED
  BY <1>1, <1>2, <1>4, <1>5 DEF BufferInv

\* An injection that succeeds brings the buffer up to date, unless a frame was lost
\* before and it is not the whole panel that is driven.
LEMMA InjectionCovers ==
  ASSUME Sound, BufferInv, CommitInjects(TRUE), Plane \in Injected,
         ~lost \/ NewRects = <<FullPanel>>, NEW p \in Pixels
  PROVE  ebc'[p] = frame[p]
<1>0. /\ MailOK /\ RestOK /\ SfOK /\ PanelOK
      /\ CommitBegins /\ ReadDamage /\ ~NothingNew
  BY TypeParts DEF BufferInv, ShimInv, CommitInjects
<1>1. ebc'[p] = IF p \in CoveredBy(NewRects) THEN frame[p] ELSE ebc[p]
  BY DEF CommitInjects, Apply
<1>2. ASSUME NewRects = <<FullPanel>> PROVE p \in CoveredBy(NewRects)
  <2>1. Covers(FullPanel, p) /\ DOMAIN <<FullPanel>> = {1} /\ <<FullPanel>>[1] = FullPanel
    BY FullPanelCovers
  <2> QED
    BY <1>2, <2>1 DEF CoveredBy
<1>3. ASSUME verdict'.rects = <<>> PROVE NewRects = <<FullPanel>>
  BY <1>3 DEF NewRects, UpdateRects
<1>4. ASSUME ~lost, ebc[p] # frame[p], verdict'.rects # <<>> PROVE p \in CoveredBy(NewRects)
  <2>1. due /\ (posted.id = 0 \/ posted.rects = <<>> \/ p \in CoveredBy(posted.rects))
    BY <1>4 DEF BufferInv, StaleIsDamage
  <2>2. /\ attached' /\ seen # posted.id /\ verdict'.kind = "new" /\ verdict'.rects = posted.rects
    BY <1>0, <1>4, ReadHolds DEF RestOK, NothingNew
  <2>3. posted.id > 0
    BY <1>0, <2>2, ReadHolds DEF RestOK, BufferInv, DueIsUnseen
  <2>4. p \in CoveredBy(posted.rects)
    BY <1>4, <2>1, <2>2, <2>3
  <2> DEFINE force == verdict'.full = 1 \/ CleanDue
  <2>5. force \in BOOLEAN
    OBVIOUS
  <2>6. posted.rects \in Seq(Rect) /\ Len(posted.rects) <= MaxRects
    BY <1>0 DEF MailOK, BufferInv, DueIsUnseen
  <2>7. NewRects = UpdateRects(posted.rects, force)
    BY <2>2 DEF NewRects
  <2> HIDE DEF force
  <2>8. CoveredBy(posted.rects) \subseteq CoveredBy(UpdateRects(posted.rects, force))
    BY <2>5, <2>6, UpdateRectsCover
  <2> QED
    BY <2>4, <2>7, <2>8
<1> QED
  BY <1>1, <1>2, <1>3, <1>4

\* What becomes of the cache and of the plane, with enumerations that succeed.
LEMMA InjectionFinds ==
  ASSUME Sound, BufferInv, LookUpAll, CacheOK'
  PROVE  /\ CacheKnows' /\ fbid_known' \in BOOLEAN
         /\ fbid_known => fbid_known'
         /\ Plane \in request => Plane \in Injected
<1>0. PendOK /\ CacheOK
  BY TypeParts DEF BufferInv, ShimInv
<1>1. PICK answers \in BOOLEAN :
        /\ answers \/ LookupMayFail
        /\ cache' = Looked(answers)
        /\ fbid_known' = (fbid_known \/ (answers /\ Plane \in Known(cache') \ Known(cache)))
  BY DEF LookUpAll
<1>2. answers = TRUE
  BY <1>1 DEF Sound
<1>3. /\ Looked(answers) \in Seq(Cached) /\ Distinct(Looked(answers))
      /\ \A i \in DOMAIN Looked(answers) :
           \/ Looked(answers)[i] \in ToSet(cache)
           \/ Looked(answers)[i].epdc = (answers /\ Looked(answers)[i].obj = Plane)
      /\ \A n \in DOMAIN pend :
           \/ pend[n].obj \in Known(Looked(answers))
           \/ Len(Looked(answers)) >= MaxObj
  BY <1>0, LookedHolds DEF PendOK, CacheOK
<1>4. CacheKnows'
  <2> SUFFICES ASSUME NEW i \in DOMAIN cache', cache'[i].obj = Plane PROVE cache'[i].epdc = TRUE
    BY DEF CacheKnows
  <2>1. CASE cache'[i] \in ToSet(cache)
    <3>1. PICK k \in DOMAIN cache : cache'[i] = cache[k]
      BY <2>1 DEF ToSet
    <3> QED
      BY <3>1 DEF BufferInv, CacheKnows
  <2>2. CASE cache'[i].epdc = (answers /\ cache'[i].obj = Plane)
    BY <1>2, <2>2
  <2> QED
    BY <1>1, <1>3, <2>1, <2>2
<1>5. ASSUME Plane \in request PROVE Plane \in Injected
  <2>1. PICK n \in DOMAIN pend : pend[n].obj = Plane
    BY <1>5 DEF BufferInv, RequestRecorded, Known
  <2>2. Plane \in Known(cache')
    <3>1. CASE Len(cache') >= MaxObj
      <4>1. \A e \in Cached : e.obj \in Objects
        BY DEF Cached
      <4>2. cache' \in Seq(Cached) /\ Distinct(cache') /\ Plane \in Objects
        BY <1>1, <1>3, ShimConstants
      <4>3. Plane \notin Known(cache') => Len(cache') < MaxObj
        BY <4>1, <4>2, RoomLeft DEF Sound
      <4>4. Len(cache') \in Nat
        BY <4>2
      <4> QED
        BY <3>1, <4>3, <4>4, ShimConstants
    <3>2. CASE ~(Len(cache') >= MaxObj)
      BY <1>1, <1>3, <2>1, <3>2
    <3> QED
      BY <3>1, <3>2
  <2>3. PICK i \in DOMAIN cache' : cache'[i].obj = Plane
    BY <2>2 DEF Known
  <2>4. cache'[i] \in Cached
    <3>1. cache' \in Seq(Cached)
      BY <1>1, <1>3
    <3> QED
      BY <3>1
  <2>5. cache'[i].epdc = TRUE
    BY <1>4, <2>3 DEF CacheKnows
  <2>6. cache'[i] = [obj |-> Plane, epdc |-> TRUE]
    BY <2>3, <2>4, <2>5 DEF Cached
  <2>7. [obj |-> Plane, epdc |-> TRUE] \in ToSet(cache')
    BY <2>6 DEF ToSet
  <2> QED
    BY <2>1, <2>7 DEF Injected
<1>6. fbid_known' \in BOOLEAN /\ (fbid_known => fbid_known')
  BY <1>1, Zenon
<1> QED
  BY <1>4, <1>5, <1>6

LEMMA InjectsBuffer ==
  ASSUME Sound, BufferInv, NEW ok \in BOOLEAN, CommitInjects(ok) PROVE BufferInv'
<1>0. /\ SfOK /\ PanelOK /\ RestOK
      /\ CommitBegins /\ ReadDamage /\ CommitEnds /\ RememberSignature /\ LookUpAll
  BY TypeParts DEF BufferInv, ShimInv, CommitInjects
<1>1. ShimInv'
  BY CommitInjectsHolds DEF BufferInv
<1>2. /\ RequestRecorded' /\ t'.skipsame = TRUE /\ DueIsUnseen'
      /\ due' = FALSE /\ fb' = fb /\ frame' = frame
      /\ (due => Plane \in request)
  BY <1>0, LookedAt
<1>3. /\ CacheKnows' /\ (fbid_known => fbid_known')
      /\ (Plane \in request => Plane \in Injected)
  <2>1. CacheOK'
    BY <1>1, TypePartsNext DEF ShimInv
  <2> QED
    BY <1>0, <2>1, InjectionFinds
<1>4. ASSUME ~lost', NEW p \in Pixels PROVE ebc'[p] = frame[p]
  <2>1. CASE ok /\ Plane \in Injected /\ (~lost \/ NewRects = <<FullPanel>>)
    <3>1. CommitInjects(TRUE)
      BY <2>1
    <3> QED
      BY <2>1, <3>1, InjectionCovers
  <2>2. CASE ~(ok /\ Plane \in Injected /\ (~lost \/ NewRects = <<FullPanel>>))
    <3>1. ~lost /\ ~(due /\ ~ok)
      BY <1>4, <2>2 DEF CommitInjects
    <3>2. ~due
      BY <1>2, <1>3, <2>2, <3>1
    <3>3. ebc[p] = frame[p]
      BY <3>1, <3>2 DEF BufferInv, StaleIsDamage
    <3>4. ebc'[p] = frame[p] \/ ebc'[p] = ebc[p]
      BY DEF CommitInjects, Apply
    <3> QED
      BY <3>3, <3>4
  <2> QED
    BY <2>1, <2>2
<1>5. StaleIsDamage'
  BY <1>2, <1>4 DEF StaleIsDamage
<1>6. SigIsOld'
  <2>1. ~fbid_known => last_fb_sig' = 0
    BY <1>0, <1>2, Remembered
  <2>2. ~attached' => Forgotten(last_fb_sig', 3 - fb)
    BY <1>0, <1>2, Remembered
  <2> QED
    BY <1>2, <1>3, <2>1, <2>2 DEF SigIsOld
<1> QED
  BY <1>1, <1>2, <1>3, <1>5, <1>6 DEF BufferInv

LEMMA BufferStep == ASSUME Sound, BufferInv, [Next]_vars PROVE BufferInv'
<1>1. CASE UNCHANGED vars
  <2>1. ShimInv'
    BY <1>1, StepHolds DEF BufferInv
  <2>2. RequestRecorded' /\ CacheKnows' /\ t'.skipsame = TRUE
    BY <1>1 DEF BufferInv, vars, RequestRecorded, CacheKnows, Known, tunable, drmVars, sfVars
  <2>3. DueIsUnseen' /\ StaleIsDamage' /\ SigIsOld'
    BY <1>1 DEF BufferInv, vars, DueIsUnseen, StaleIsDamage, SigIsOld, mailbox, sfVars, panel,
                policy, drmVars
  <2> QED
    BY <2>1, <2>2, <2>3 DEF BufferInv
<1>2. CASE Tick \/ MapDamage \/ (\E area \in Regions : Compose(area)) \/ ComposeIdle
  BY <1>2, TickBuffer, MapBuffer, ComposeBuffer, IdleBuffer
<1>3. CASE \E o \in Objects : AddProperty(o)
  BY <1>3, AddBuffer
<1>4. CASE TestOnly \/ CommitDisabled \/ CommitNothingNew \/ CommitThrottled
  BY <1>4, TestBuffer, DisabledBuffer, NothingNewBuffer, ThrottledBuffer
<1>5. CASE CommitInjects(TRUE) \/ (MayFail /\ CommitInjects(FALSE))
  BY <1>5, InjectsBuffer
<1> QED
  BY <1>1, <1>2, <1>3, <1>4, <1>5 DEF Next

-----------------------------------------------------------------------------
\* Once the commit of a frame is through, the driver's buffer holds that frame, from
\* the last full refresh on, unless a commit was let through on purpose or failed:
\* provided that property enumerations succeed, that the objects fit into the arrays,
\* that skipping is never turned off, and that the hash tells the requests apart.
THEOREM ShimBufferIsFrame ==
  ASSUME Sound
  PROVE  Spec => []BufferIsFrame
<1>1. Init => BufferInv
  BY InitBuffer
<1>2. BufferInv /\ [Next]_vars => BufferInv'
  BY BufferStep
<1>3. BufferInv => BufferIsFrame
  <2> SUFFICES ASSUME BufferInv, ~due, ~lost PROVE ebc = frame
    BY DEF BufferIsFrame
  <2>1. SfOK /\ PanelOK
    BY TypeParts DEF BufferInv, ShimInv
  <2>2. \A p \in Pixels : ebc[p] = frame[p]
    BY DEF BufferInv, StaleIsDamage
  <2> QED
    BY <2>1, <2>2 DEF SfOK, PanelOK
<1> QED
  BY <1>1, <1>2, <1>3, PTL DEF Spec

=============================================================================
