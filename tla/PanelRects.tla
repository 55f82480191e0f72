----------------------------- MODULE PanelRects -----------------------------
(***************************************************************************)
(* The geometry of the damage path: how SurfaceFlinger reduces a dirty     *)
(* region to the rectangles it can publish (patches/main/0002), and how    *)
(* the composer shim turns published rectangles into the update rectangles *)
(* the kernel accepts (init_parms in src/epdcshim.c).                      *)
(*                                                                         *)
(* A rectangle is half open: it covers left <= x < right, top <= y < bottom*)
(***************************************************************************)
EXTENDS Integers, Sequences, FiniteSetsExt

CONSTANTS
  PanelW,    \* PANEL_W, 1648
  PanelH,    \* PANEL_H, 824
  MaxRects   \* EPDC_DAMAGE_MAX, 8

ASSUME PanelAssumption ==
  /\ PanelW   \in Nat \ {0}
  /\ PanelH   \in Nat \ {0}
  /\ MaxRects \in Nat \ {0}

Rect == [left: Int, top: Int, right: Int, bottom: Int]

Box(l, t, r, b) == [left |-> l, top |-> t, right |-> r, bottom |-> b]

FullPanel == Box(0, 0, PanelW, PanelH)

Pixels == (0 .. PanelW - 1) \X (0 .. PanelH - 1)

Covers(r, p) ==
  /\ r.left <= p[1] /\ p[1] < r.right
  /\ r.top  <= p[2] /\ p[2] < r.bottom

CoveredBy(rects) == {p \in Pixels : \E i \in DOMAIN rects : Covers(rects[i], p)}

(* What the kernel requires of an update rectangle: inside the panel and   *)
(* not empty ("a rectangle outside the panel is rejected outright").       *)
Acceptable(r) ==
  /\ 0 <= r.left /\ r.left < r.right  /\ r.right  <= PanelW
  /\ 0 <= r.top  /\ r.top  < r.bottom /\ r.bottom <= PanelH

-----------------------------------------------------------------------------
(* SurfaceFlinger's side. *)

\* Region::getBounds of a non-empty region.
GetBounds(region) ==
  LET Edge(e(_)) == {e(region[i]) : i \in DOMAIN region}
  IN  Box(Min(Edge(LAMBDA r : r.left)),  Min(Edge(LAMBDA r : r.top)),
          Max(Edge(LAMBDA r : r.right)), Max(Edge(LAMBDA r : r.bottom)))

\* Mutant: a region with too many rectangles is cut off, not collapsed.
PublishableCut(region) == SubSeq(region, 1, IF Len(region) <= MaxRects THEN Len(region) ELSE MaxRects)

\* The rectangles publishEpdcDamage writes: verbatim when they fit, the bounds
\* of the region when they do not. No rectangle at all asks for a full refresh.
Publishable(region) ==
  IF Len(region) <= MaxRects THEN region ELSE <<GetBounds(region)>>

-----------------------------------------------------------------------------
(* The shim's side. *)

Lower(a, b) == IF a < b THEN a ELSE b
Upper(a, b) == IF a > b THEN a ELSE b

Trim(r) == Box(Upper(r.left, 0),       Upper(r.top, 0),
               Lower(r.right, PanelW), Lower(r.bottom, PanelH))

\* Mutant: a rectangle with nothing left inside the panel is passed on.
ClampOnly(r) == Trim(r)

\* A rectangle with nothing left inside the panel becomes the whole panel.
Clamp(r) ==
  LET c == Trim(r)
  IN  IF c.right <= c.left \/ c.bottom <= c.top THEN FullPanel ELSE c

\* Mutant: one rectangle for everything as soon as there is more than one.
UpdateRectsCoarse(rects, force_full) ==
  IF force_full \/ Len(rects) # 1 THEN <<FullPanel>> ELSE <<Clamp(rects[1])>>

\* The rectangles init_parms puts in g_parms and counts in EPDC_UPDATE_CNT.
UpdateRects(rects, force_full) ==
  IF force_full \/ rects = <<>>
  THEN <<FullPanel>>
  ELSE [i \in 1 .. Lower(Len(rects), MaxRects) |-> Clamp(rects[i])]

=============================================================================
