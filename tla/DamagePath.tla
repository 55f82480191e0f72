----------------------------- MODULE DamagePath -----------------------------
(***************************************************************************)
(* A dirty region, built one rectangle at a time, taken through both ends  *)
(* of the damage path: what becomes of it between SurfaceFlinger and the   *)
(* kernel.                                                                 *)
(***************************************************************************)
EXTENDS PanelRects

CONSTANTS
  InputRects,   \* the rectangles a region may have, on the panel or not
  MaxRegion     \* bound on the rectangles of a region

ASSUME PathAssumption == InputRects \subseteq Rect /\ MaxRegion \in Nat

VARIABLE region

RegionInit == region = <<>>

AddRect ==
  /\ Len(region) < MaxRegion
  /\ \E r \in InputRects : region' = Append(region, r)

RegionSpec == RegionInit /\ [][AddRect]_region

-----------------------------------------------------------------------------
Submitted(force_full) == UpdateRects(Publishable(region), force_full)

\* Every pixel the frame changed is inside some rectangle handed to the kernel,
\* whatever the region looked like and however many rectangles it had: merging
\* and clamping only ever enlarge ("an over-large rectangle only costs refresh
\* time, whereas dropping one leaves stale pixels", publishEpdcDamage).
DamageIsRefreshed ==
  \A full \in BOOLEAN : CoveredBy(region) \subseteq CoveredBy(Submitted(full))

\* The kernel never sees a rectangle it would reject, and never more than the
\* fixed array holds ("a single bad one would cost the whole update").
KernelAccepts ==
  \A full \in BOOLEAN :
    /\ Len(Submitted(full)) \in 1 .. MaxRects
    /\ \A i \in DOMAIN Submitted(full) : Acceptable(Submitted(full)[i])

\* The panel is only refreshed where something changed: with at most MaxRects
\* rectangles, all of them reaching into the panel, nothing else is driven.
NoOverRefresh ==
  ( /\ Len(region) \in 1 .. MaxRects
    /\ \A i \in DOMAIN region : CoveredBy(<<region[i]>>) # {} )
  => CoveredBy(Submitted(FALSE)) = CoveredBy(region)

=============================================================================
