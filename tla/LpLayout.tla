------------------------------ MODULE LpLayout ------------------------------
(***************************************************************************)
(* What growing a logical partition promises, whatever its metadata look   *)
(* like: some sectors that belong to nobody are appended to a partition,   *)
(* and nothing else changes.                                               *)
(***************************************************************************)
EXTENDS LpSpace

VARIABLE layout

LayoutInit == layout \in Layout /\ InDevice(layout) /\ NoOverlap(layout)

\* The partition lacks some sectors, and as many as needed are appended.
Grow(p, want) ==
  \E lacking \in 1 .. DevSectors :
    /\ want - SizeOf(layout[p]) = lacking
    /\ GroupHolds(layout, p, RoundUp(lacking))
    /\ \E s \in 0 .. DevSectors - RoundUp(lacking) :
         /\ IsTail(layout, s)
         /\ layout' = [layout EXCEPT ![p] =
                         Append(@, [n |-> RoundUp(lacking), linear |-> TRUE, at |-> s])]

LayoutNext == \E p \in Partitions, want \in Wanted : Grow(p, want)

LayoutSpec == LayoutInit /\ [][LayoutNext]_layout

-----------------------------------------------------------------------------
\* Every extent lies within super, and no two share a sector.
Sound == layout \in Layout /\ InDevice(layout) /\ NoOverlap(layout)

DataKept == \A p \in Partitions : IsPrefix(layout[p], layout'[p])

\* What a partition held it still holds, at the same offsets: its extents are
\* never moved or taken away, so an image that was flashed stays readable.
KeepsData == [][DataKept]_layout

\* A layout on the device's sectors stays on them.
StaysOnSectors == [][ OnSectors(layout) => OnSectors(layout') ]_layout

=============================================================================
