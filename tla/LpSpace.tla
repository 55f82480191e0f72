------------------------------ MODULE LpSpace ------------------------------
(***************************************************************************)
(* The sectors of super and what the logical partitions have of them. A    *)
(* layout gives each partition its extents in order. The sizes are in      *)
(* sectors of 512 bytes.                                                   *)
(***************************************************************************)
EXTENDS Integers, SequencesExt, FiniteSetsExt

CONSTANTS
  Partitions,
  GroupOf,                   \* the group of each partition
  GroupMax,                  \* the maximum of each group, 0 for none
  FirstSector, DevSectors,   \* where super's extents may begin, and its size
  Align,                     \* 8: the device's own sectors have 4096 bytes
  Wanted                     \* the sizes that may be asked for

\* An extent of n sectors: of super, from sector `at` on, or of nothing.
Extent == [n: Nat \ {0}, linear: BOOLEAN, at: Nat]

Layout == [Partitions -> Seq(Extent)]

InDevice(lay) ==
  \A p \in Partitions : \A i \in DOMAIN lay[p] :
    lay[p][i].linear => /\ FirstSector <= lay[p][i].at
                        /\ lay[p][i].at + lay[p][i].n <= DevSectors

Apart(e, f) == e.at + e.n <= f.at \/ f.at + f.n <= e.at

\* No sector of super belongs to two extents.
NoOverlap(lay) ==
  \A p, q \in Partitions : \A i \in DOMAIN lay[p], j \in DOMAIN lay[q] :
    lay[p][i].linear /\ lay[q][j].linear /\ <<p, i>> # <<q, j>>
      => Apart(lay[p][i], lay[q][j])

\* The extents are whole sectors of the device, so EDL can write them.
OnSectors(lay) ==
  \A p \in Partitions : \A i \in DOMAIN lay[p] :
    lay[p][i].linear => lay[p][i].at % Align = 0 /\ lay[p][i].n % Align = 0

ASSUME SpaceAssumption ==
  /\ FirstSector \in Nat /\ DevSectors \in Nat /\ Align \in Nat \ {0}
  /\ Wanted \subseteq Nat
  /\ \A p \in Partitions : GroupMax[GroupOf[p]] \in Nat

Total(nums) ==
  LET sum[i \in 0 .. Len(nums)] == IF i = 0 THEN 0 ELSE sum[i - 1] + nums[i]
  IN  sum[Len(nums)]

SizeOf(exts) == Total([i \in DOMAIN exts |-> exts[i].n])

RoundUp(x) == ((x + Align - 1) \div Align) * Align

\* s is the first sector of the tail that belongs to nobody.
IsTail(lay, s) ==
  LET Above(x) == /\ FirstSector <= x
                  /\ \A p \in Partitions : \A i \in DOMAIN lay[p] :
                       lay[p][i].linear => lay[p][i].at + lay[p][i].n <= x
  IN  /\ s % Align = 0 /\ Above(s)
      /\ s - Align >= 0 => ~Above(s - Align)

Members(g) == {p \in Partitions : GroupOf[p] = g}

\* How many sectors the partitions of a group have: one for each of their offsets.
GroupSize(lay, g) == Cardinality(UNION {{p} \X (1 .. SizeOf(lay[p])) : p \in Members(g)})

GroupHolds(lay, p, need) ==
  LET max == GroupMax[GroupOf[p]]
  IN  max = 0 \/ GroupSize(lay, GroupOf[p]) + need <= max

=============================================================================
