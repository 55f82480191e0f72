------------------------------ MODULE LpResize ------------------------------
(***************************************************************************)
(* Growing a logical partition of a device that does not boot              *)
(* (scripts/lp-resize-partition.py, docs/08): the operator dumps the head  *)
(* of super over EDL, the script rewrites both copies of one slot's LP     *)
(* metadata in the dump, and the operator writes the result back, which    *)
(* may be interrupted. liblp uses the primary copy if it can read it, and  *)
(* else the backup.                                                        *)
(*                                                                         *)
(* A copy of the metadata fits a sector of the device, so it is written    *)
(* whole or not at all. The other slots are read and written unchanged.    *)
(***************************************************************************)
EXTENDS LpSpace

CONSTANTS
  FirstTables,   \* the metadata the slot may have at first
  MaxExtents,    \* metadata_max_size, in extents
  MaxRuns        \* bound on the runs of the script

VARIABLES
  super,    \* the two copies on the device
  head,     \* super-head.bin, the dump
  out,      \* out.bin, what the script made of it
  asked,    \* history: the partitions and sizes the script was run with
  runs      \* bounded by MaxRuns

vars == <<super, head, out, asked, runs>>

Copies == {"primary", "backup"}

\* A copy: whether its magic is right, its partitions and its extents.
Table ==
  [magic: BOOLEAN, parts: Seq([name: Partitions, first: Nat, num: Nat]), exts: Seq(Extent)]

Blank  == [magic |-> FALSE, parts |-> <<>>, exts |-> <<>>]

\* plan: the extents of each partition, in table order.
Plan(m) == [i \in DOMAIN m.parts |->
              SubSeq(m.exts, m.parts[i].first + 1, m.parts[i].first + m.parts[i].num)]

IndexOf(m, target) == CHOOSE i \in DOMAIN m.parts : m.parts[i].name = target

LayoutOf(m) == [p \in Partitions |-> Plan(m)[IndexOf(m, p)]]

Readable(copies) == {c \in Copies : copies[c].magic}

\* Which copy liblp goes by.
Live(copies) == IF copies["primary"].magic THEN copies["primary"] ELSE copies["backup"]

L == INSTANCE LpLayout WITH layout <- LayoutOf(Live(super))

\* The partitions are there once each, and their extents are in the table.
Named(m) ==
  /\ \A p \in Partitions : \E i \in DOMAIN m.parts : m.parts[i].name = p
  /\ \A i, j \in DOMAIN m.parts : m.parts[i].name = m.parts[j].name => i = j
  /\ \A i \in DOMAIN m.parts : m.parts[i].first + m.parts[i].num <= Len(m.exts)

Init ==
  /\ \E m \in FirstTables :
       super \in {[c \in Copies |-> m], [primary |-> m, backup |-> Blank],
                  [primary |-> Blank, backup |-> m]}
  /\ head = super /\ out = super
  /\ asked = {} /\ runs = 0

-----------------------------------------------------------------------------
(* patch_slot. *)

\* high: the end of the last LINEAR extent.
High(m) ==
  LET exts == UNION {ToSet(own) : own \in ToSet(Plan(m))}
  IN  Max({FirstSector} \cup {e.at + e.n : e \in {x \in exts : x.linear}})

\* Mutant: the extent is appended after the partition's own last one.
StartOwn(m, i) ==
  LET own == Plan(m)[i]
  IN  IF own = <<>> THEN RoundUp(High(m)) ELSE own[Len(own)].at + own[Len(own)].n

Start(m, i) == RoundUp(High(m))

Used(m, g) ==
  Total([i \in DOMAIN m.parts |->
           IF GroupOf[m.parts[i].name] = g THEN SizeOf(Plan(m)[i]) ELSE 0])

\* Mutant: the group is checked before the extent is added.
GroupHasRoomNow(m, g, need) == GroupMax[g] = 0 \/ Used(m, g) <= GroupMax[g]

GroupHasRoom(m, g, need) == GroupMax[g] = 0 \/ Used(m, g) + need <= GroupMax[g]

\* new_exts, when it has the extents of the first i partitions.
NewExts(plan) ==
  LET new[i \in 0 .. Len(plan)] == IF i = 0 THEN <<>> ELSE new[i - 1] \o plan[i]
  IN  new

\* Mutant: the indices of the later partitions are left as they were.
RebuildInPlace(m, plan) ==
  [m EXCEPT !.exts = NewExts(plan)[Len(plan)],
            !.parts = [i \in DOMAIN m.parts |-> [m.parts[i] EXCEPT !.num = Len(plan[i])]]]

\* The tables are rebuilt in partition order, and every index anew.
Rebuild(m, plan) ==
  [m EXCEPT !.exts = NewExts(plan)[Len(plan)],
            !.parts = [i \in DOMAIN m.parts |->
                         [m.parts[i] EXCEPT !.first = Len(NewExts(plan)[i - 1]),
                                            !.num   = Len(plan[i])]]]

Need(m, target, want) == RoundUp(want - SizeOf(Plan(m)[IndexOf(m, target)]))

\* "Nothing to do", and patch_slot returns None.
Suffices(m, target, want) == want <= SizeOf(Plan(m)[IndexOf(m, target)])

\* Mutant: nothing is checked but the space at the tail.
MayPatchAnySize(m, target, want) ==
  Suffices(m, target, want) \/ Need(m, target, want) <= DevSectors - Start(m, IndexOf(m, target))

\* patch_slot does not die, and the result fits into metadata_max_size.
MayPatch(m, target, want) ==
  \/ Suffices(m, target, want)
  \/ LET i == IndexOf(m, target)
         need == Need(m, target, want)
     IN  /\ need <= DevSectors - Start(m, i)
         /\ GroupHasRoom(m, GroupOf[target], need)
         /\ Len(m.exts) + 1 <= MaxExtents

Patched(m, target, want) ==
  IF ~m.magic \/ Suffices(m, target, want) THEN m
  ELSE LET i == IndexOf(m, target)
           x == [n |-> Need(m, target, want), linear |-> TRUE, at |-> Start(m, i)]
       IN  Rebuild(m, [Plan(m) EXCEPT ![i] = Append(@, x)])

\* Mutant: the loop ends with the first copy that was patched.
PatchOne(target, want) ==
  IF Patched(head["primary"], target, want) # head["primary"]
  THEN [head EXCEPT !["primary"] = Patched(@, target, want)]
  ELSE [head EXCEPT !["backup"] = Patched(@, target, want)]

\* main's loop over the two copies.
PatchBoth(target, want) == [c \in Copies |-> Patched(head[c], target, want)]

-----------------------------------------------------------------------------
Tiled(m) == Rebuild(m, Plan(m)) = m

SoundCopy(m) ==
  /\ InDevice(LayoutOf(m)) /\ NoOverlap(LayoutOf(m))
  /\ \A p \in Partitions :
       GroupMax[GroupOf[p]] = 0 \/ Used(m, GroupOf[p]) <= GroupMax[GroupOf[p]]

WellFormed(m) ==
  /\ m \in Table /\ m.magic /\ Named(m) /\ Tiled(m) /\ SoundCopy(m)
  /\ Len(m.exts) <= MaxExtents

\* What liblp wrote when the partitions were made is well formed: the script checks
\* the magic only.
ASSUME ResizeAssumption ==
  /\ MaxExtents \in Nat /\ MaxRuns \in Nat
  /\ \A m \in FirstTables : WellFormed(m)

\* edl rs
Dump ==
  /\ head # super
  /\ head' = super /\ out' = super
  /\ UNCHANGED <<super, asked, runs>>

\* The script, on a dump it has not been run on. If it dies there is no output.
Resize(target, want) ==
  /\ runs < MaxRuns /\ out = head
  /\ \A c \in Readable(head) : MayPatch(head[c], target, want)
  /\ out' = PatchBoth(target, want)
  /\ out' # head
  /\ asked' = asked \cup {<<target, want>>}
  /\ runs' = runs + 1
  /\ UNCHANGED <<super, head>>

\* "The metadata must be re-dumped from the device immediately before patching"
\* (docs/08): the dump is of what is there now, or of what was there before an
\* interrupted write back.
Fresh == \A c \in Copies : super[c] \in {head[c], out[c]}

\* edl ws: the primary copy comes first. It may be interrupted after that, and be
\* run again.
WriteBack ==
  /\ out # head /\ super # out /\ Fresh
  /\ \/ super' = out
     \/ super' = [super EXCEPT !["primary"] = out["primary"]]
  /\ UNCHANGED <<head, out, asked, runs>>

Next ==
  \/ Dump
  \/ \E target \in Partitions, want \in Wanted : Resize(target, want)
  \/ WriteBack

Spec == Init /\ [][Next]_vars

-----------------------------------------------------------------------------
TypeOK ==
  /\ \A copies \in {super, head, out} :
       /\ copies \in [Copies -> Table]
       /\ \A c \in Copies : Len(copies[c].exts) <= MaxExtents
  /\ asked \subseteq Partitions \X Wanted
  /\ runs \in 0 .. MaxRuns

AllCopies == {copies[c] : copies \in {super, head, out}, c \in Copies}

\* The extents of the partitions are the extents table, cut in order: after each
\* patch the indices name the partition's own extents and nobody else's.
TablesTile == \A m \in AllCopies : Tiled(m)

\* No copy ever gives a sector to two extents or one beyond the device, nor a group
\* more than its maximum ("nothing re-checks it when metadata is written directly"),
\* not the one liblp does not use at the moment either.
CopiesSound ==
  \A m \in AllCopies : m.magic => SoundCopy(m)

Agree(copies) == \A c, d \in Readable(copies) : copies[c] = copies[d]

\* A write back that was interrupted is repaired by dumping, running the script
\* with the same arguments and writing again: the copies agree afterwards.
RerunAgrees == Cardinality(asked) <= 1 => Agree(out) \/ out = head

\* What liblp sees is a layout that only ever grows, by sectors that belonged to
\* nobody: also if the write back is interrupted.
LiveGrows == L!LayoutSpec

\* "Both metadata copies (primary and backup) are updated", whatever the script
\* is run with.
BothUpdated == out # head => Agree(out)

=============================================================================
