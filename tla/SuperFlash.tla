----------------------------- MODULE SuperFlash -----------------------------
(***************************************************************************)
(* Writing an image into a logical partition over EDL, sector by sector:   *)
(* all of it (scripts/flash-logical-via-edl.py), or only what changed since*)
(* the image written last (scripts/edl-delta-flash.py). The partition is a *)
(* list of extents of super, which is where lpdump.txt says; it may grow   *)
(* meanwhile (LpResize), with the operator's lpdump.txt not made anew.     *)
(*                                                                         *)
(* Everything is counted in units of 512 bytes. The start of super is a    *)
(* whole number of device sectors (45576) and is left out.                 *)
(***************************************************************************)
EXTENDS Integers, SequencesExt, FiniteSetsExt

CONSTANTS
  PerSector,   \* SECTOR / 512, 8
  DevUnits,    \* the size of super
  Layouts,     \* the extents the partition may have at first
  Growth,      \* the extents it may grow by
  Images,      \* the images that are flashed
  MaxPct,      \* --max-pct, 25
  MayCross,    \* whether a delta may have a run that leaves an extent
  MaxFlashes   \* bound on the flashes begun

Extent == {x \in [phys: Nat, len: Nat \ {0}] : x.phys + x.len <= DevUnits}
Image  == [size: Nat \ {0}, version: Seq(STRING)]   \* a version for each sector

\* The extents have no unit in common.
Apart(x, y) == x.phys + x.len <= y.phys \/ y.phys + y.len <= x.phys

ASSUME FlashAssumption ==
  /\ PerSector \in Nat \ {0} /\ DevUnits \in Nat /\ MaxPct \in 0 .. 100
  /\ \A layout \in Layouts :
       /\ layout \in Seq(Extent)
       /\ \A i, j \in DOMAIN layout : i # j => Apart(layout[i], layout[j])
  /\ Growth \subseteq Extent
  /\ Images \subseteq Image
  /\ MayCross \in BOOLEAN /\ MaxFlashes \in Nat

VARIABLES
  ext,      \* the extents of the partition
  dump,     \* the extents in the operator's lpdump.txt
  dev,      \* what each unit of super holds
  pc,       \* "idle", or the script that is writing: "full" or "delta"
  base,     \* the image the operator keeps as the one flashed last
  target,   \* the image being flashed, or flashed in vain
  doubt,    \* what failed since base was flashed: "none", "delta" or "full"
  todo,     \* the writes to come
  flashes   \* the flashes begun, bounded by MaxFlashes

vars == <<ext, dump, dev, pc, base, target, doubt, todo, flashes>>

-----------------------------------------------------------------------------
\* A unit holds a unit of an image, padding, or something of somebody else's.
Cell(img, u) == [of |-> img.version[u \div PerSector + 1], unit |-> u]
Padding  == [of |-> "padding", unit |-> 0]
Other(d) == [of |-> "other", unit |-> d]

\* The units of the extents before the i-th.
Before(e, i) ==
  LET sum[n \in 0 .. Len(e)] == IF n = 0 THEN 0 ELSE sum[n-1] + e[n].len
  IN  sum[i - 1]

Total(e) == Before(e, Len(e) + 1)

Units(e) == UNION {e[i].phys .. e[i].phys + e[i].len - 1 : i \in DOMAIN e}

\* Mutant: the first extent is taken to go on for ever.
WhereLinear(e, u) == e[1].phys + u

\* dev_sector, before the division: where the image's unit u is in super.
Where(e, u) ==
  LET i == CHOOSE j \in DOMAIN e : Before(e, j) <= u /\ u < Before(e, j + 1)
  IN  e[i].phys + (u - Before(e, i))

SectorsOf(img) == (img.size + PerSector - 1) \div PerSector

Aligned(e) == \A i \in DOMAIN e : e[i].phys % PerSector = 0 /\ e[i].len % PerSector = 0

\* A write for edl: units from .. to - 1 of the image, at a sector of the device.
Write(sector, img, from, to) ==
  [sector |-> sector, data |-> [k \in 1 .. to - from |-> Cell(img, from + k - 1)]]

\* What the device holds once edl wrote the first n sectors of w. The last sector
\* is filled up with zeroes.
Written(w, n) ==
  [d \in DOMAIN dev |->
     LET k == d - w.sector * PerSector
     IN  IF k \notin 0 .. n * PerSector - 1
         THEN dev[d]
         ELSE IF k < Len(w.data) THEN w.data[k + 1] ELSE Padding]

WriteSectors(w) == (Len(w.data) + PerSector - 1) \div PerSector

-----------------------------------------------------------------------------
Init ==
  /\ ext \in Layouts /\ dump = ext
  /\ dev = [d \in 0 .. DevUnits - 1 |-> Other(d)]
  /\ pc = "idle"
  /\ base \in Images /\ target = base
  /\ doubt = "full"
  /\ todo = <<>> /\ flashes = 0

\* lp-resize-partition.py appends an extent that belonged to nobody.
Grow(x) ==
  /\ pc = "idle"
  /\ \A i \in DOMAIN ext : Apart(x, ext[i])
  /\ ext' = Append(ext, x)
  /\ UNCHANGED <<dump, dev, pc, base, target, doubt, todo, flashes>>

\* The operator runs lpdump again.
Dump ==
  /\ pc = "idle" /\ dump # ext
  /\ dump' = ext
  /\ UNCHANGED <<ext, dev, pc, base, target, doubt, todo, flashes>>

Begin(script, img, writes) ==
  /\ pc = "idle" /\ flashes < MaxFlashes
  /\ flashes' = flashes + 1
  /\ pc' = script
  /\ target' = img /\ todo' = writes
  /\ UNCHANGED <<ext, dump, dev, base>>

-----------------------------------------------------------------------------
(* flash-logical-via-edl.py: a piece for each extent that the image reaches. *)

Pieces(img) ==
  LET Piece(i) == Write(dump[i].phys \div PerSector, img, Before(dump, i),
                        Min({img.size, Before(dump, i + 1)}))
      reached  == {i \in DOMAIN dump : Before(dump, i) < img.size}
  IN  [i \in 1 .. Max(reached) |-> Piece(i)]

BeginFull(img) ==
  /\ dump # <<>>
  /\ img.size <= Total(dump)
  /\ Aligned(dump)
  /\ Begin("full", img, Pieces(img))
  /\ doubt' = "full"

-----------------------------------------------------------------------------
(* edl-delta-flash.py: a write for each run of sectors that differ. *)

Changed(img) == {s \in 0 .. SectorsOf(img) - 1 : img.version[s + 1] # base.version[s + 1]}

\* The loop that coalesces the changed sectors before the n-th into runs, from their
\* first sector to their last.
Coalesced(changed, n) ==
  LET runs[s \in 0 .. n] ==
        IF s = 0 THEN <<>>
        ELSE IF s - 1 \notin changed THEN runs[s-1]
        ELSE IF s - 2 \in changed
             THEN [runs[s-1] EXCEPT ![Len(runs[s-1])] = <<runs[s-1][Len(runs[s-1])][1], s - 1>>]
             ELSE Append(runs[s-1], <<s - 1, s - 1>>)
  IN  runs[n]

\* Mutant: the run that is open at the end of the loop is not appended.
RunsButLast(img) == Front(Coalesced(Changed(img), SectorsOf(img)))

Runs(img) == Coalesced(Changed(img), SectorsOf(img))

\* Mutant: the data is read from the start of the image.
RunWriteFromStart(img, r) ==
  Write(Where(dump, r[1] * PerSector) \div PerSector, img, 0, (r[2] + 1 - r[1]) * PerSector)

\* Only the sector of the run's start is looked up in the extents.
RunWrite(img, r) ==
  Write(Where(dump, r[1] * PerSector) \div PerSector, img,
        r[1] * PerSector, Min({img.size, (r[2] + 1) * PerSector}))

RunWrites(img) == [i \in DOMAIN Runs(img) |-> RunWrite(img, Runs(img)[i])]

\* Some run is not in one piece on the device.
Crosses(img) ==
  \E r \in ToSet(Runs(img)) :
    \E u \in r[1] * PerSector .. Min({img.size, (r[2] + 1) * PerSector}) - 1 :
      Where(dump, u) - Where(dump, r[1] * PerSector) # u - r[1] * PerSector

\* The operator passes base as the old image, and only if it is what the device
\* holds, but for a delta to the same image that failed.
BeginDelta(img) ==
  /\ doubt = "none" \/ (doubt = "delta" /\ img = target)
  /\ img.size = base.size
  /\ dump # <<>> /\ img.size <= Total(dump)
  /\ Changed(img) # {}
  /\ 100 * Cardinality(Changed(img)) <= MaxPct * Max({1, img.size \div PerSector})
  /\ MayCross \/ ~Crosses(img)
  /\ Begin("delta", img, RunWrites(img))
  /\ doubt' = "delta"

-----------------------------------------------------------------------------
\* Mutant: the script is not done with the last write.
WriteOkLingers ==
  /\ todo # <<>>
  /\ dev' = Written(Head(todo), WriteSectors(Head(todo)))
  /\ todo' = Tail(todo)
  /\ UNCHANGED <<ext, dump, pc, base, target, doubt, flashes>>

\* edl says "Wrote". After the last write the script is done, and the image is
\* what the operator keeps.
WriteOk ==
  /\ todo # <<>>
  /\ dev' = Written(Head(todo), WriteSectors(Head(todo)))
  /\ todo' = Tail(todo)
  /\ IF Len(todo) = 1
     THEN pc' = "idle" /\ base' = target /\ doubt' = "none"
     ELSE UNCHANGED <<pc, base, doubt>>
  /\ UNCHANGED <<ext, dump, target, flashes>>

\* edl does not say so, having written some of the sectors; the script gives up.
WriteFails ==
  /\ todo # <<>>
  /\ \E n \in 0 .. WriteSectors(Head(todo)) : dev' = Written(Head(todo), n)
  /\ todo' = <<>> /\ pc' = "idle"
  /\ UNCHANGED <<ext, dump, base, target, doubt, flashes>>

Next ==
  \/ \E x \in Growth : Grow(x)
  \/ Dump
  \/ \E img \in Images : BeginFull(img)
  \/ \E img \in Images : BeginDelta(img)
  \/ WriteOk
  \/ WriteFails

Spec == Init /\ [][Next]_vars

-----------------------------------------------------------------------------
TypeOK ==
  /\ ext \in Seq(Extent) /\ dump \in Seq(Extent)
  /\ DOMAIN dev = 0 .. DevUnits - 1
  /\ pc \in {"idle", "full", "delta"} /\ (pc = "idle" <=> todo = <<>>)
  /\ {base, target} \subseteq Images
  /\ doubt \in {"none", "delta", "full"}
  /\ flashes \in 0 .. MaxFlashes

\* What the device holds where img.size units of the partition are.
Holds(u, img) == dev[Where(ext, u)] = Cell(img, u)

\* However a flash ends, and while it runs, nothing outside the partition's
\* extents is written ("each piece written at the right absolute device sector",
\* flash-logical-via-edl.py).
OnlyOwnSectors == \A d \in DOMAIN dev \ Units(ext) : dev[d] = Other(d)

\* After a flash that succeeded, a full one or a chain of deltas on top of it, the
\* partition holds the image the operator keeps: `old.img` is "byte-identical to
\* what is actually on the device", as the next delta requires.
DeviceIsBase == doubt = "none" => \A u \in 0 .. base.size - 1 : Holds(u, base)

\* A delta that stops half way leaves each sector old or new, so that running it
\* again repairs it.
OldOrNew ==
  doubt = "delta" => \A u \in 0 .. base.size - 1 : Holds(u, base) \/ Holds(u, target)

=============================================================================
