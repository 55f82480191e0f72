----------------------------- MODULE DamageShm -----------------------------
(***************************************************************************)
(* The damage mapping /dev/epdc/damage (src/epdc_damage.h): SurfaceFlinger *)
(* creates and writes it (patches/main/0002), the composer shim attaches   *)
(* to it and reads it (attach_damage, read_damage in src/epdcshim.c).      *)
(*                                                                         *)
(* Both sides are modelled one memory access at a time.  With Ordered,     *)
(* stores become visible and loads are satisfied in program order.  Without*)
(* it they keep only the order AArch64 gives a store-release (after every  *)
(* earlier access, later ones may overtake it) and a load-acquire (before  *)
(* every later access, earlier ones may fall behind it).                   *)
(***************************************************************************)
EXTENDS PanelRects

CONSTANTS
  Regions,       \* the dirty regions a frame may have
  Attempts,      \* read_damage's retry limit, 4
  Recheck,       \* RECHECK, 30: commits between two attempts to attach
  Ordered,       \* the memory order, see above
  MaxFrames,     \* bound on the frames composed
  MaxSfRestarts, MaxComposerRestarts   \* bounds on the restarts

ASSUME ShmAssumption ==
  /\ \A region \in Regions : Publishable(region) \in Seq(Rect)
  /\ Attempts \in Nat \ {0}
  /\ Recheck  \in Nat \ {0}
  /\ Ordered  \in BOOLEAN
  /\ MaxFrames \in Nat
  /\ MaxSfRestarts \in Nat
  /\ MaxComposerRestarts \in Nat

NoRect == Box(0, 0, 0, 0)

VARIABLES
  file,      \* the tmpfs file: "absent", "empty" or "sized"
  magic, seq, count, full, rect,   \* struct epdc_damage_shm; magic is set or not
  sf,        \* SurfaceFlinger's progress through epdcDamageMap
  job,       \* the stores SurfaceFlinger is making: the header or a frame
  pending,   \* the numbers of those of them that are not visible yet
  rpc,       \* where the shim is in attach_damage and read_damage
  attached,  \* g_dmg # 0
  tried,     \* g_dmg_tried
  attempt, s1, n, f, out,  \* the locals of read_damage
  loaded,    \* which of the loads of n, f and out have been satisfied
  last,      \* last_dmg_seq
  verdict,   \* what read_damage returned last
  posted,    \* history: number and damage of the last complete publication
  history,   \* history: every publication, by its sequence number
  seen,      \* history: the number of the publication last acted on
  frames, sfRestarts, composerRestarts   \* bounded by the constants

sfVars    == <<file, sf, job, pending, frames>>
shmVars   == <<magic, seq, count, full, rect>>
locals    == <<attempt, s1, loaded, n, f, out>>
readVars  == <<rpc, attached, tried, locals, last, verdict, seen>>
ghostVars == <<posted, history>>
restarts  == <<sfRestarts, composerRestarts>>
vars == <<sfVars, shmVars, readVars, ghostVars, restarts>>

M == INSTANCE DamageMailbox WITH Damages <- {Publishable(g) : g \in Regions}

-----------------------------------------------------------------------------
(* The stores of SurfaceFlinger.  A job is the header, stored once when the *)
(* file is mapped, or the publication of one frame.  Its stores are numbered*)
(* in program order.                                                        *)

Header == [kind |-> "header", rects |-> <<>>]
Frame(region) == [kind |-> "frame", rects |-> Publishable(region)]

FinalStore(j) == IF j.kind = "header" THEN 3 ELSE Len(j.rects) + 3

\* Mutant: the magic is stored first, not last.
HeaderStoreMagicFirst(k) ==
  /\ magic' = (magic \/ k = 0)
  /\ full'  = IF k = 1 THEN 1 ELSE full
  /\ seq'   = IF k = 2 THEN 2 ELSE seq
  /\ count' = IF k = 3 THEN 0 ELSE count
  /\ UNCHANGED rect

\* count = 0, full = 1, seq = 2, and the magic with release order. The version
\* is always stored before the magic and is left out.
HeaderStore(k) ==
  /\ count' = IF k = 0 THEN 0 ELSE count
  /\ full'  = IF k = 1 THEN 1 ELSE full
  /\ seq'   = IF k = 2 THEN 2 ELSE seq
  /\ magic' = (magic \/ k = 3)
  /\ UNCHANGED rect

Flag(b) == IF b THEN 1 ELSE 0

\* Mutant: seq is only moved at the end, never odd while the data changes.
FrameStoreNeverOdd(k, rects) ==
  /\ seq'   = IF k = Len(rects) + 3 THEN seq + 2 ELSE seq
  /\ count' = IF k = 1 THEN Len(rects) ELSE count
  /\ full'  = IF k = 2 THEN Flag(rects = <<>>) ELSE full
  /\ rect'  = IF k \in 3 .. Len(rects) + 2 THEN [rect EXCEPT ![k - 2] = rects[k - 2]]
                                            ELSE rect
  /\ UNCHANGED magic

\* seq odd, count, full, one store per rectangle, seq even.
FrameStore(k, rects) ==
  /\ seq'   = IF k \in {0, Len(rects) + 3} THEN seq + 1 ELSE seq
  /\ count' = IF k = 1 THEN Len(rects) ELSE count
  /\ full'  = IF k = 2 THEN Flag(rects = <<>>) ELSE full
  /\ rect'  = IF k \in 3 .. Len(rects) + 2 THEN [rect EXCEPT ![k - 2] = rects[k - 2]]
                                            ELSE rect
  /\ UNCHANGED magic

\* The store that may become visible next: the oldest one, or without Ordered
\* any, except that the final one is a release and waits for all the others.
MayDrain(k) ==
  /\ k \in pending
  /\ Ordered => \A j \in pending : k <= j
  /\ k = FinalStore(job) => pending = {k}

-----------------------------------------------------------------------------
Init ==
  /\ file = "absent"
  /\ magic = FALSE /\ seq = 0 /\ count = 0 /\ full = 0
  /\ rect = [i \in 1 .. MaxRects |-> NoRect]
  /\ sf = "up" /\ job = Header /\ pending = {}
  /\ rpc = "idle" /\ attached = FALSE /\ tried = Recheck
  /\ attempt = 0 /\ s1 = 0 /\ loaded = {}
  /\ n = 0 /\ f = 0 /\ out = [i \in 1 .. MaxRects |-> NoRect]
  /\ last = 0 /\ verdict = M!Unknown
  /\ posted = [id |-> 0, rects |-> <<>>] /\ history = {} /\ seen = 0
  /\ frames = 0 /\ sfRestarts = 0 /\ composerRestarts = 0

-----------------------------------------------------------------------------
(* SurfaceFlinger. The first frame runs epdcDamageMap, whose result is kept.*)

\* open(O_RDWR | O_CREAT)
SfOpen ==
  /\ sf = "up"
  /\ sf' = "opened"
  /\ file' = IF file = "absent" THEN "empty" ELSE file
  /\ UNCHANGED <<job, pending, frames, shmVars, readVars, ghostVars, restarts>>

\* ftruncate(fd, 4096): new bytes read as zero, existing ones are kept.
SfTruncate ==
  /\ sf = "opened"
  /\ sf' = "truncated"
  /\ file' = "sized"
  /\ UNCHANGED <<job, pending, frames, shmVars, readVars, ghostVars, restarts>>

\* open, ftruncate or mmap fails: this SurfaceFlinger never publishes.
SfMapFails ==
  /\ sf \in {"up", "opened", "truncated"}
  /\ sf' = "nomap"
  /\ UNCHANGED <<file, job, pending, frames, shmVars, readVars, ghostVars, restarts>>

\* mmap, then the stores of the header.
SfMap ==
  /\ sf = "truncated"
  /\ sf' = "mapped"
  /\ job' = Header
  /\ pending' = 0 .. FinalStore(Header)
  /\ UNCHANGED <<file, frames, shmVars, readVars, ghostVars, restarts>>

\* publishEpdcDamage, called by finishFrame: also right after the header.
SfPublish(region) ==
  /\ sf = "mapped" /\ pending = {}
  /\ frames < MaxFrames
  /\ frames' = frames + 1
  /\ job' = Frame(region)
  /\ pending' = 0 .. FinalStore(Frame(region))
  /\ UNCHANGED <<file, sf, shmVars, readVars, ghostVars, restarts>>

\* The store of the final sequence number, which makes a publication current.
SeqStore(j) == IF j.kind = "header" THEN 2 ELSE FinalStore(j)

\* A store becomes visible to the other process. The one that completes a
\* publication makes it the current one.
Drain(k) ==
  /\ MayDrain(k)
  /\ pending' = pending \ {k}
  /\ IF job.kind = "header" THEN HeaderStore(k) ELSE FrameStore(k, job.rects)
  /\ IF k = SeqStore(job)
     THEN /\ posted'  = [id |-> posted.id + 1, rects |-> job.rects]
          /\ history' = history \cup {[seq |-> seq', rects |-> job.rects]}
     ELSE UNCHANGED ghostVars
  /\ UNCHANGED <<file, sf, job, frames, readVars, restarts>>

\* SurfaceFlinger dies and is started again; the file outlives it. The stores
\* it had not made are lost. Without Ordered the pending ones need not be those,
\* and it dies between two publications only.
SfRestart ==
  /\ Ordered \/ pending = {}
  /\ sfRestarts < MaxSfRestarts
  /\ sfRestarts' = sfRestarts + 1
  /\ sf' = "up"
  /\ pending' = {}
  /\ UNCHANGED <<file, job, frames, shmVars, readVars, ghostVars, composerRestarts>>

-----------------------------------------------------------------------------
(* The shim: attach_damage and read_damage in one drmModeAtomicCommit.      *)

Return(v) ==
  /\ rpc' = "idle"
  /\ verdict' = v

\* read_damage with nothing attached: "changed", and no rectangle.
CommitUnattached ==
  /\ Return(M!Unknown)
  /\ UNCHANGED <<attached, locals, last, seen>>

\* read_damage starts with *full = 0 and *changed = 1, which is also what it says
\* when it has nothing better to say.
StartRead ==
  /\ rpc' = "seq" /\ attempt' = 0
  /\ verdict' = M!Unknown

\* attach_damage: a retry every Recheck commits; open and mmap may fail.
BeginCommit ==
  /\ rpc = "idle"
  /\ \/ /\ attached
        /\ StartRead
        /\ UNCHANGED <<attached, tried, s1, loaded, n, f, out, last, seen>>
     \/ /\ ~attached /\ tried + 1 < Recheck
        /\ tried' = tried + 1
        /\ CommitUnattached
     \/ /\ ~attached /\ tried + 1 >= Recheck
        /\ tried' = 0
        /\ \/ CommitUnattached
           \/ /\ file # "absent"
              /\ rpc' = "header"
              /\ UNCHANGED <<attached, locals, last, verdict, seen>>
  /\ UNCHANGED <<sfVars, shmVars, ghostVars, restarts>>

\* The first access to the mapping. A page beyond the end of the file faults.
CheckHeader ==
  /\ rpc = "header"
  /\ \/ /\ file = "empty"
        /\ rpc' = "sigbus"
        /\ UNCHANGED <<attached, tried, locals, last, verdict, seen>>
     \/ /\ file = "sized" /\ magic
        /\ attached' = TRUE
        /\ StartRead
        /\ UNCHANGED <<tried, s1, loaded, n, f, out, last, seen>>
     \/ /\ file = "sized" /\ ~magic
        /\ CommitUnattached
        /\ UNCHANGED tried
  /\ UNCHANGED <<sfVars, shmVars, ghostVars, restarts>>

\* Mutant: one attempt too many.
TryAgainOnceMore ==
  /\ attempt' = attempt + 1
  /\ IF attempt + 1 <= Attempts
     THEN rpc' = "seq" /\ UNCHANGED verdict
     ELSE Return(M!Unknown)

\* Mutant: no limit on the attempts.
TryAgainForever ==
  /\ rpc' = "seq"
  /\ UNCHANGED <<attempt, verdict>>

\* "continue": the next attempt, or the full refresh when there is none left.
TryAgain ==
  /\ attempt' = attempt + 1
  /\ IF attempt + 1 < Attempts
     THEN rpc' = "seq" /\ UNCHANGED verdict
     ELSE Return(M!Unknown)

LoadSeqBefore ==
  /\ rpc = "seq"
  /\ s1' = seq
  /\ loaded' = {}
  /\ \/ seq % 2 = 1 /\ TryAgain
     \/ seq % 2 = 0 /\ rpc' = "load" /\ UNCHANGED <<attempt, verdict>>
  /\ UNCHANGED <<attached, tried, n, f, out, last, seen, sfVars, shmVars, ghostVars, restarts>>

\* The plain loads are numbered 1 (count), 2 (full), and 2 + i (rect[i]).
Wanted == 1 .. 2 + Lower(n, MaxRects)

AllLoaded == {1, 2} \subseteq loaded /\ Wanted \subseteq loaded

Load(k) ==
  /\ rpc \in {"load", "late"}
  /\ k \notin loaded
  /\ IF Ordered THEN 1 .. k - 1 \subseteq loaded ELSE k > 2 => 1 \in loaded
  /\ k > 2 => k \in Wanted
  /\ loaded' = loaded \cup {k}
  /\ n'   = IF k = 1 THEN count ELSE n
  /\ f'   = IF k = 2 THEN full ELSE f
  /\ out' = IF k > 2 THEN [out EXCEPT ![k - 2] = rect[k - 2]] ELSE out
  /\ UNCHANGED <<rpc, attached, tried, attempt, s1, last, verdict, seen,
                 sfVars, shmVars, ghostVars, restarts>>

\* What an accepted read returns.
Reading ==
  M!Verdict("new", f, [i \in 1 .. Lower(n, MaxRects) |-> out[i]])

\* Mutant: the sequence number that was read is not remembered.
AcceptForgets ==
  /\ Return(IF s1 = last THEN M!Unchanged ELSE Reading)
  /\ seen' = IF s1 = last THEN seen ELSE posted.id
  /\ UNCHANGED last

\* Mutant: an early return for "no rectangles" comes before last_dmg_seq is set.
AcceptSkipsEmpty ==
  /\ Return(IF s1 = last THEN M!Unchanged ELSE Reading)
  /\ last' = IF n = 0 THEN last ELSE s1
  /\ seen' = IF s1 = last THEN seen ELSE posted.id

\* Both loads of seq agree and everything between them is there. A number that was read
\* before is not acted on.
Accept ==
  /\ Return(IF s1 = last THEN M!Unchanged ELSE Reading)
  /\ last' = s1
  /\ seen' = IF s1 = last THEN seen ELSE posted.id

LoadSeqAfter ==
  /\ rpc = "load"
  /\ Ordered => AllLoaded
  /\ \/ /\ seq # s1
        /\ TryAgain
        /\ UNCHANGED <<last, seen>>
     \/ /\ seq = s1 /\ AllLoaded
        /\ Accept
        /\ UNCHANGED attempt
     \/ /\ seq = s1 /\ ~AllLoaded
        /\ rpc' = "late"
        /\ UNCHANGED <<attempt, last, verdict, seen>>
  /\ UNCHANGED <<attached, tried, s1, loaded, n, f, out, sfVars, shmVars, ghostVars, restarts>>

\* Only without Ordered: a load satisfied after the second load of seq.
AcceptLate ==
  /\ rpc = "late" /\ AllLoaded
  /\ Accept
  /\ UNCHANGED <<attached, tried, locals, sfVars, shmVars, ghostVars, restarts>>

\* The composer dies and init starts it again, with the shim's statics reset.
ComposerRestart ==
  /\ \/ rpc = "sigbus" /\ UNCHANGED composerRestarts
     \/ /\ composerRestarts < MaxComposerRestarts
        /\ composerRestarts' = composerRestarts + 1
  /\ rpc' = "idle" /\ attached' = FALSE /\ tried' = Recheck /\ last' = 0
  /\ verdict' = M!Unknown /\ seen' = 0
  /\ UNCHANGED <<locals, sfVars, shmVars, ghostVars, sfRestarts>>

-----------------------------------------------------------------------------
Writer ==
  \/ SfOpen
  \/ SfTruncate
  \/ SfMapFails
  \/ SfMap
  \/ \E region \in Regions : SfPublish(region)
  \/ \E k \in 0 .. MaxRects + 3 : Drain(k)

Reader ==
  \/ CheckHeader
  \/ LoadSeqBefore
  \/ \E k \in 1 .. MaxRects + 2 : Load(k)
  \/ LoadSeqAfter
  \/ AcceptLate

Next ==
  \/ Writer
  \/ BeginCommit
  \/ Reader
  \/ SfRestart
  \/ ComposerRestart

Spec == Init /\ [][Next]_vars

\* A commit, once begun, is a thread of the composer that keeps running, and
\* init restarts a composer that died. Nothing is assumed of SurfaceFlinger.
FairSpec ==
  /\ Spec
  /\ WF_vars(Reader)
  /\ WF_vars(rpc = "sigbus" /\ ComposerRestart)

\* The composer also keeps committing ("the atomic commit the composer already
\* makes every frame", src/epdcshim.c).
CommitSpec == FairSpec /\ WF_vars(BeginCommit)

-----------------------------------------------------------------------------
VerdictType ==
  [kind: {"unknown", "unchanged", "new"}, full: {0, 1}, rects: Seq(Rect)]

WriterTypeOK ==
  /\ file \in {"absent", "empty", "sized"}
  /\ magic \in BOOLEAN /\ seq \in Nat /\ count \in 0 .. MaxRects /\ full \in {0, 1}
  /\ rect \in [1 .. MaxRects -> Rect]
  /\ sf \in {"up", "opened", "truncated", "mapped", "nomap"}
  /\ job \in [kind: {"header", "frame"}, rects: Seq(Rect)]
  /\ Len(job.rects) <= MaxRects
  /\ pending \subseteq 0 .. FinalStore(job)
  /\ posted \in [id: Nat, rects: Seq(Rect)]
  /\ history \subseteq [seq: Nat, rects: Seq(Rect)]
  /\ frames \in Nat /\ sfRestarts \in Nat /\ composerRestarts \in Nat

ReaderTypeOK ==
  /\ rpc \in {"idle", "header", "sigbus", "seq", "load", "late"}
  /\ attached \in BOOLEAN
  /\ tried \in 0 .. Recheck
  /\ attempt \in 0 .. Attempts
  /\ rpc \in {"seq", "load", "late"} => attempt < Attempts
  /\ s1 \in Nat
  /\ loaded \subseteq 1 .. MaxRects + 2
  /\ n \in 0 .. MaxRects /\ f \in {0, 1} /\ out \in [1 .. MaxRects -> Rect]
  /\ last \in Nat
  /\ seen \in Nat
  /\ verdict \in VerdictType

\* Every variable has its type; in particular a commit makes at most Attempts
\* attempts at reading, and no array is indexed beyond its MaxRects slots.
TypeOK == WriterTypeOK /\ ReaderTypeOK

\* A torn read is never acted on: what read_damage returns as new is, whole, one
\* publication, the one whose sequence number it read (epdc_damage.h).
NoTornRead ==
  rpc = "idle" /\ verdict.kind = "new" =>
    /\ [seq |-> s1, rects |-> verdict.rects] \in history
    /\ verdict.full = Flag(verdict.rects = <<>>)

\* The shim only attaches to a header that is complete, so it never takes the
\* zeroes of a fresh file for a publication.
AttachedToHeader == attached => magic /\ seq >= 2 /\ file = "sized"

-----------------------------------------------------------------------------
(* The inductive invariant behind NoTornRead and IsMailbox, with Ordered    *)
(* and without a restart of SurfaceFlinger.                                 *)

\* A frame's first store is visible and its last one is not.
Writing == job.kind = "frame" /\ pending # {} /\ 0 \notin pending

\* The sequence number of the current publication.
StableSeq == IF Writing THEN seq - 1 ELSE seq

\* Stores drain in order, and seq is odd exactly while they do.
WriterInv ==
  /\ \A i, j \in 0 .. FinalStore(job) : i \in pending /\ i <= j => j \in pending
  /\ IF sf = "mapped"
     THEN /\ file = "sized"
          /\ job.kind = "header" =>
               /\ seq = IF 2 \in pending THEN 0 ELSE 2
               /\ magic <=> 3 \notin pending
          /\ job.kind = "frame" => magic /\ seq >= 2
     ELSE /\ job.kind = "header" /\ pending = {} /\ ~magic /\ seq = 0
          /\ sf = "truncated" => file = "sized"
  /\ seq % 2 = 1 <=> Writing

\* The mapping holds these rectangles, but for the stores in todo.
Holds(rects, todo) ==
  /\ 1 \notin todo => count = Len(rects)
  /\ 2 \notin todo => full = Flag(rects = <<>>)
  /\ \A i \in 1 .. Len(rects) : i + 2 \notin todo => rect[i] = rects[i]

\* Outside of Writing the mapping holds the current publication, and during it
\* whatever has drained of the next one.
ContentInv ==
  /\ Len(posted.rects) <= MaxRects
  /\ seq = 0 => posted.id = 0
  /\ seq >= 2 =>
       posted.id > 0 /\ [seq |-> StableSeq, rects |-> posted.rects] \in history
  /\ magic /\ ~Writing => Holds(posted.rects, {})
  /\ Writing => Holds(job.rects, pending)
  /\ job.kind = "header" =>
       /\ job.rects = <<>> /\ posted.rects = <<>>
       /\ sf = "mapped" /\ 0 \notin pending => count = 0
       /\ sf = "mapped" /\ 1 \notin pending => full = 1

\* As long as seq has not moved, everything loaded is still what is there.
ReaderInv ==
  /\ rpc # "late"
  /\ rpc \in {"seq", "load"} => attached
  /\ attached => magic
  /\ rpc = "load" =>
       /\ s1 % 2 = 0 /\ s1 <= seq
       /\ s1 = seq =>
            /\ 1 \in loaded => n = count
            /\ 2 \in loaded => f = full
            /\ \A i \in 1 .. MaxRects : i + 2 \in loaded => out[i] = rect[i]

\* last_dmg_seq names the current publication exactly when it was taken.
ChangeInv ==
  /\ last <= StableSeq
  /\ seen <= posted.id
  /\ last = StableSeq <=> seen = posted.id

\* What SurfaceFlinger stores is the header or the damage of some frame.
JobInv == job = Header \/ \E region \in Regions : job = Frame(region)

IInv ==
  /\ TypeOK
  /\ JobInv
  /\ WriterInv
  /\ ContentInv
  /\ ReaderInv
  /\ ChangeInv
  /\ NoTornRead

-----------------------------------------------------------------------------
\* The sequence number is a precise change detector: when read_damage says that
\* nothing changed, the publication it read is the one it returned before.
NoFrameMissed ==
  [][ rpc = "load" /\ rpc' = "idle" /\ verdict' = M!Unchanged
      => posted.id = seen ]_vars

\* The first damage the shim gets from a mapping asks for one full pass, since
\* what is on the panel is not known then.
FullPassFirst == [][ seen = 0 /\ seen' # 0 => verdict'.full = 1 ]_vars

\* The shim survives attaching to the file, whatever state it finds it in.
AttachIsSafe == rpc # "sigbus"

\* Together the two ends implement a one-slot mailbox read atomically.
IsMailbox == M!Spec

\* A read ends, whatever SurfaceFlinger does: it can publish on and on, or die
\* in the middle of a publication and leave the sequence number odd.
ReadEnds == rpc # "idle" ~> rpc = "idle"

\* SurfaceFlinger has set the sequence number and counts on from there.
Counting == sf = "mapped" /\ (job.kind = "header" => SeqStore(job) \notin pending)

\* Once SurfaceFlinger is done publishing, the last publication is acted on, and then
\* remembered, so that it is not acted on again and again; however often SurfaceFlinger was
\* restarted before the shim attached, but not since then.
LastFrameIsSeen ==
  [](attached => Counting) /\ <>[](attached /\ sf = "mapped" /\ pending = {})
    => <>[](seen = posted.id /\ last = seq)

\* The same of a SurfaceFlinger that is restarted at any time.
LastFrameIsAlwaysSeen ==
  <>[](attached /\ sf = "mapped" /\ pending = {}) => <>[](seen = posted.id /\ last = seq)

=============================================================================
