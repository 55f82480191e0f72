-------------------------- MODULE DamageShmProofs --------------------------
(***************************************************************************)
(* What DamageShm guarantees for every number of frames, rectangles,       *)
(* attempts and commits. Type correctness holds as it stands; the others   *)
(* need memory accesses in program order, and a SurfaceFlinger that is not *)
(* restarted.                                                              *)
(***************************************************************************)
EXTENDS DamageShm, TLAPS

LEMMA Constants ==
  /\ Attempts \in Nat \ {0} /\ Recheck \in Nat \ {0} /\ MaxRects \in Nat \ {0}
  /\ Ordered \in BOOLEAN
  BY ShmAssumption, PanelAssumption

(* No publication has more rectangles than the array has room for. *)
LEMMA PublishableFits ==
  ASSUME NEW region \in Regions
  PROVE  /\ Publishable(region) \in Seq(Rect)
         /\ Len(Publishable(region)) \in 0 .. MaxRects
<1>1. Publishable(region) \in Seq(Rect)
  BY ShmAssumption
<1>2. CASE Len(region) <= MaxRects
  BY <1>1, <1>2 DEF Publishable
<1>3. CASE ~(Len(region) <= MaxRects)
  BY <1>1, <1>3, PanelAssumption DEF Publishable
<1> QED
  BY <1>2, <1>3

(* The values of the initial state. *)
LEMMA NoRectIsRect == NoRect \in Rect
  BY DEF NoRect, Box, Rect

LEMMA ReadingType ==
  ASSUME TypeOK
  PROVE  /\ Reading \in VerdictType
         /\ Reading.kind = "new"
<1>1. n \in 0 .. MaxRects /\ out \in [1 .. MaxRects -> Rect] /\ f \in {0, 1}
  BY DEF TypeOK, ReaderTypeOK
<1>2. Lower(n, MaxRects) = n
  BY <1>1, PanelAssumption DEF Lower
<1>3. [i \in 1 .. n |-> out[i]] \in Seq(Rect)
  BY <1>1, PanelAssumption
<1> QED
  BY <1>1, <1>2, <1>3 DEF Reading, M!Verdict, VerdictType

LEMMA VerdictTypes ==
  /\ M!Unknown \in VerdictType
  /\ M!Unchanged \in VerdictType
  BY DEF M!Unknown, M!Unchanged, M!Verdict, VerdictType

LEMMA TypeInit == Init => TypeOK
<1> SUFFICES ASSUME Init PROVE TypeOK
  OBVIOUS
<1>1. /\ job \in [kind: {"header", "frame"}, rects: Seq(Rect)]
      /\ Len(job.rects) <= MaxRects
      /\ pending \subseteq 0 .. FinalStore(job)
  BY PanelAssumption DEF Init, Header, FinalStore
<1>2. WriterTypeOK
  <2>1. rect \in [1 .. MaxRects -> Rect] /\ count \in 0 .. MaxRects
    BY NoRectIsRect, PanelAssumption DEF Init
  <2>2. posted \in [id: Nat, rects: Seq(Rect)]
    BY DEF Init
  <2> QED
    BY <1>1, <2>1, <2>2 DEF Init, WriterTypeOK
<1>3. ReaderTypeOK
  <2>1. n \in 0 .. MaxRects /\ f \in {0, 1} /\ out \in [1 .. MaxRects -> Rect]
    BY NoRectIsRect, PanelAssumption DEF Init
  <2>2. verdict \in VerdictType
    BY VerdictTypes DEF Init
  <2>3. tried \in 0 .. Recheck /\ attempt \in 0 .. Attempts
    BY ShmAssumption DEF Init
  <2>4. /\ rpc = "idle"
        /\ attached \in BOOLEAN /\ s1 \in Nat /\ last \in Nat /\ seen \in Nat
        /\ loaded \subseteq 1 .. MaxRects + 2
    BY DEF Init
  <2> QED
    BY <2>1, <2>2, <2>3, <2>4 DEF ReaderTypeOK
<1> QED
  BY <1>2, <1>3 DEF TypeOK

ShmTypeOK ==
  /\ magic \in BOOLEAN /\ seq \in Nat /\ count \in 0 .. MaxRects /\ full \in {0, 1}
  /\ rect \in [1 .. MaxRects -> Rect]

LEMMA StoreType ==
  ASSUME WriterTypeOK, NEW k \in 0 .. MaxRects + 3, Drain(k)
  PROVE  ShmTypeOK'
<1> USE PanelAssumption
<1>1. CASE job.kind = "header"
  BY <1>1 DEF WriterTypeOK, Drain, HeaderStore, ShmTypeOK
<1>2. CASE job.kind # "header"
  <2>1. Len(job.rects) \in 0 .. MaxRects /\ job.rects \in Seq(Rect)
    BY DEF WriterTypeOK
  <2>2. rect' \in [1 .. MaxRects -> Rect]
    <3>1. CASE k \in 3 .. Len(job.rects) + 2
      <4>1. k - 2 \in 1 .. Len(job.rects) /\ job.rects[k - 2] \in Rect
        BY <2>1, <3>1
      <4>2. rect' = [rect EXCEPT ![k - 2] = job.rects[k - 2]]
        BY <1>2, <3>1 DEF Drain, FrameStore
      <4> QED
        BY <2>1, <4>1, <4>2 DEF WriterTypeOK
    <3>2. CASE ~(k \in 3 .. Len(job.rects) + 2)
      BY <1>2, <3>2 DEF WriterTypeOK, Drain, FrameStore
    <3> QED
      BY <3>1, <3>2
  <2>3. /\ seq' = seq \/ seq' = seq + 1
        /\ count' = count \/ count' = Len(job.rects)
    BY <1>2 DEF Drain, FrameStore
  <2>4. magic' \in BOOLEAN /\ full' \in {0, 1}
    BY <1>2 DEF WriterTypeOK, Drain, FrameStore, Flag
  <2> QED
    BY <2>1, <2>2, <2>3, <2>4 DEF ShmTypeOK, WriterTypeOK
<1> QED
  BY <1>1, <1>2

LEMMA WriterTypeNext ==
  ASSUME TypeOK, Writer \/ SfRestart
  PROVE  WriterTypeOK' /\ ReaderTypeOK'
<1> USE DEF TypeOK, sfVars, shmVars, readVars, locals, ghostVars, restarts
<1>1. ASSUME UNCHANGED readVars PROVE ReaderTypeOK'
  BY <1>1 DEF ReaderTypeOK
<1>2. CASE SfOpen \/ SfTruncate \/ SfMapFails \/ SfRestart
  <2>1. /\ file' \in {"empty", "sized", file}
        /\ sf' \in {"opened", "truncated", "nomap", "up"}
        /\ pending' \in {pending, {}}
        /\ sfRestarts' \in {sfRestarts, sfRestarts + 1}
        /\ UNCHANGED <<job, frames, magic, seq, count, full, rect, posted, history,
                      composerRestarts>>
    BY <1>2 DEF SfOpen, SfTruncate, SfMapFails, SfRestart
  <2> QED
    BY <1>1, <1>2, <2>1 DEF SfOpen, SfTruncate, SfMapFails, SfRestart, WriterTypeOK
<1>3. CASE SfMap
  <2>1. Header \in [kind: {"header", "frame"}, rects: Seq(Rect)] /\ Len(Header.rects) <= MaxRects
    BY PanelAssumption DEF Header
  <2> QED
    BY <1>1, <1>3, <2>1 DEF SfMap, WriterTypeOK
<1>4. CASE \E region \in Regions : SfPublish(region)
  <2> PICK region \in Regions : SfPublish(region)
    BY <1>4
  <2>1. /\ Frame(region) \in [kind: {"header", "frame"}, rects: Seq(Rect)]
        /\ Len(Frame(region).rects) <= MaxRects
    BY PublishableFits DEF Frame
  <2> QED
    BY <1>1, <2>1, ShmAssumption DEF SfPublish, WriterTypeOK
<1>5. CASE \E k \in 0 .. MaxRects + 3 : Drain(k)
  <2> PICK k \in 0 .. MaxRects + 3 : Drain(k)
    BY <1>5
  <2>2. ShmTypeOK'
    BY StoreType
  <2>3. posted' \in [id: Nat, rects: Seq(Rect)] /\ history' \subseteq [seq: Nat, rects: Seq(Rect)]
    BY <2>2 DEF Drain, WriterTypeOK, ShmTypeOK
  <2> QED
    BY <1>1, <2>2, <2>3 DEF Drain, WriterTypeOK, ShmTypeOK
<1> QED
  BY <1>2, <1>3, <1>4, <1>5 DEF Writer

(* The reader's steps leave SurfaceFlinger's variables alone. *)
LEMMA ReaderLeavesWriter ==
  ASSUME TypeOK, UNCHANGED <<sfVars, shmVars, ghostVars, sfRestarts>>, composerRestarts' \in Nat
  PROVE  WriterTypeOK'
  BY DEF TypeOK, WriterTypeOK, sfVars, shmVars, ghostVars

LEMMA BeginCommitType == ASSUME TypeOK, BeginCommit PROVE TypeOK'
<1>1. WriterTypeOK'
  BY ReaderLeavesWriter DEF BeginCommit, restarts, TypeOK, WriterTypeOK
<1>2. /\ rpc' \in {"seq", "idle", "header"} /\ attempt' \in {attempt, 0}
      /\ tried' \in 0 .. Recheck
      /\ verdict' \in {verdict, M!Unknown}
      /\ UNCHANGED <<attached, s1, loaded, n, f, out, last, seen>>
  BY Constants DEF BeginCommit, CommitUnattached, StartRead, Return, TypeOK, ReaderTypeOK, locals
<1>3. rpc' = "seq" => attempt' = 0
  BY DEF BeginCommit, CommitUnattached, StartRead, Return
<1>4. ReaderTypeOK'
  BY <1>2, <1>3, Constants, VerdictTypes DEF TypeOK, ReaderTypeOK
<1> QED
  BY <1>1, <1>4 DEF TypeOK

LEMMA CheckHeaderType == ASSUME TypeOK, CheckHeader PROVE TypeOK'
<1>1. WriterTypeOK'
  BY ReaderLeavesWriter DEF CheckHeader, restarts, TypeOK, WriterTypeOK
<1>2. /\ rpc' \in {"seq", "idle", "sigbus"} /\ attempt' \in {attempt, 0}
      /\ verdict' \in {verdict, M!Unknown}
      /\ UNCHANGED <<tried, s1, loaded, n, f, out, last, seen>>
  BY DEF CheckHeader, CommitUnattached, StartRead, Return, locals
<1>3. rpc' = "seq" => attempt' = 0
  BY DEF CheckHeader, CommitUnattached, StartRead, Return
<1>4. attached' \in BOOLEAN
  BY DEF CheckHeader, CommitUnattached, StartRead, TypeOK, ReaderTypeOK
<1>5. ReaderTypeOK'
  BY <1>2, <1>3, <1>4, Constants, VerdictTypes DEF TypeOK, ReaderTypeOK
<1> QED
  BY <1>1, <1>5 DEF TypeOK

LEMMA TryAgainType ==
  ASSUME TypeOK, rpc \in {"seq", "load"}, TryAgain
  PROVE  /\ rpc' \in {"seq", "idle"} /\ attempt' \in 0 .. Attempts /\ verdict' \in VerdictType
         /\ rpc' = "seq" => attempt' < Attempts
  BY Constants, VerdictTypes DEF TryAgain, Return, TypeOK, ReaderTypeOK

LEMMA LoadSeqBeforeType == ASSUME TypeOK, LoadSeqBefore PROVE TypeOK'
<1>1. WriterTypeOK'
  BY ReaderLeavesWriter DEF LoadSeqBefore, restarts, TypeOK, WriterTypeOK
<1>2. /\ rpc' \in {"seq", "load", "idle"} /\ attempt' \in 0 .. Attempts /\ verdict' \in VerdictType
      /\ rpc' \in {"seq", "load"} => attempt' < Attempts
  <2>1. CASE TryAgain
    BY <2>1, TryAgainType DEF LoadSeqBefore
  <2>2. CASE rpc' = "load" /\ UNCHANGED <<attempt, verdict>>
    BY <2>2 DEF LoadSeqBefore, TypeOK, ReaderTypeOK
  <2> QED
    BY <2>1, <2>2 DEF LoadSeqBefore
<1>3. /\ s1' \in Nat /\ loaded' = {}
      /\ UNCHANGED <<attached, tried, n, f, out, last, seen>>
  BY DEF LoadSeqBefore, TypeOK, WriterTypeOK
<1>4. ReaderTypeOK'
  BY <1>2, <1>3 DEF TypeOK, ReaderTypeOK
<1> QED
  BY <1>1, <1>4 DEF TypeOK

LEMMA LoadType == ASSUME TypeOK, NEW k \in 1 .. MaxRects + 2, Load(k) PROVE TypeOK'
<1>1. WriterTypeOK'
  BY ReaderLeavesWriter DEF Load, restarts, TypeOK, WriterTypeOK
<1>2. /\ n' \in 0 .. MaxRects /\ f' \in {0, 1} /\ loaded' \subseteq 1 .. MaxRects + 2
      /\ UNCHANGED <<rpc, attached, tried, attempt, s1, last, verdict, seen>>
  BY DEF Load, TypeOK, ReaderTypeOK, WriterTypeOK
<1>3. out' \in [1 .. MaxRects -> Rect]
  <2>1. CASE k > 2
    <3>1. k - 2 \in 1 .. MaxRects
      BY <2>1, Constants
    <3>2. out' = [out EXCEPT ![k - 2] = rect[k - 2]]
      BY <2>1 DEF Load
    <3> QED
      BY <3>1, <3>2 DEF TypeOK, ReaderTypeOK, WriterTypeOK
  <2>2. CASE ~(k > 2)
    BY <2>2 DEF Load, TypeOK, ReaderTypeOK
  <2> QED
    BY <2>1, <2>2
<1>4. ReaderTypeOK'
  BY <1>2, <1>3 DEF TypeOK, ReaderTypeOK
<1> QED
  BY <1>1, <1>4 DEF TypeOK

LEMMA AcceptType ==
  ASSUME TypeOK, Accept
  PROVE  rpc' = "idle" /\ verdict' \in VerdictType /\ last' \in Nat /\ seen' \in Nat
  BY ReadingType, VerdictTypes DEF Accept, Return, TypeOK, ReaderTypeOK, WriterTypeOK

LEMMA LoadSeqAfterType == ASSUME TypeOK, LoadSeqAfter PROVE TypeOK'
<1>1. WriterTypeOK'
  BY ReaderLeavesWriter DEF LoadSeqAfter, restarts, TypeOK, WriterTypeOK
<1>2. UNCHANGED <<attached, tried, s1, loaded, n, f, out>>
  BY DEF LoadSeqAfter
<1>3. ASSUME TryAgain, UNCHANGED <<last, seen>> PROVE TypeOK'
  <2>1. /\ rpc' \in {"seq", "idle"} /\ attempt' \in 0 .. Attempts /\ verdict' \in VerdictType
        /\ rpc' = "seq" => attempt' < Attempts
    BY <1>3, TryAgainType DEF LoadSeqAfter
  <2> QED
    BY <1>1, <1>2, <1>3, <2>1 DEF TypeOK, ReaderTypeOK
<1>4. CASE Accept /\ UNCHANGED attempt
  BY <1>1, <1>2, <1>4, AcceptType DEF TypeOK, ReaderTypeOK
<1>5. CASE rpc' = "late" /\ UNCHANGED <<attempt, last, verdict, seen>>
  BY <1>1, <1>2, <1>5 DEF LoadSeqAfter, TypeOK, ReaderTypeOK
<1> QED
  BY <1>3, <1>4, <1>5 DEF LoadSeqAfter

LEMMA AcceptLateType == ASSUME TypeOK, AcceptLate PROVE TypeOK'
<1>1. WriterTypeOK'
  BY ReaderLeavesWriter DEF AcceptLate, restarts, TypeOK, WriterTypeOK
<1>2. UNCHANGED <<attached, tried, attempt, s1, loaded, n, f, out>>
  BY DEF AcceptLate, locals
<1> QED
  BY <1>1, <1>2, AcceptType DEF AcceptLate, TypeOK, ReaderTypeOK

LEMMA ComposerRestartType == ASSUME TypeOK, ComposerRestart PROVE TypeOK'
<1>1. composerRestarts' \in Nat
  BY DEF ComposerRestart, TypeOK, WriterTypeOK
<1>2. WriterTypeOK'
  BY <1>1, ReaderLeavesWriter DEF ComposerRestart
<1>3. /\ rpc' = "idle" /\ attached' = FALSE /\ tried' = Recheck /\ last' = 0
      /\ verdict' = M!Unknown /\ seen' = 0
      /\ UNCHANGED <<attempt, s1, loaded, n, f, out>>
  BY DEF ComposerRestart, locals
<1>4. tried' \in 0 .. Recheck /\ verdict' \in VerdictType
  BY <1>3, Constants, VerdictTypes
<1>5. ReaderTypeOK'
  BY <1>3, <1>4 DEF TypeOK, ReaderTypeOK
<1> QED
  BY <1>2, <1>5 DEF TypeOK

LEMMA TypeNext == TypeOK /\ [Next]_vars => TypeOK'
<1> SUFFICES ASSUME TypeOK, [Next]_vars PROVE TypeOK'
  OBVIOUS
<1>1. CASE Writer \/ SfRestart
  BY <1>1, WriterTypeNext DEF TypeOK
<1>2. CASE BeginCommit
  BY <1>2, BeginCommitType
<1>3. CASE Reader
  BY <1>3, CheckHeaderType, LoadSeqBeforeType, LoadType, LoadSeqAfterType, AcceptLateType DEF Reader
<1>4. CASE ComposerRestart
  BY <1>4, ComposerRestartType
<1>5. CASE UNCHANGED vars
  <2>1. UNCHANGED <<sfVars, shmVars, readVars, ghostVars, restarts>>
    BY <1>5 DEF vars
  <2>2. WriterTypeOK'
    BY <2>1, ReaderLeavesWriter DEF restarts, TypeOK, WriterTypeOK
  <2>3. ReaderTypeOK'
    BY <2>1 DEF readVars, locals, TypeOK, ReaderTypeOK
  <2> QED
    BY <2>2, <2>3 DEF TypeOK
<1> QED
  BY <1>1, <1>2, <1>3, <1>4, <1>5 DEF Next

(* Every variable keeps its type, in any memory order and with any number of *)
(* restarts: no commit makes more than Attempts attempts at read_damage, and *)
(* neither process indexes rect[] or out[] beyond its last slot.             *)
THEOREM ShmTypeCorrect == Spec => []TypeOK
  BY TypeInit, TypeNext, PTL DEF Spec

-----------------------------------------------------------------------------
(* From here on memory is accessed in order and SurfaceFlinger stays up.     *)

LEMMA InvInit == Init => IInv
<1> SUFFICES ASSUME Init PROVE IInv
  OBVIOUS
<1>1. TypeOK
  BY TypeInit
<1>2. WriterInv
  BY DEF Init, WriterInv, Writing, Header
<1>3. ContentInv
  BY PanelAssumption DEF Init, ContentInv, Writing, Header
<1>4. ReaderInv
  BY DEF Init, ReaderInv
<1>5. ChangeInv
  BY DEF Init, ChangeInv, StableSeq, Writing, Header
<1>6. NoTornRead /\ JobInv
  BY DEF Init, NoTornRead, M!Unknown, M!Verdict, JobInv
<1> QED
  BY <1>1, <1>2, <1>3, <1>4, <1>5, <1>6 DEF IInv

(* In order, the store that drains is the oldest, and all later ones wait.   *)
LEMMA DrainsOldest ==
  ASSUME Ordered, IInv, NEW k \in 0 .. MaxRects + 3, Drain(k)
  PROVE  /\ k \in pending /\ k \in 0 .. FinalStore(job) /\ sf = "mapped"
         /\ \A j \in 0 .. FinalStore(job) : j \in pending <=> k <= j
         /\ \A j \in 0 .. FinalStore(job) : j \in pending' <=> k < j
         /\ job.kind = "header" => FinalStore(job) = 3
         /\ job.kind = "frame"  => FinalStore(job) = Len(job.rects) + 3
         /\ job.kind \in {"header", "frame"} /\ Len(job.rects) \in Nat
         /\ UNCHANGED <<job, sf, file>>
<1>1. /\ k \in pending /\ \A j \in pending : k <= j
      /\ pending' = pending \ {k}
      /\ UNCHANGED <<job, sf, file>>
  BY DEF Drain, MayDrain
<1>2. /\ pending \subseteq 0 .. FinalStore(job)
      /\ job.kind \in {"header", "frame"} /\ Len(job.rects) \in Nat
  BY DEF IInv, TypeOK, WriterTypeOK
<1>3. FinalStore(job) \in Nat
  BY <1>2 DEF FinalStore
<1>4. \A i, j \in 0 .. FinalStore(job) : i \in pending /\ i <= j => j \in pending
  BY DEF IInv, WriterInv
<1>5. sf = "mapped"
  BY <1>1 DEF IInv, WriterInv
<1>6. \A j \in 0 .. FinalStore(job) : j \in pending <=> k <= j
  BY <1>1, <1>2, <1>4
<1>7. \A j \in 0 .. FinalStore(job) : j \in pending' <=> k < j
  BY <1>1, <1>2, <1>3, <1>6
<1> QED
  BY <1>1, <1>2, <1>5, <1>6, <1>7 DEF FinalStore

(* A step of the reader disturbs nothing the writer's invariants speak of.  *)
LEMMA ReaderKeepsWriterInv ==
  ASSUME IInv, UNCHANGED <<sfVars, shmVars, ghostVars>>
  PROVE  WriterInv' /\ ContentInv' /\ Writing' = Writing /\ StableSeq' = StableSeq
<1>1. UNCHANGED <<file, sf, job, pending, magic, seq, count, full, rect, posted, history>>
  BY DEF sfVars, shmVars, ghostVars
<1>2. Writing' = Writing /\ StableSeq' = StableSeq
  BY <1>1 DEF Writing, StableSeq
<1>3. WriterInv'
  BY <1>1, <1>2 DEF IInv, WriterInv, FinalStore
<1>4. ContentInv'
  BY <1>1, <1>2 DEF IInv, ContentInv, Holds
<1> QED
  BY <1>2, <1>3, <1>4

LEMMA BeginCommitInv ==
  ASSUME IInv, BeginCommit PROVE ReaderInv' /\ ChangeInv' /\ NoTornRead'
<1>1. UNCHANGED <<sfVars, shmVars, ghostVars>>
  BY DEF BeginCommit
<1>2. UNCHANGED <<magic, posted, history, attached, last, seen>> /\ StableSeq' = StableSeq
  BY <1>1, ReaderKeepsWriterInv DEF BeginCommit, CommitUnattached, StartRead, locals, shmVars, ghostVars
<1>3. /\ rpc' \in {"seq", "idle", "header"}
      /\ rpc' = "seq" => attached
      /\ rpc' = "idle" => verdict' = M!Unknown
  BY DEF BeginCommit, CommitUnattached, StartRead, Return
<1>4. ReaderInv'
  BY <1>2, <1>3 DEF IInv, ReaderInv
<1>5. ChangeInv'
  BY <1>2 DEF IInv, ChangeInv
<1>6. NoTornRead'
  BY <1>3 DEF NoTornRead, M!Unknown, M!Verdict
<1> QED
  BY <1>4, <1>5, <1>6

LEMMA CheckHeaderInv ==
  ASSUME IInv, CheckHeader PROVE ReaderInv' /\ ChangeInv' /\ NoTornRead'
<1>1. UNCHANGED <<sfVars, shmVars, ghostVars>>
  BY DEF CheckHeader
<1>2. UNCHANGED <<magic, posted, history, last, seen>> /\ StableSeq' = StableSeq
  BY <1>1, ReaderKeepsWriterInv DEF CheckHeader, CommitUnattached, StartRead, locals, shmVars, ghostVars
<1>3. /\ rpc' \in {"seq", "idle", "sigbus"}
      /\ rpc' = "seq" => attached'
      /\ attached' => magic \/ attached
      /\ rpc' = "idle" => verdict' = M!Unknown
  BY DEF CheckHeader, CommitUnattached, StartRead, Return
<1>4. ReaderInv'
  BY <1>2, <1>3 DEF IInv, ReaderInv
<1>5. ChangeInv'
  BY <1>2 DEF IInv, ChangeInv
<1>6. NoTornRead'
  BY <1>3 DEF NoTornRead, M!Unknown, M!Verdict
<1> QED
  BY <1>4, <1>5, <1>6

LEMMA LoadSeqBeforeInv ==
  ASSUME IInv, LoadSeqBefore PROVE ReaderInv' /\ ChangeInv' /\ NoTornRead'
<1>1. UNCHANGED <<sfVars, shmVars, ghostVars>>
  BY DEF LoadSeqBefore
<1>2. /\ UNCHANGED <<magic, seq, posted, history, attached, last, seen>>
      /\ StableSeq' = StableSeq
  BY <1>1, ReaderKeepsWriterInv DEF LoadSeqBefore, shmVars, ghostVars
<1>3. /\ rpc' \in {"seq", "idle", "load"}
      /\ rpc' = "load" => s1' % 2 = 0
      /\ rpc' = "idle" => verdict' = M!Unknown
      /\ rpc = "seq" /\ s1' = seq /\ loaded' = {}
  BY DEF LoadSeqBefore, TryAgain, Return
<1>4. ReaderInv'
  BY <1>2, <1>3 DEF IInv, ReaderInv, TypeOK, WriterTypeOK
<1>5. ChangeInv'
  BY <1>2 DEF IInv, ChangeInv
<1>6. NoTornRead'
  BY <1>3 DEF NoTornRead, M!Unknown, M!Verdict
<1> QED
  BY <1>4, <1>5, <1>6

LEMMA LoadInv ==
  ASSUME IInv, NEW k \in 1 .. MaxRects + 2, Load(k)
  PROVE  ReaderInv' /\ ChangeInv' /\ NoTornRead'
<1>1. UNCHANGED <<sfVars, shmVars, ghostVars>>
  BY DEF Load
<1>2. /\ UNCHANGED <<magic, seq, count, full, rect, posted, history>>
      /\ UNCHANGED <<rpc, attached, s1, last, seen>>
      /\ StableSeq' = StableSeq
  BY <1>1, ReaderKeepsWriterInv DEF Load, shmVars, ghostVars
<1>3. rpc = "load"
  BY DEF Load, IInv, ReaderInv
<1>4. ASSUME s1 = seq
      PROVE  /\ 1 \in loaded' => n' = count
             /\ 2 \in loaded' => f' = full
             /\ \A i \in 1 .. MaxRects : i + 2 \in loaded' => out'[i] = rect[i]
  <2>1. /\ 1 \in loaded => n = count
        /\ 2 \in loaded => f = full
        /\ \A i \in 1 .. MaxRects : i + 2 \in loaded => out[i] = rect[i]
    BY <1>3, <1>4 DEF IInv, ReaderInv
  <2>2. /\ loaded' = loaded \cup {k}
        /\ n' = IF k = 1 THEN count ELSE n
        /\ f' = IF k = 2 THEN full ELSE f
    BY DEF Load
  <2>3. /\ 1 \in loaded' => n' = count
        /\ 2 \in loaded' => f' = full
    BY <2>1, <2>2
  <2>4. ASSUME NEW i \in 1 .. MaxRects, i + 2 \in loaded' PROVE out'[i] = rect[i]
    <3>1. out \in [1 .. MaxRects -> Rect] /\ MaxRects \in Nat
      BY Constants DEF IInv, TypeOK, ReaderTypeOK
    <3>2. CASE k = i + 2
      <4>1. out' = [out EXCEPT ![k - 2] = rect[k - 2]] /\ k - 2 = i
        BY <3>2 DEF Load
      <4> QED
        BY <3>1, <4>1
    <3>3. CASE k # i + 2
      <4>1. out[i] = rect[i]
        BY <2>1, <2>2, <2>4, <3>3
      <4>2. CASE k > 2
        <5>1. out' = [out EXCEPT ![k - 2] = rect[k - 2]] /\ k - 2 # i
          BY <3>3, <4>2 DEF Load
        <5> QED
          BY <3>1, <4>1, <5>1
      <4>3. CASE ~(k > 2)
        BY <4>1, <4>3 DEF Load
      <4> QED
        BY <4>2, <4>3
    <3> QED
      BY <3>2, <3>3
  <2> QED
    BY <2>3, <2>4
<1>5. ReaderInv'
  BY <1>2, <1>3, <1>4 DEF IInv, ReaderInv
<1>6. ChangeInv'
  BY <1>2 DEF IInv, ChangeInv
<1>7. NoTornRead'
  BY <1>2, <1>3 DEF NoTornRead
<1> QED
  BY <1>5, <1>6, <1>7

(* A read whose two loads of seq agree has loaded the current publication.   *)
LEMMA ReadsThePost ==
  ASSUME IInv, rpc = "load", seq = s1, AllLoaded
  PROVE  /\ Reading = M!New(posted.rects)
         /\ [seq |-> s1, rects |-> posted.rects] \in history
         /\ posted.id > 0
         /\ StableSeq = s1
<1>1. /\ n \in 0 .. MaxRects /\ out \in [1 .. MaxRects -> Rect] /\ MaxRects \in Nat
      /\ posted.rects \in Seq(Rect) /\ seq \in Nat
      /\ job.kind \in {"header", "frame"}
  BY Constants DEF IInv, TypeOK, WriterTypeOK, ReaderTypeOK
<1>2. s1 % 2 = 0 /\ attached /\ magic
  BY DEF IInv, ReaderInv
<1>3. ~Writing /\ StableSeq = s1
  BY <1>1, <1>2 DEF IInv, WriterInv, StableSeq
<1>4. seq >= 2
  <2>1. sf = "mapped"
    BY <1>2 DEF IInv, WriterInv
  <2>2. CASE job.kind = "header"
    <3>1. 3 \notin pending /\ seq = IF 2 \in pending THEN 0 ELSE 2
      BY <1>2, <2>1, <2>2 DEF IInv, WriterInv
    <3>2. 2 \notin pending
      BY <2>2, <3>1 DEF IInv, WriterInv, FinalStore
    <3> QED
      BY <3>1, <3>2
  <2>3. CASE job.kind = "frame"
    BY <2>1, <2>3 DEF IInv, WriterInv
  <2> QED
    BY <1>1, <2>2, <2>3
<1>5. posted.id > 0 /\ [seq |-> s1, rects |-> posted.rects] \in history
  BY <1>3, <1>4 DEF IInv, ContentInv
<1>6. /\ count = Len(posted.rects) /\ full = Flag(posted.rects = <<>>)
      /\ \A i \in 1 .. Len(posted.rects) : rect[i] = posted.rects[i]
  BY <1>2, <1>3 DEF IInv, ContentInv, Holds
<1>7. /\ 1 \in loaded /\ 2 \in loaded
      /\ Lower(n, MaxRects) = n
      /\ \A i \in 1 .. n : i + 2 \in loaded
  BY <1>1 DEF AllLoaded, Wanted, Lower
<1>8. /\ n = Len(posted.rects) /\ f = full
      /\ \A i \in 1 .. n : out[i] = posted.rects[i]
  BY <1>1, <1>6, <1>7 DEF IInv, ReaderInv
<1>9. [i \in 1 .. n |-> out[i]] = posted.rects
  BY <1>1, <1>8
<1>10. f = IF posted.rects = <<>> THEN 1 ELSE 0
  BY <1>6, <1>8 DEF Flag
<1> QED
  BY <1>3, <1>5, <1>7, <1>9, <1>10 DEF Reading, M!New, M!Verdict

LEMMA LoadSeqAfterInv ==
  ASSUME Ordered, IInv, LoadSeqAfter
  PROVE  ReaderInv' /\ ChangeInv' /\ NoTornRead'
<1>1. UNCHANGED <<sfVars, shmVars, ghostVars>>
  BY DEF LoadSeqAfter
<1>2. /\ UNCHANGED <<magic, seq, posted, history, attached, s1>>
      /\ StableSeq' = StableSeq
  BY <1>1, ReaderKeepsWriterInv DEF LoadSeqAfter, shmVars, ghostVars
<1>3. rpc = "load" /\ AllLoaded /\ attached /\ magic
  BY DEF LoadSeqAfter, IInv, ReaderInv
<1>4. ASSUME TryAgain, UNCHANGED <<last, seen>>
      PROVE  ReaderInv' /\ ChangeInv' /\ NoTornRead'
  <2>1. rpc' \in {"seq", "idle"} /\ (rpc' = "idle" => verdict' = M!Unknown)
    BY <1>4 DEF TryAgain, Return
  <2>2. ReaderInv'
    BY <1>2, <1>3, <2>1 DEF IInv, ReaderInv
  <2>3. ChangeInv'
    BY <1>2, <1>4 DEF IInv, ChangeInv
  <2>4. NoTornRead'
    BY <2>1 DEF NoTornRead, M!Unknown, M!Verdict
  <2> QED
    BY <2>2, <2>3, <2>4
<1>5. ASSUME seq = s1, Accept PROVE ReaderInv' /\ ChangeInv' /\ NoTornRead'
  <2>1. /\ Reading = M!New(posted.rects)
        /\ [seq |-> s1, rects |-> posted.rects] \in history
        /\ StableSeq = s1
    BY <1>3, <1>5, ReadsThePost
  <2>2. s1 = last => seen = posted.id
    BY <2>1 DEF IInv, ChangeInv
  <2>3. /\ rpc' = "idle" /\ last' = s1 /\ seen' = posted.id
        /\ verdict' = M!Unchanged \/ verdict' = M!New(posted.rects)
    BY <1>5, <2>1, <2>2 DEF Accept, Return
  <2>4. ReaderInv'
    BY <1>2, <1>3, <2>3 DEF IInv, ReaderInv
  <2>5. ChangeInv'
    BY <1>2, <2>1, <2>3 DEF IInv, ChangeInv, TypeOK, WriterTypeOK, ReaderTypeOK
  <2>6. NoTornRead'
    BY <1>2, <2>1, <2>3 DEF NoTornRead, M!Unchanged, M!New, M!Verdict, Flag
  <2> QED
    BY <2>4, <2>5, <2>6
<1> QED
  BY <1>3, <1>4, <1>5 DEF LoadSeqAfter

LEMMA ComposerRestartInv ==
  ASSUME IInv, ComposerRestart PROVE ReaderInv' /\ ChangeInv' /\ NoTornRead'
<1>1. UNCHANGED <<sfVars, shmVars, ghostVars>>
  BY DEF ComposerRestart
<1>2. UNCHANGED posted /\ StableSeq' = StableSeq
  BY <1>1, ReaderKeepsWriterInv DEF ghostVars
<1>3. rpc' = "idle" /\ ~attached' /\ last' = 0 /\ verdict' = M!Unknown /\ seen' = 0
  BY DEF ComposerRestart
<1>4. ChangeInv'
  <2>1. seq \in Nat /\ seq # 1 /\ posted.id \in Nat
    BY DEF IInv, TypeOK, WriterTypeOK, WriterInv, Writing
  <2>2. Writing => seq >= 2
    BY DEF IInv, WriterInv, Writing
  <2>3. Writing <=> seq % 2 = 1
    BY DEF IInv, WriterInv
  <2>4. StableSeq \in Nat /\ (StableSeq = 0 <=> seq = 0)
    BY <2>1, <2>2, <2>3 DEF StableSeq
  <2>5. posted.id = 0 <=> seq = 0
    BY <2>1 DEF IInv, ContentInv
  <2> QED
    BY <1>2, <1>3, <2>1, <2>4, <2>5 DEF ChangeInv
<1> QED
  BY <1>3, <1>4 DEF ReaderInv, NoTornRead, M!Unknown, M!Verdict

(* As long as memory and history stay the same, SurfaceFlinger's steps cannot *)
(* disturb the reader.                                                        *)
LEMMA SfKeepsReaderInv ==
  ASSUME IInv, UNCHANGED <<shmVars, readVars, ghostVars>>, StableSeq' = StableSeq
  PROVE  ReaderInv' /\ ChangeInv' /\ NoTornRead'
<1>1. /\ UNCHANGED <<magic, seq, count, full, rect, posted, history>>
      /\ UNCHANGED <<rpc, attached, s1, loaded, n, f, out, last, verdict, seen>>
  BY DEF shmVars, readVars, locals, ghostVars
<1>2. ReaderInv'
  BY <1>1 DEF IInv, ReaderInv
<1>3. ChangeInv'
  BY <1>1 DEF IInv, ChangeInv
<1>4. NoTornRead'
  BY <1>1 DEF IInv, NoTornRead
<1> QED
  BY <1>2, <1>3, <1>4

LEMMA SfMappingInv ==
  ASSUME IInv, SfOpen \/ SfTruncate \/ SfMapFails
  PROVE  WriterInv' /\ ContentInv' /\ ReaderInv' /\ ChangeInv' /\ NoTornRead'
<1>1. /\ UNCHANGED <<job, pending, shmVars, readVars, ghostVars>>
      /\ UNCHANGED <<magic, seq, count, full, rect, posted, history>>
      /\ sf # "mapped" /\ sf' # "mapped"
      /\ sf' = "truncated" => file' = "sized"
  BY DEF SfOpen, SfTruncate, SfMapFails, shmVars, ghostVars
<1>2. Writing' = Writing /\ StableSeq' = StableSeq
  BY <1>1 DEF Writing, StableSeq
<1>3. WriterInv'
  BY <1>1, <1>2 DEF IInv, WriterInv, FinalStore
<1>4. ContentInv'
  BY <1>1, <1>2 DEF IInv, ContentInv, Holds
<1> QED
  BY <1>1, <1>2, <1>3, <1>4, SfKeepsReaderInv

LEMMA SfMapInv ==
  ASSUME IInv, SfMap
  PROVE  WriterInv' /\ ContentInv' /\ ReaderInv' /\ ChangeInv' /\ NoTornRead'
<1>1. /\ UNCHANGED <<file, shmVars, readVars, ghostVars>>
      /\ UNCHANGED <<magic, seq, count, full, rect, posted, history>>
      /\ sf = "truncated" /\ sf' = "mapped"
      /\ job' = Header /\ pending' = 0 .. 3
  BY DEF SfMap, FinalStore, Header, shmVars, ghostVars
<1>2. job.kind = "header" /\ pending = {} /\ ~magic /\ seq = 0 /\ file = "sized"
  BY <1>1 DEF IInv, WriterInv
<1>3. ~Writing /\ ~Writing' /\ StableSeq' = StableSeq
  BY <1>1, <1>2 DEF Writing, StableSeq, Header
<1>4. WriterInv'
  BY <1>1, <1>2, <1>3 DEF WriterInv, FinalStore, Header
<1>5. ContentInv'
  BY <1>1, <1>2, <1>3 DEF IInv, ContentInv, Header
<1> QED
  BY <1>1, <1>3, <1>4, <1>5, SfKeepsReaderInv

LEMMA SfPublishInv ==
  ASSUME IInv, NEW region \in Regions, SfPublish(region)
  PROVE  WriterInv' /\ ContentInv' /\ ReaderInv' /\ ChangeInv' /\ NoTornRead'
<1>1. /\ UNCHANGED <<file, sf, shmVars, readVars, ghostVars>>
      /\ UNCHANGED <<magic, seq, count, full, rect, posted, history>>
      /\ sf = "mapped" /\ pending = {}
      /\ job' = Frame(region) /\ pending' = 0 .. FinalStore(Frame(region))
  BY DEF SfPublish, shmVars, ghostVars
<1>2. /\ Frame(region).kind = "frame"
      /\ FinalStore(Frame(region)) = Len(Publishable(region)) + 3
      /\ Len(Publishable(region)) \in Nat
  BY PublishableFits DEF Frame, FinalStore
<1>3. 0 \in pending'
  BY <1>1, <1>2
<1>4. ~Writing /\ ~Writing' /\ StableSeq' = StableSeq
  BY <1>1, <1>3 DEF Writing, StableSeq
<1>5. magic /\ seq >= 2 /\ file = "sized"
  <2>1. job.kind \in {"header", "frame"}
    BY DEF IInv, TypeOK, WriterTypeOK
  <2> QED
    BY <1>1, <2>1 DEF IInv, WriterInv
<1>6. WriterInv'
  <2>1. seq % 2 # 1
    BY <1>4 DEF IInv, WriterInv
  <2>2. job'.kind = "frame" /\ FinalStore(job') = FinalStore(Frame(region))
    BY <1>1, <1>2
  <2> QED
    BY <1>1, <1>4, <1>5, <2>1, <2>2 DEF WriterInv
<1>7. ContentInv'
  BY <1>1, <1>2, <1>4, <1>5 DEF IInv, ContentInv, Holds
<1> QED
  BY <1>1, <1>4, <1>6, <1>7, SfKeepsReaderInv

(* The stores of the header: nobody is attached until the last one.          *)
LEMMA DrainHeaderInv ==
  ASSUME Ordered, IInv, NEW k \in 0 .. MaxRects + 3, Drain(k), job.kind = "header"
  PROVE  WriterInv' /\ ContentInv' /\ ReaderInv' /\ ChangeInv' /\ NoTornRead'
<1>1. /\ k \in pending /\ k \in 0 .. 3 /\ sf = "mapped"
      /\ \A j \in 0 .. 3 : j \in pending <=> k <= j
      /\ \A j \in 0 .. 3 : j \in pending' <=> k < j
      /\ FinalStore(job) = 3
      /\ UNCHANGED <<job, sf, file>>
  BY DrainsOldest
<1>2. /\ UNCHANGED <<rpc, attached, s1, loaded, n, f, out, last, verdict, seen>>
      /\ count' = (IF k = 0 THEN 0 ELSE count)
      /\ full'  = (IF k = 1 THEN 1 ELSE full)
      /\ seq'   = (IF k = 2 THEN 2 ELSE seq)
      /\ rect'  = rect
  BY DEF Drain, HeaderStore, readVars, locals
<1>3. /\ job.rects = <<>> /\ posted.rects = <<>>
      /\ 0 \notin pending => count = 0
      /\ 1 \notin pending => full = 1
  BY <1>1 DEF IInv, ContentInv
<1>4. /\ ~magic /\ seq = (IF k <= 2 THEN 0 ELSE 2) /\ file = "sized"
      /\ posted.id \in Nat /\ seq' = (IF k < 2 THEN 0 ELSE 2)
  BY <1>1, <1>2 DEF IInv, WriterInv, TypeOK, WriterTypeOK
<1>5. ~Writing /\ ~Writing' /\ StableSeq = seq /\ StableSeq' = seq'
  BY <1>1 DEF Writing, StableSeq
<1>5a. magic' <=> k = 3
  <2>1. magic' = (magic \/ k = 3)
    BY DEF Drain, HeaderStore
  <2> QED
    BY <1>4, <2>1, Zenon
<1>6. ~attached /\ rpc \notin {"seq", "load", "late"}
  BY <1>4 DEF IInv, ReaderInv
<1>7. IF k = 2
      THEN /\ posted' = [id |-> posted.id + 1, rects |-> <<>>]
           /\ history' = history \cup {[seq |-> 2, rects |-> <<>>]}
      ELSE UNCHANGED <<posted, history>>
  <2>1. SeqStore(job) = 2
    BY DEF SeqStore
  <2> QED
    BY <1>2, <1>3, <2>1 DEF Drain, ghostVars
<1>8. WriterInv'
  <2>1. \A i, j \in 0 .. FinalStore(job') : i \in pending' /\ i <= j => j \in pending'
    BY <1>1
  <2>2. /\ job'.kind = "header" => /\ seq' = IF 2 \in pending' THEN 0 ELSE 2
                                   /\ magic' <=> 3 \notin pending'
        /\ job'.kind = "header"
    BY <1>5a, <1>1, <1>2, <1>4
  <2>3. ~(seq' % 2 = 1)
    BY <1>4
  <2> QED
    BY <1>1, <1>4, <1>5, <2>1, <2>2, <2>3 DEF WriterInv
<1>9. ContentInv'
  <2>1. posted'.rects = <<>>
    BY <1>3, <1>7
  <2>2. /\ 0 \notin pending' => count' = 0
        /\ 1 \notin pending' => full' = 1
    BY <1>1, <1>2, <1>3
  <2>3. seq' >= 2 => /\ posted'.id > 0
                     /\ [seq |-> seq', rects |-> posted'.rects] \in history'
    <3>1. CASE k = 2
      BY <1>3, <1>4, <1>7, <3>1
    <3>2. CASE k # 2
      BY <1>2, <1>5, <1>7, <3>2 DEF IInv, ContentInv
    <3> QED
      BY <3>1, <3>2
  <2>4. seq' = 0 => posted'.id = 0
    BY <1>4, <1>7 DEF IInv, ContentInv
  <2>5. magic' => count' = 0 /\ full' = 1
    BY <1>5a, <1>1, <2>2
  <2>6. magic' => Holds(posted.rects, {})'
    BY <2>1, <2>5, <1>3 DEF Holds, Flag
  <2> QED
    BY <1>1, <1>3, <1>5, <2>1, <2>2, <2>3, <2>4, <2>6, Constants DEF ContentInv
<1>10. ReaderInv'
  BY <1>2, <1>6 DEF ReaderInv
<1>11. ChangeInv'
  BY <1>2, <1>4, <1>5, <1>7 DEF IInv, ChangeInv, TypeOK, ReaderTypeOK
<1>12. NoTornRead'
  BY <1>2, <1>7 DEF IInv, NoTornRead
<1> QED
  BY <1>8, <1>9, <1>10, <1>11, <1>12

(* The stores of a frame: the sequence number is odd from the first to the   *)
(* last, and a reader that saw it even before sees that it moved.            *)
LEMMA DrainFrameInv ==
  ASSUME Ordered, IInv, NEW k \in 0 .. MaxRects + 3, Drain(k), job.kind = "frame"
  PROVE  WriterInv' /\ ContentInv' /\ ReaderInv' /\ ChangeInv' /\ NoTornRead'
<1> DEFINE final == Len(job.rects) + 3
<1>1. /\ k \in pending /\ k \in 0 .. final /\ sf = "mapped"
      /\ \A j \in 0 .. final : j \in pending <=> k <= j
      /\ \A j \in 0 .. final : j \in pending' <=> k < j
      /\ FinalStore(job) = final /\ SeqStore(job) = final
      /\ final \in Nat /\ final >= 3
      /\ UNCHANGED <<job, sf, file>>
  BY DrainsOldest DEF SeqStore
<1>2. /\ UNCHANGED <<rpc, attached, s1, loaded, n, f, out, last, verdict, seen, magic>>
      /\ seq' = (IF k \in {0, final} THEN seq + 1 ELSE seq)
      /\ count' = (IF k = 1 THEN Len(job.rects) ELSE count)
      /\ full' = (IF k = 2 THEN Flag(job.rects = <<>>) ELSE full)
      /\ rect' = (IF k \in 3 .. final - 1 THEN [rect EXCEPT ![k - 2] = job.rects[k - 2]]
                                         ELSE rect)
  <2>1. job.kind # "header" /\ Len(job.rects) + 2 = final - 1
    BY <1>1
  <2> QED
    BY <2>1 DEF Drain, FrameStore, readVars, locals
<1>3. /\ magic /\ seq >= 2 /\ file = "sized" /\ seq \in Nat
      /\ Len(job.rects) \in 0 .. MaxRects /\ posted.id \in Nat
      /\ rect \in [1 .. MaxRects -> Rect]
  BY <1>1 DEF IInv, WriterInv, TypeOK, WriterTypeOK
<1>4. pending # {} /\ (pending' = {} <=> k = final)
  <2>1. pending \subseteq 0 .. final /\ pending' = pending \ {k}
    BY <1>1 DEF IInv, TypeOK, WriterTypeOK, Drain
  <2>2. k # final => final \in pending'
    BY <1>1
  <2>3. ASSUME k = final PROVE pending' = {}
    <3>1. pending' \subseteq 0 .. final
      BY <2>1
    <3>2. \A j \in 0 .. final : j \notin pending'
      BY <1>1, <2>3
    <3> QED
      BY <3>1, <3>2, Zenon
  <2> QED
    BY <1>1, <2>2, <2>3
<1>5. /\ Writing <=> k # 0
      /\ Writing' <=> k # final
  BY <1>1, <1>4 DEF Writing
<1>6. seq % 2 = 1 <=> Writing
  BY DEF IInv, WriterInv
<1>7. seq' \in Nat /\ (seq' % 2 = 1 <=> Writing')
  BY <1>1, <1>2, <1>3, <1>5, <1>6
<1>8. WriterInv'
  <2>1. \A i, j \in 0 .. FinalStore(job') : i \in pending' /\ i <= j => j \in pending'
    BY <1>1
  <2>2. seq' >= 2
    BY <1>2, <1>3
  <2> QED
    BY <1>1, <1>2, <1>3, <1>7, <2>1, <2>2 DEF WriterInv
<1>9. IF k = final
      THEN /\ posted' = [id |-> posted.id + 1, rects |-> job.rects]
           /\ history' = history \cup {[seq |-> seq', rects |-> job.rects]}
           /\ StableSeq' = StableSeq + 2
      ELSE UNCHANGED <<posted, history>> /\ StableSeq' = StableSeq
  <2>1. IF k = final
        THEN /\ posted' = [id |-> posted.id + 1, rects |-> job.rects]
             /\ history' = history \cup {[seq |-> seq', rects |-> job.rects]}
        ELSE UNCHANGED <<posted, history>>
    BY <1>1 DEF Drain, ghostVars
  <2>2. StableSeq' = IF k = final THEN StableSeq + 2 ELSE StableSeq
    BY <1>1, <1>2, <1>3, <1>5 DEF StableSeq
  <2> QED
    BY <2>1, <2>2
<1>10. StableSeq \in Nat /\ (k = final => StableSeq' = seq')
  BY <1>1, <1>2, <1>3, <1>5 DEF StableSeq
<1>11. ASSUME k # 0 PROVE Holds(job.rects, pending) /\ Holds(job.rects, pending)'
  <2>1. Holds(job.rects, pending)
    BY <1>5, <1>11 DEF IInv, ContentInv
  <2>2. 1 \notin pending' => count' = Len(job.rects)
    BY <1>1, <1>2, <2>1 DEF Holds
  <2>3. 2 \notin pending' => full' = Flag(job.rects = <<>>)
    BY <1>1, <1>2, <2>1 DEF Holds
  <2>4. ASSUME NEW i \in 1 .. Len(job.rects), i + 2 \notin pending'
        PROVE  rect'[i] = job.rects[i]
    <3>1. i + 2 <= k /\ i \in 1 .. MaxRects
      <4>1. i + 2 \in 0 .. final /\ i \in 1 .. MaxRects /\ i + 2 \in Int /\ k \in Int
        BY <1>3, Constants
      <4>2. ~(k < i + 2)
        BY <1>1, <2>4, <4>1
      <4> QED
        BY <4>1, <4>2
    <3>2. CASE k = i + 2
      <4>1. k \in 3 .. final - 1 /\ k - 2 = i
        BY <1>1, <3>2
      <4>2. rect' = [rect EXCEPT ![i] = job.rects[i]]
        BY <1>2, <4>1
      <4> QED
        BY <1>3, <3>1, <4>2
    <3>3. CASE k # i + 2
      <4>1. rect[i] = job.rects[i]
        BY <1>1, <2>1, <3>1, <3>3 DEF Holds
      <4>2. rect'[i] = rect[i]
        BY <1>1, <1>2, <1>3, <3>1, <3>3
      <4> QED
        BY <4>1, <4>2
    <3> QED
      BY <3>2, <3>3
  <2>5. UNCHANGED job
    BY <1>1
  <2> QED
    BY <2>1, <2>2, <2>3, <2>4, <2>5 DEF Holds
<1>12. ContentInv'
  <2>1. Len(posted'.rects) <= MaxRects
    BY <1>3, <1>9 DEF IInv, ContentInv
  <2>2. seq' # 0
    BY <1>2, <1>3
  <2>3. posted'.id > 0 /\ [seq |-> StableSeq', rects |-> posted'.rects] \in history'
    <3>1. CASE k = final
      BY <1>3, <1>9, <1>10, <3>1
    <3>2. CASE k # final
      BY <1>3, <1>9, <3>2 DEF IInv, ContentInv
    <3> QED
      BY <3>1, <3>2
  <2>4. ~Writing' => Holds(posted.rects, {})'
    <3> SUFFICES ASSUME k = final PROVE Holds(posted.rects, {})'
      BY <1>5
    <3>1. Holds(job.rects, pending)'
      BY <1>1, <1>11
    <3>2. posted'.rects = job'.rects /\ pending' = {}
      BY <1>1, <1>4, <1>9
    <3> QED
      BY <3>1, <3>2 DEF Holds
  <2>5. Writing' => Holds(job.rects, pending)'
    <3>1. CASE k = 0
      BY <1>1, <3>1 DEF Holds
    <3>2. CASE k # 0
      BY <1>1, <1>11, <3>2 DEF Holds
    <3> QED
      BY <3>1, <3>2
  <2> QED
    BY <1>1, <2>1, <2>2, <2>3, <2>4, <2>5 DEF ContentInv
<1>13. ReaderInv'
  <2>1. ASSUME rpc = "load" PROVE s1 % 2 = 0 /\ s1 <= seq' /\ s1 # seq'
    <3>1. s1 % 2 = 0 /\ s1 <= seq /\ s1 \in Nat
      BY <2>1 DEF IInv, ReaderInv, TypeOK, ReaderTypeOK
    <3> QED
      BY <1>1, <1>2, <1>3, <1>5, <1>6, <3>1
  <2> QED
    BY <1>2, <2>1 DEF IInv, ReaderInv
<1>14. ChangeInv'
  <2>1. last \in Nat /\ seen \in Nat
    BY DEF IInv, TypeOK, ReaderTypeOK
  <2> QED
    BY <1>2, <1>3, <1>9, <1>10, <2>1 DEF IInv, ChangeInv
<1>15. NoTornRead'
  BY <1>2, <1>9 DEF IInv, NoTornRead
<1> QED
  BY <1>8, <1>12, <1>13, <1>14, <1>15

LEMMA JobNext == JobInv /\ [Next]_vars => JobInv'
<1> SUFFICES ASSUME JobInv, [Next]_vars PROVE JobInv'
  OBVIOUS
<1>1. CASE UNCHANGED job
  BY <1>1 DEF JobInv
<1>2. CASE SfMap
  BY <1>2 DEF SfMap, JobInv
<1>3. CASE \E region \in Regions : SfPublish(region)
  BY <1>3 DEF SfPublish, JobInv
<1>4. CASE SfOpen \/ SfTruncate \/ SfMapFails \/ SfRestart
  BY <1>1, <1>4 DEF SfOpen, SfTruncate, SfMapFails, SfRestart
<1>5. CASE \E k \in 0 .. MaxRects + 3 : Drain(k)
  BY <1>1, <1>5 DEF Drain
<1>6. CASE UNCHANGED sfVars
  BY <1>1, <1>6 DEF sfVars
<1>7. BeginCommit \/ Reader \/ ComposerRestart => UNCHANGED sfVars
  BY DEF BeginCommit, Reader, CheckHeader, LoadSeqBefore, Load, LoadSeqAfter, AcceptLate,
         ComposerRestart
<1> QED
  BY <1>2, <1>3, <1>4, <1>5, <1>6, <1>7 DEF Next, Writer, vars

LEMMA InvNext ==
  ASSUME Ordered, MaxSfRestarts = 0, IInv, [Next]_vars
  PROVE  IInv'
<1>1. TypeOK' /\ JobInv'
  BY TypeNext, JobNext DEF IInv
<1>2. ASSUME WriterInv' /\ ContentInv' /\ ReaderInv' /\ ChangeInv' /\ NoTornRead' PROVE IInv'
  BY <1>1, <1>2 DEF IInv
<1>3. CASE SfOpen \/ SfTruncate \/ SfMapFails \/ SfMap
  BY <1>2, <1>3, SfMappingInv, SfMapInv
<1>4. CASE \E region \in Regions : SfPublish(region)
  BY <1>2, <1>4, SfPublishInv
<1>5. CASE \E k \in 0 .. MaxRects + 3 : Drain(k)
  <2> PICK k \in 0 .. MaxRects + 3 : Drain(k)
    BY <1>5
  <2>1. job.kind \in {"header", "frame"}
    BY DEF IInv, TypeOK, WriterTypeOK
  <2> QED
    BY <1>2, <2>1, DrainHeaderInv, DrainFrameInv
<1>6. ASSUME UNCHANGED <<sfVars, shmVars, ghostVars>>, ReaderInv' /\ ChangeInv' /\ NoTornRead'
      PROVE  IInv'
  BY <1>2, <1>6, ReaderKeepsWriterInv
<1>7. CASE BeginCommit
  BY <1>6, <1>7, BeginCommitInv DEF BeginCommit
<1>8. CASE CheckHeader
  BY <1>6, <1>8, CheckHeaderInv DEF CheckHeader
<1>9. CASE LoadSeqBefore
  BY <1>6, <1>9, LoadSeqBeforeInv DEF LoadSeqBefore
<1>10. CASE \E k \in 1 .. MaxRects + 2 : Load(k)
  BY <1>6, <1>10, LoadInv DEF Load
<1>11. CASE LoadSeqAfter
  BY <1>6, <1>11, LoadSeqAfterInv DEF LoadSeqAfter
<1>12. CASE AcceptLate
  BY <1>12 DEF AcceptLate, IInv, ReaderInv
<1>13. CASE ComposerRestart
  BY <1>6, <1>13, ComposerRestartInv DEF ComposerRestart
<1>14. CASE SfRestart
  BY <1>14 DEF SfRestart, IInv, TypeOK, WriterTypeOK
<1>15. CASE UNCHANGED vars
  <2>1. UNCHANGED <<sfVars, shmVars, readVars, ghostVars>>
    BY <1>15 DEF vars
  <2>2. StableSeq' = StableSeq
    BY <2>1, ReaderKeepsWriterInv
  <2> QED
    BY <1>6, <2>1, <2>2, SfKeepsReaderInv
<1> QED
  BY <1>3, <1>4, <1>5, <1>7, <1>8, <1>9, <1>10, <1>11, <1>12, <1>13, <1>14, <1>15
     DEF Next, Writer, Reader

LEMMA Invariance == ASSUME Ordered, MaxSfRestarts = 0 PROVE Spec => []IInv
<1>1. IInv /\ [Next]_vars => IInv'
  BY InvNext
<1> QED
  BY <1>1, InvInit, PTL DEF Spec

(* What read_damage reports as new is one whole publication, never parts of  *)
(* two: the seqlock of read_damage and publishEpdcDamage works, provided that*)
(* both run as written, in program order, and seq never starts over.         *)
THEOREM ShmNoTornRead ==
  ASSUME Ordered, MaxSfRestarts = 0 PROVE Spec => []NoTornRead
<1>1. IInv => NoTornRead
  BY DEF IInv
<1> QED
  BY <1>1, Invariance, PTL

(* attach_damage only ever attaches to a header that SurfaceFlinger finished.*)
THEOREM ShmAttachedToHeader ==
  ASSUME Ordered, MaxSfRestarts = 0 PROVE Spec => []AttachedToHeader
<1>1. ASSUME IInv PROVE AttachedToHeader
  <2> SUFFICES ASSUME attached PROVE magic /\ seq >= 2 /\ file = "sized"
    BY DEF AttachedToHeader
  <2>1. magic /\ job.kind \in {"header", "frame"}
    BY <1>1 DEF IInv, ReaderInv, TypeOK, WriterTypeOK
  <2>2. sf = "mapped" /\ file = "sized"
    BY <1>1, <2>1 DEF IInv, WriterInv
  <2>3. CASE job.kind = "frame"
    BY <1>1, <2>1, <2>2, <2>3 DEF IInv, WriterInv
  <2>4. CASE job.kind = "header"
    <3>1. 3 \notin pending /\ seq = IF 2 \in pending THEN 0 ELSE 2
      BY <1>1, <2>1, <2>2, <2>4 DEF IInv, WriterInv
    <3>2. 2 \notin pending
      BY <1>1, <2>4, <3>1 DEF IInv, WriterInv, FinalStore
    <3> QED
      BY <2>1, <2>2, <3>1, <3>2
  <2> QED
    BY <2>1, <2>3, <2>4
<1> QED
  BY <1>1, Invariance, PTL

(* Which step of the mailbox each step of the two processes is.              *)
LEMMA DrainIsPost ==
  ASSUME IInv, NEW k \in 0 .. MaxRects + 3, Drain(k) PROVE [M!Next]_(M!vars)
<1>1. UNCHANGED <<seen, verdict>>
  BY DEF Drain, readVars
<1>2. CASE k = SeqStore(job)
  <2>1. posted' = [id |-> posted.id + 1, rects |-> job.rects]
    BY <1>2 DEF Drain
  <2>2. job.rects \in {Publishable(region) : region \in Regions} \cup {<<>>}
    <3>1. CASE job = Header
      BY <3>1 DEF Header
    <3>2. CASE \E region \in Regions : job = Frame(region)
      BY <3>2 DEF Frame
    <3> QED
      BY <3>1, <3>2 DEF IInv, JobInv
  <2>3. M!Post(job.rects)
    BY <1>1, <2>1 DEF M!Post
  <2> QED
    BY <2>2, <2>3 DEF M!Next
<1>3. CASE k # SeqStore(job)
  BY <1>1, <1>3 DEF Drain, ghostVars, M!vars
<1> QED
  BY <1>2, <1>3

LEMMA GivesUp ==
  ASSUME UNCHANGED <<posted, seen>>, verdict' = M!Unknown \/ UNCHANGED verdict
  PROVE  [M!Next]_(M!vars)
  BY DEF M!Next, M!GiveUp, M!vars

LEMMA AcceptIsTake ==
  ASSUME Ordered, IInv, rpc = "load", seq = s1, AllLoaded, Accept, UNCHANGED ghostVars
  PROVE  [M!Next]_(M!vars)
<1>1. Reading = M!New(posted.rects) /\ posted.id > 0 /\ StableSeq = s1
  BY ReadsThePost
<1>2. s1 = last <=> seen = posted.id
  BY <1>1 DEF IInv, ChangeInv
<1>3. M!Take
  BY <1>1, <1>2 DEF Accept, Return, M!Take, ghostVars
<1> QED
  BY <1>3 DEF M!Next

LEMMA MailboxNext ==
  ASSUME Ordered, MaxSfRestarts = 0, IInv, [Next]_vars
  PROVE  [M!Next]_(M!vars)
<1>1. ASSUME UNCHANGED <<readVars, ghostVars>> PROVE [M!Next]_(M!vars)
  BY <1>1 DEF readVars, ghostVars, M!vars
<1>2. CASE SfOpen \/ SfTruncate \/ SfMapFails \/ SfMap \/ SfRestart
  BY <1>1, <1>2 DEF SfOpen, SfTruncate, SfMapFails, SfMap, SfRestart
<1>3. CASE \E region \in Regions : SfPublish(region)
  BY <1>1, <1>3 DEF SfPublish
<1>4. CASE \E k \in 0 .. MaxRects + 3 : Drain(k)
  BY <1>4, DrainIsPost
<1>5. CASE BeginCommit \/ CheckHeader
  BY <1>5, GivesUp DEF BeginCommit, CheckHeader, CommitUnattached, StartRead, Return, ghostVars
<1>6. CASE LoadSeqBefore
  BY <1>6, GivesUp DEF LoadSeqBefore, TryAgain, Return, ghostVars
<1>7. CASE \E k \in 1 .. MaxRects + 2 : Load(k)
  BY <1>7, GivesUp DEF Load, ghostVars
<1>8. CASE LoadSeqAfter
  <2>1. rpc = "load" /\ AllLoaded /\ UNCHANGED ghostVars
    BY <1>8 DEF LoadSeqAfter
  <2>2. CASE TryAgain /\ UNCHANGED <<last, seen>>
    BY <2>1, <2>2, GivesUp DEF TryAgain, Return, ghostVars
  <2>3. CASE seq = s1 /\ Accept
    BY <2>1, <2>3, AcceptIsTake
  <2> QED
    BY <1>8, <2>1, <2>2, <2>3 DEF LoadSeqAfter
<1>9. CASE AcceptLate
  BY <1>9 DEF AcceptLate, IInv, ReaderInv
<1>10. CASE ComposerRestart
  BY <1>10 DEF ComposerRestart, M!Next, M!Forget, ghostVars
<1>11. CASE UNCHANGED vars
  BY <1>1, <1>11 DEF vars
<1> QED
  BY <1>2, <1>3, <1>4, <1>5, <1>6, <1>7, <1>8, <1>9, <1>10, <1>11 DEF Next, Writer, Reader

(* Word by word accesses from two processes, without a lock, amount to a      *)
(* mailbox whose slot is written and read in single steps.                    *)
THEOREM ShmIsMailbox ==
  ASSUME Ordered, MaxSfRestarts = 0 PROVE Spec => IsMailbox
<1>1. Init => M!Init
  BY DEF Init, M!Init
<1>2. IInv /\ [Next]_vars => [M!Next]_(M!vars)
  BY MailboxNext
<1> QED
  BY <1>1, <1>2, Invariance, PTL DEF Spec, IsMailbox, M!Spec
=============================================================================
