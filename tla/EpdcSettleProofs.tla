-------------------------- MODULE EpdcSettleProofs --------------------------
(***************************************************************************)
(* Two counters hand out update markers, one to each thread of the shim,   *)
(* and both start at 1. This shows when that does no harm: if settlems,    *)
(* unless it is 0, is no shorter than a commit and the update it sends,    *)
(* and is not turned to 0 between the two looks the settle thread takes at *)
(* it, then no two updates that the panel is carrying out have the same    *)
(* marker, whatever the number of draws and however the threads are        *)
(* scheduled.                                                              *)
(***************************************************************************)
EXTENDS EpdcSettle, TLAPS

LongEnough == \A ms \in SettleTimes : ms = 0 \/ ms >= UpdateTime + CommitTime

Update == [kind: {"draw", "settle"}, marker: Nat, until: Nat]

LEMMA Constants == UpdateTime \in Nat \ {0} /\ CommitTime \in Nat /\ SettleTimes \subseteq Nat
  BY SettleAssumption

LEMMA TypeInit == Init => TypeOK
<1> SUFFICES ASSUME Init PROVE TypeOK
  OBVIOUS
<1>1. /\ now = 1 /\ last_inject = 0 /\ since = 0 /\ drawn = 0 /\ cleaned = 0
      /\ refused = 0 /\ update_marker = 0 /\ marker = 0
  BY DEF Init
<1>2. last_inject \in 0 .. now /\ since \in 0 .. now /\ cleaned \in 0 .. drawn
  BY <1>1
<1>3. /\ running \subseteq Update /\ settle_pending \in BOOLEAN /\ t_settlems \in SettleTimes
      /\ hurried \in BOOLEAN /\ commit = "idle" /\ settle = "none"
  BY DEF Init
<1> QED
  BY <1>1, <1>2, <1>3 DEF TypeOK, Update

LEMMA TypeNext == TypeOK /\ [Next]_vars => TypeOK'
<1> SUFFICES ASSUME TypeOK, [Next]_vars PROVE TypeOK'
  OBVIOUS
<1> USE DEF TypeOK, shared, thread, history
<1>1. ASSUME NEW kind \in {"draw", "settle"}, NEW m \in Nat, Send(kind, m)
      PROVE  running' \subseteq Update
  BY <1>1, SettleAssumption DEF Send, Update
<1>2. CASE Tick
  BY <1>2 DEF Tick
<1>3. CASE Refresh \/ Stamp
  BY <1>3 DEF Refresh, Stamp
<1>4. CASE Flag
  BY <1>4 DEF Flag
<1>5. CASE RealCommit
  <2>1. running' \subseteq Update
    BY <1>1, <1>5 DEF RealCommit
  <2> QED
    BY <1>5, <2>1 DEF RealCommit, Update
<1>6. CASE WakeUp \/ SeePending \/ Clear
  BY <1>6 DEF WakeUp, SeePending, Clear
<1>7. CASE ReadStamp
  BY <1>7 DEF ReadStamp
<1>8. CASE Decide
  <2>1. hurried' \in BOOLEAN /\ settle' \in {"asleep", "quiet"} /\ since' = 0
    BY <1>8 DEF Decide
  <2> QED
    BY <1>8, <2>1 DEF Decide
<1>9. CASE SettleOpenFails
  BY <1>9 DEF SettleOpenFails
<1>10. CASE SettleNow
  <2>1. marker' \in Nat
    BY <1>10 DEF SettleNow
  <2>2. running' \subseteq Update
    BY <1>1, <1>10, <2>1 DEF SettleNow
  <2> QED
    BY <1>10, <2>1, <2>2 DEF SettleNow, Update
<1>11. CASE UNCHANGED vars
  BY <1>11 DEF vars
<1> QED
  BY <1>2, <1>3, <1>4, <1>5, <1>6, <1>7, <1>8, <1>9, <1>10, <1>11 DEF Next, SettleThread

(* The two threads' variables keep their types.                              *)
THEOREM SettleTypeCorrect == Spec => []TypeOK
  BY TypeInit, TypeNext, PTL DEF Spec

-----------------------------------------------------------------------------
(* The lag of the settle marker needs no assumption: it rests on each settle *)
(* clearing the flag that a draw set.                                        *)

LEMMA LagInit == Init => LagInv
  BY DEF Init, LagInv, Flagged

LEMMA LagRealCommit == ASSUME TypeOK, LagInv, RealCommit PROVE LagInv'
<1> DEFINE new == [kind |-> "draw", marker |-> update_marker, until |-> now + UpdateTime]
<1>1. /\ commit = "flagged" /\ commit' = "idle" /\ running' = running \cup {new}
      /\ UNCHANGED <<settle_pending, update_marker, settle, marker>>
  BY DEF RealCommit, shared, thread, Send
<1>2. update_marker \in Nat /\ marker \in Nat /\ running \subseteq Update
  BY DEF TypeOK, Update
<1>3. /\ Flagged = update_marker /\ Flagged' = update_marker
      /\ Submitted = update_marker - 1 /\ Submitted' = update_marker
  BY <1>1 DEF Flagged, Submitted
<1>4. \A u \in running' :
        /\ u.kind = "draw"   => u.marker <= Submitted'
        /\ u.kind = "settle" => u.marker <= marker
  <2> SUFFICES ASSUME NEW u \in running
               PROVE  /\ u.kind = "draw"   => u.marker <= Submitted'
                      /\ u.kind = "settle" => u.marker <= marker
    BY <1>1, <1>2, <1>3
  <2>1. u.marker \in Nat
    BY <1>2 DEF Update
  <2> QED
    BY <1>2, <1>3, <2>1 DEF LagInv
<1> QED
  BY <1>1, <1>3, <1>4 DEF LagInv

LEMMA LagSettleNow == ASSUME TypeOK, LagInv, SettleNow PROVE LagInv'
<1> DEFINE new == [kind |-> "settle", marker |-> marker + 1, until |-> now + UpdateTime]
<1>1. /\ settle = "send" /\ settle' = "asleep"
      /\ marker' = marker + 1 /\ running' = running \cup {new}
      /\ UNCHANGED <<settle_pending, commit, update_marker>>
  BY DEF SettleNow, shared, Send
<1>2. update_marker \in Nat /\ marker \in Nat /\ running \subseteq Update
  BY DEF TypeOK, Update
<1>3. Flagged' = Flagged /\ Submitted' = Submitted /\ Flagged \in Int /\ Submitted \in Int
  BY <1>1, <1>2 DEF Flagged, Submitted
<1>4. \A u \in running' :
        /\ u.kind = "draw"   => u.marker <= Submitted
        /\ u.kind = "settle" => u.marker <= marker + 1
  <2> SUFFICES ASSUME NEW u \in running
               PROVE  /\ u.kind = "draw"   => u.marker <= Submitted
                      /\ u.kind = "settle" => u.marker <= marker + 1
    BY <1>1, <1>2
  <2>1. u.marker \in Nat
    BY <1>2 DEF Update
  <2> QED
    BY <1>2, <2>1 DEF LagInv
<1> QED
  BY <1>1, <1>2, <1>3, <1>4 DEF LagInv

LEMMA LagNext == ASSUME TypeOK, LagInv, [Next]_vars PROVE LagInv'
<1>1. update_marker \in Nat /\ marker \in Nat
  BY DEF TypeOK
<1>2. CASE Tick
  <2>1. /\ running' \subseteq running
        /\ UNCHANGED <<settle_pending, commit, update_marker, settle, marker>>
    BY <1>2 DEF Tick, shared, thread
  <2> QED
    BY <2>1 DEF LagInv, Flagged, Submitted
<1>3. CASE Stamp
  <2>1. /\ commit = "idle" /\ commit' = "stamped" /\ update_marker' = update_marker + 1
        /\ UNCHANGED <<settle_pending, settle, marker, running>>
    BY <1>3 DEF Stamp, thread
  <2>2. /\ Flagged = update_marker /\ Flagged' = update_marker
        /\ Submitted = update_marker /\ Submitted' = update_marker
    BY <1>1, <2>1 DEF Flagged, Submitted
  <2> QED
    BY <2>1, <2>2 DEF LagInv
<1>4. CASE Flag
  <2>1. /\ commit = "stamped" /\ commit' = "flagged" /\ settle_pending' = TRUE
        /\ settle' = settle \/ (settle = "none" /\ settle' \in {"asleep", "failed"})
        /\ UNCHANGED <<update_marker, marker, running>>
    BY <1>4 DEF Flag
  <2>2. /\ Flagged = update_marker - 1 /\ Flagged' = update_marker
        /\ Submitted = update_marker - 1 /\ Submitted' = update_marker - 1
    BY <2>1 DEF Flagged, Submitted
  <2> QED
    BY <1>1, <2>1, <2>2 DEF LagInv
<1>5. CASE Refresh \/ WakeUp \/ SeePending \/ ReadStamp \/ Decide \/ Clear \/ SettleOpenFails
  <2>1. /\ UNCHANGED <<commit, update_marker, marker, running>>
        /\ \/ UNCHANGED <<settle, settle_pending>>
           \/ settle' \in {"on", "asleep"} /\ UNCHANGED settle_pending
           \/ /\ settle \in {"pending", "since"} \/ settle_pending
              /\ settle' \in {"pending", "since", "quiet"} /\ UNCHANGED settle_pending
           \/ settle = "quiet" /\ settle' = "send" /\ settle_pending' = FALSE
    BY <1>5 DEF Refresh, WakeUp, SeePending, ReadStamp, Decide, Clear, SettleOpenFails, shared,
                thread
  <2> QED
    BY <2>1 DEF LagInv, Flagged, Submitted
<1>6. CASE UNCHANGED vars
  BY <1>6 DEF vars, shared, thread, LagInv, Flagged, Submitted
<1> QED
  BY <1>2, <1>3, <1>4, <1>5, <1>6, LagRealCommit, LagSettleNow DEF Next, SettleThread

(* No settle without a draw of its own, so a static screen falls silent: for *)
(* every settlems, also one that is too short or is switched off at run time.*)
THEOREM SettleAnswersDraws == Spec => []SettlesAnswerDraws
<1>1. TypeOK /\ LagInv /\ [Next]_vars => (TypeOK /\ LagInv)'
  BY TypeNext, LagNext
<1>2. TypeOK /\ LagInv => SettlesAnswerDraws
  BY DEF TypeOK, LagInv, Flagged, SettlesAnswerDraws
<1> QED
  BY <1>1, <1>2, TypeInit, LagInit, PTL DEF Spec

-----------------------------------------------------------------------------
LEMMA TimeInit == Init => TimeInv
  BY DEF Init, TimeInv

LEMMA TimeNext == ASSUME TypeOK, TimeInv, [Next]_vars PROVE TimeInv'
<1>1. /\ now \in Nat /\ last_inject \in 0 .. now /\ running \subseteq Update
      /\ UpdateTime \in Nat \ {0} /\ CommitTime \in Nat
  BY Constants DEF TypeOK, Update
<1>2. CASE Tick
  <2>1. /\ running' = {u \in running : now' < u.until} /\ now' = now + 1
        /\ UNCHANGED <<last_inject, commit>>
        /\ commit = "idle" \/ now - last_inject < CommitTime
    BY <1>2 DEF Tick, shared
  <2> QED
    BY <1>1, <2>1 DEF TimeInv
<1>3. CASE Stamp
  <2>1. last_inject' = now /\ UNCHANGED <<now, running>>
    BY <1>3 DEF Stamp
  <2>2. \A u \in running : u.kind = "draw" => u.until <= now + CommitTime + UpdateTime
    BY <1>1 DEF TimeInv, Update
  <2> QED
    BY <1>1, <2>1, <2>2 DEF TimeInv
<1>4. CASE RealCommit
  <2> DEFINE new == [kind |-> "draw", marker |-> update_marker, until |-> now + UpdateTime]
  <2>1. /\ commit = "flagged" /\ running' = running \cup {new} /\ commit' = "idle"
        /\ UNCHANGED <<now, last_inject>>
    BY <1>4 DEF RealCommit, shared, Send
  <2>2. now < new.until /\ new.until <= last_inject + CommitTime + UpdateTime
    BY <1>1, <2>1 DEF TimeInv
  <2> QED
    BY <2>1, <2>2 DEF TimeInv
<1>5. CASE SettleNow
  <2> DEFINE new == [kind |-> "settle", marker |-> marker', until |-> now + UpdateTime]
  <2>1. /\ running' = running \cup {new} /\ UNCHANGED <<now, last_inject, commit>>
    BY <1>5 DEF SettleNow, shared, Send
  <2>2. now < new.until /\ new.kind # "draw"
    BY <1>1
  <2> QED
    BY <2>1, <2>2 DEF TimeInv
<1>6. CASE Flag
  BY <1>6 DEF Flag, TimeInv
<1>7. CASE \/ Refresh \/ WakeUp \/ SeePending \/ ReadStamp \/ Decide \/ Clear \/ SettleOpenFails
           \/ UNCHANGED vars
  <2>1. UNCHANGED <<now, last_inject, commit, running>>
    BY <1>7 DEF Refresh, WakeUp, SeePending, ReadStamp, Decide, Clear, SettleOpenFails, shared, vars
  <2> QED
    BY <2>1 DEF TimeInv
<1> QED
  BY <1>2, <1>3, <1>4, <1>5, <1>6, <1>7 DEF Next, SettleThread

-----------------------------------------------------------------------------
(* What is ahead of the settle marker, and what is over, as long as no settle *)
(* is let through before its time.                                           *)

LEMMA InvInit == Init => IInv
  BY TypeInit, LagInit, TimeInit DEF Init, IInv, AheadInv, MarkersUnique, Unique

LEMMA TickAhead == ASSUME IInv, ~hurried, AheadInv, Tick PROVE AheadInv' /\ Unique'
<1>1. /\ running' \subseteq running
      /\ UNCHANGED <<last_inject, commit, update_marker, settle, since, marker>>
  BY DEF Tick, shared, thread
<1> QED
  BY <1>1 DEF IInv, AheadInv, MarkersUnique, Unique

LEMMA StampAhead == ASSUME IInv, ~hurried, AheadInv, Stamp PROVE AheadInv' /\ Unique'
<1>1. /\ commit = "idle" /\ commit' = "stamped" /\ update_marker' = update_marker + 1
      /\ UNCHANGED <<settle, since, marker, running>>
  BY DEF Stamp, thread
<1>2. update_marker \in Nat /\ marker \in Nat /\ Flagged = update_marker
  BY <1>1 DEF IInv, TypeOK, Flagged
<1>3. marker <= update_marker
  BY <1>2 DEF IInv, LagInv
<1>4. settle \in {"since", "quiet", "send"} => marker < update_marker
  BY <1>2 DEF IInv, LagInv
<1> QED
  BY <1>1, <1>2, <1>3, <1>4 DEF IInv, AheadInv, MarkersUnique, Unique

LEMMA RealCommitAhead == ASSUME IInv, ~hurried, AheadInv, RealCommit PROVE AheadInv' /\ Unique'
<1> DEFINE new == [kind |-> "draw", marker |-> update_marker, until |-> now + UpdateTime]
<1>1. /\ commit = "flagged" /\ commit' = "idle" /\ running' = running \cup {new}
      /\ UNCHANGED <<now, last_inject, update_marker, settle, since, marker>>
  BY DEF RealCommit, shared, thread, Send
<1>2. /\ update_marker \in Nat /\ marker \in Nat /\ now \in Nat /\ last_inject \in Nat
      /\ since \in Nat /\ running \subseteq Update
      /\ UpdateTime \in Nat \ {0} /\ CommitTime \in Nat
  BY Constants DEF IInv, TypeOK, Update
<1>3. Submitted = update_marker - 1
  BY <1>1 DEF Submitted
<1>4. \A u \in running : u.marker \in Nat /\ u.marker < update_marker
  <2> SUFFICES ASSUME NEW u \in running PROVE u.marker \in Nat /\ u.marker < update_marker
    OBVIOUS
  <2>1. u.kind \in {"draw", "settle"} /\ u.marker \in Nat
    BY <1>2 DEF Update
  <2>2. marker < update_marker
    BY <1>1 DEF AheadInv
  <2> QED
    BY <1>2, <1>3, <2>1, <2>2 DEF IInv, LagInv
<1>5. settle = "since" =>
        marker + 1 < new.marker \/ new.until <= since + CommitTime + UpdateTime
  <2>1. now <= last_inject + CommitTime
    BY <1>1 DEF IInv, TimeInv
  <2> QED
    BY <1>1, <1>2, <2>1 DEF AheadInv
<1>6. settle \in {"quiet", "send"} => marker + 1 < new.marker
  BY <1>1 DEF AheadInv
<1>7. AheadInv'
  BY <1>1, <1>5, <1>6 DEF AheadInv
<1>8. Unique'
  BY <1>1, <1>2, <1>4 DEF IInv, MarkersUnique, Unique
<1> QED
  BY <1>7, <1>8

LEMMA ReadStampAhead == ASSUME IInv, ~hurried, AheadInv, ReadStamp PROVE AheadInv' /\ Unique'
<1>1. /\ settle' = "since" /\ since' = last_inject
      /\ UNCHANGED <<last_inject, commit, update_marker, marker, running>>
  BY DEF ReadStamp, shared
<1>2. \A u \in running : u.kind = "draw" => u.until <= last_inject + CommitTime + UpdateTime
  BY DEF IInv, TimeInv
<1> QED
  BY <1>1, <1>2 DEF IInv, AheadInv, MarkersUnique, Unique

(* The quiet time is over: what was drawn before the thread read the time of *)
(* the last draw has been carried out.                                       *)
LEMMA DecideAhead ==
  ASSUME LongEnough, IInv, ~hurried, AheadInv, Decide, ~hurried' PROVE AheadInv' /\ Unique'
<1>1. /\ settle = "since"
      /\ UNCHANGED <<now, last_inject, commit, update_marker, marker, running>>
      /\ settle' = "asleep" \/ (settle' = "quiet" /\ ~(now - since < t_settlems) /\ t_settlems # 0)
  BY DEF Decide, shared
<1>2. CASE settle' = "asleep"
  BY <1>1, <1>2 DEF IInv, AheadInv, MarkersUnique, Unique
<1>3. CASE settle' = "quiet" /\ ~(now - since < t_settlems) /\ t_settlems # 0
  <2>1. /\ now \in Nat /\ since \in Nat /\ last_inject \in Nat /\ t_settlems \in Nat
        /\ UpdateTime \in Nat \ {0} /\ CommitTime \in Nat /\ running \subseteq Update
        /\ t_settlems >= UpdateTime + CommitTime
    BY <1>3, Constants DEF IInv, TypeOK, LongEnough, Update
  <2>2. now >= since + CommitTime + UpdateTime
    BY <1>3, <2>1
  <2>3. commit # "idle" => marker + 1 < update_marker
    <3> SUFFICES ASSUME commit # "idle", last_inject = since PROVE FALSE
      BY <1>1 DEF AheadInv
    <3>1. now <= since + CommitTime
      BY DEF IInv, TimeInv
    <3> QED
      BY <2>1, <2>2, <3>1
  <2>4. ASSUME NEW u \in running, u.kind = "draw" PROVE marker + 1 < u.marker
    <3>1. now < u.until /\ u.until \in Nat
      BY <2>1 DEF IInv, TimeInv, Update
    <3>2. ~(u.until <= since + CommitTime + UpdateTime)
      BY <2>1, <2>2, <3>1
    <3> QED
      BY <1>1, <2>4, <3>2 DEF AheadInv
  <2>5. AheadInv'
    BY <1>1, <1>3, <2>3, <2>4 DEF AheadInv
  <2> QED
    BY <1>1, <2>5 DEF IInv, MarkersUnique, Unique
<1> QED
  BY <1>1, <1>2, <1>3

LEMMA SettleNowAhead == ASSUME IInv, ~hurried, AheadInv, SettleNow PROVE AheadInv' /\ Unique'
<1> DEFINE new == [kind |-> "settle", marker |-> marker + 1, until |-> now + UpdateTime]
<1>1. /\ settle = "send" /\ settle' = "asleep"
      /\ marker' = marker + 1 /\ running' = running \cup {new}
      /\ UNCHANGED <<commit, update_marker>>
  BY DEF SettleNow, shared, Send
<1>2. update_marker \in Nat /\ marker \in Nat /\ running \subseteq Update
  BY DEF IInv, TypeOK, Update
<1>3. \A u \in running : u.marker \in Nat /\ u.marker # marker + 1
  <2> SUFFICES ASSUME NEW u \in running PROVE u.marker \in Nat /\ u.marker # marker + 1
    OBVIOUS
  <2>1. u.kind \in {"draw", "settle"} /\ u.marker \in Nat
    BY <1>2 DEF Update
  <2>2. u.kind = "draw" => marker + 1 < u.marker
    BY <1>1 DEF AheadInv
  <2>3. u.kind = "settle" => u.marker <= marker
    BY DEF IInv, LagInv
  <2> QED
    BY <1>2, <2>1, <2>2, <2>3
<1>4. AheadInv'
  BY <1>1, <1>2 DEF AheadInv
<1>5. Unique'
  BY <1>1, <1>2, <1>3 DEF IInv, MarkersUnique, Unique
<1> QED
  BY <1>4, <1>5

(* The other steps send nothing, take no time and read none.                 *)
LEMMA OtherAhead ==
  ASSUME IInv, ~hurried, AheadInv,
         \/ Refresh \/ Flag \/ WakeUp \/ SeePending \/ Clear \/ SettleOpenFails \/ UNCHANGED vars
  PROVE  AheadInv' /\ Unique'
<1>1. /\ UNCHANGED <<last_inject, update_marker, marker, running>>
      /\ (commit # "idle") <=> (commit' # "idle")
      /\ settle' = "since" => settle = "since" /\ since' = since
      /\ settle' \in {"quiet", "send"} => settle \in {"quiet", "send"}
  BY DEF Refresh, Flag, WakeUp, SeePending, Clear, SettleOpenFails, shared, thread, vars
<1> QED
  BY <1>1 DEF IInv, AheadInv, MarkersUnique, Unique

LEMMA InvNext == ASSUME LongEnough, IInv, [Next]_vars PROVE IInv'
<1>1. TypeOK' /\ LagInv' /\ TimeInv'
  BY TypeNext, LagNext, TimeNext DEF IInv
<1>2. ASSUME ~hurried' PROVE AheadInv' /\ Unique'
  <2>1. ~hurried
    BY <1>2 DEF Next, SettleThread, Tick, Refresh, Stamp, Flag, RealCommit, WakeUp, SeePending,
                ReadStamp, Decide, Clear, SettleNow, SettleOpenFails, history, vars
  <2>2. AheadInv
    BY <2>1 DEF IInv
  <2> QED
    BY <1>2, <2>1, <2>2, TickAhead, StampAhead, RealCommitAhead, ReadStampAhead, DecideAhead,
       SettleNowAhead, OtherAhead DEF Next, SettleThread
<1> QED
  BY <1>1, <1>2 DEF IInv, MarkersUnique

(* Two running updates never share a marker, if each settlems but 0 covers a *)
(* commit and its update, until a settle is let through because settlems     *)
(* became 0 in between: the two counters need no coordination then.          *)
THEOREM SettleMarkersUnique == ASSUME LongEnough PROVE Spec => []MarkersUnique
<1>1. IInv /\ [Next]_vars => IInv'
  BY InvNext
<1>2. IInv => MarkersUnique
  BY DEF IInv
<1> QED
  BY <1>1, <1>2, InvInit, PTL DEF Spec

=============================================================================
