----------------------------- MODULE EpdcSettle -----------------------------
(***************************************************************************)
(* The settle pass of the composer shim (src/epdcshim.c): a thread that    *)
(* polls for the screen having gone quiet, and the commit thread that      *)
(* draws. They share g_settle_pending, last_inject_ms and the tunables,    *)
(* without a lock, and both send updates to the driver.                    *)
(*                                                                         *)
(* Which commits draw is EpdcShim's matter. A draw leaves what it changed  *)
(* in a rough waveform; a settle redraws all there is in the good one.     *)
(***************************************************************************)
EXTENDS Integers

CONSTANTS
  SettleTimes,  \* the values of persist.epdcshim.settlems
  UpdateTime,   \* how long the panel takes to carry out an update
  CommitTime,   \* how long a commit takes, from last_inject_ms = t to the driver
  OpenMayFail,  \* whether opening /dev/ebc may fail
  MaxDraws,     \* bound on the draws
  LastDraw,     \* bound on the time a draw may begin
  MaxTime       \* bound on the clock

ASSUME SettleAssumption ==
  /\ SettleTimes \subseteq Nat
  /\ UpdateTime \in Nat \ {0} /\ CommitTime \in Nat
  /\ MaxDraws \in Nat /\ LastDraw \in Nat /\ MaxTime \in Nat

VARIABLES
  now,               \* the clock
  t_settlems, last_inject, settle_pending,  \* shared by the two threads
  commit,            \* the commit thread: "idle", "stamped" or "flagged"
  update_marker,     \* g_parms[0].update_marker: the draws begun
  settle,            \* the settle thread: "none", "failed", "asleep", and what it has
                     \* got through: "on", "pending", "since", "quiet", "send"
  since,             \* what it read of last_inject_ms
  marker,            \* settle_now's static marker: the settles sent
  running,           \* the updates the panel is carrying out
  drawn, cleaned,    \* history: draws done, and done by the last settle
  refused,           \* history: how often /dev/ebc did not open
  hurried            \* history: a settle was let through by being switched off

shared  == <<t_settlems, last_inject, settle_pending>>
thread  == <<settle, since>>
history == <<drawn, cleaned, refused, hurried>>
vars == <<now, shared, commit, update_marker, thread, marker, running, history>>

\* The first commit reads the tunables before it does anything else.
Init ==
  /\ now = 1
  /\ t_settlems \in SettleTimes /\ last_inject = 0 /\ settle_pending = FALSE
  /\ commit = "idle" /\ update_marker = 0
  /\ settle = "none" /\ since = 0 /\ marker = 0
  /\ running = {}
  /\ drawn = 0 /\ cleaned = 0 /\ refused = 0 /\ hurried = FALSE

-----------------------------------------------------------------------------
\* A commit is over within CommitTime.
Tick ==
  /\ now < MaxTime
  /\ commit = "idle" \/ now - last_inject < CommitTime
  /\ now' = now + 1
  /\ running' = {u \in running : now' < u.until}
  /\ UNCHANGED <<shared, commit, update_marker, thread, marker, history>>

\* The driver takes an update.
Send(kind, m) ==
  running' = running \cup {[kind |-> kind, marker |-> m, until |-> now + UpdateTime]}

-----------------------------------------------------------------------------
(* drmModeAtomicCommit. *)

\* refresh_tunables, at the start of a commit that draws or does not.
Refresh ==
  /\ commit = "idle"
  /\ t_settlems' \in SettleTimes
  /\ UNCHANGED <<now, last_inject, settle_pending, commit, update_marker, thread, marker,
                 running, history>>

\* A commit that draws takes the time.
Stamp ==
  /\ commit = "idle"
  /\ update_marker < MaxDraws /\ now <= LastDraw
  /\ last_inject' = now
  /\ update_marker' = update_marker + 1
  /\ commit' = "stamped"
  /\ UNCHANGED <<now, t_settlems, settle_pending, thread, marker, running, history>>

\* g_settle_pending = 1; the first time, the thread is started. It may fail to
\* start, and is then not tried again.
Flag ==
  /\ commit = "stamped"
  /\ settle_pending' = TRUE
  /\ IF settle = "none" THEN settle' \in {"asleep", "failed"} ELSE UNCHANGED settle
  /\ commit' = "flagged"
  /\ UNCHANGED <<now, t_settlems, last_inject, update_marker, since, marker, running, history>>

RealCommit ==
  /\ commit = "flagged"
  /\ Send("draw", update_marker)
  /\ drawn' = drawn + 1
  /\ commit' = "idle"
  /\ UNCHANGED <<now, shared, update_marker, thread, marker, cleaned, refused, hurried>>

-----------------------------------------------------------------------------
(* settle_thread. It reads the three shared variables one after the other, and  *)
(* t_settlems twice.                                                            *)

WakeUp ==
  /\ settle = "asleep" /\ t_settlems # 0
  /\ settle' = "on"
  /\ UNCHANGED <<now, shared, commit, update_marker, since, marker, running, history>>

SeePending ==
  /\ settle = "on"
  /\ settle' = IF settle_pending THEN "pending" ELSE "asleep"
  /\ UNCHANGED <<now, shared, commit, update_marker, since, marker, running, history>>

ReadStamp ==
  /\ settle = "pending"
  /\ since' = last_inject
  /\ settle' = "since"
  /\ UNCHANGED <<now, shared, commit, update_marker, marker, running, history>>

\* Mutant: the quiet time is not looked at.
DecideAlways ==
  /\ settle = "since"
  /\ settle' = "quiet" /\ since' = 0
  /\ UNCHANGED <<now, shared, commit, update_marker, marker, running, history>>

\* Not quiet for long enough, which no time is if settlems has become 0 by now.
Decide ==
  /\ settle = "since"
  /\ IF now - since < t_settlems
     THEN settle' = "asleep" /\ UNCHANGED hurried
     ELSE settle' = "quiet" /\ hurried' = (hurried \/ t_settlems = 0)
  /\ since' = 0
  /\ UNCHANGED <<now, shared, commit, update_marker, marker, running, drawn, cleaned, refused>>

\* Mutant: g_settle_pending is not reset.
ClearNothing ==
  /\ settle = "quiet"
  /\ settle' = "send"
  /\ UNCHANGED <<now, shared, commit, update_marker, since, marker, running, history>>

\* Mutant: the time is looked at again after the reset, and the settle is put off for
\* another look if the screen is not quiet any more.
ClearThenLook ==
  /\ settle = "quiet"
  /\ settle_pending' = FALSE
  /\ settle' = IF now - last_inject < t_settlems THEN "asleep" ELSE "send"
  /\ UNCHANGED <<now, t_settlems, last_inject, commit, update_marker, since, marker, running,
                 history>>

\* g_settle_pending = 0
Clear ==
  /\ settle = "quiet"
  /\ settle_pending' = FALSE
  /\ settle' = "send"
  /\ UNCHANGED <<now, t_settlems, last_inject, commit, update_marker, since, marker, running,
                 history>>

\* Mutant: the settle is taken to cover the draw on its way to the driver.
SettleAhead ==
  /\ settle = "send"
  /\ marker' = marker + 1
  /\ Send("settle", marker')
  /\ cleaned' = update_marker
  /\ settle' = "asleep"
  /\ UNCHANGED <<now, shared, commit, update_marker, since, drawn, refused, hurried>>

\* settle_now
SettleNow ==
  /\ settle = "send"
  /\ marker' = marker + 1
  /\ Send("settle", marker')
  /\ cleaned' = drawn
  /\ settle' = "asleep"
  /\ UNCHANGED <<now, shared, commit, update_marker, since, drawn, refused, hurried>>

SettleOpenFails ==
  /\ OpenMayFail
  /\ settle = "send"
  /\ refused' = refused + 1
  /\ settle' = "asleep"
  /\ UNCHANGED <<now, shared, commit, update_marker, since, marker, running, drawn, cleaned,
                 hurried>>

SettleThread ==
  \/ WakeUp
  \/ SeePending
  \/ ReadStamp
  \/ Decide
  \/ Clear
  \/ SettleNow
  \/ SettleOpenFails

Next == Tick \/ Refresh \/ Stamp \/ Flag \/ RealCommit \/ SettleThread

Spec == Init /\ [][Next]_vars

\* Time passes, and both threads keep running. How often the screen is drawn to
\* is not assumed.
FairSpec == Spec /\ WF_vars(Tick) /\ WF_vars(Flag) /\ WF_vars(RealCommit)
                 /\ WF_vars(SettleThread)

-----------------------------------------------------------------------------
TypeOK ==
  /\ now \in Nat /\ t_settlems \in SettleTimes /\ last_inject \in 0 .. now
  /\ settle_pending \in BOOLEAN
  /\ commit \in {"idle", "stamped", "flagged"}
  /\ settle \in {"none", "failed", "asleep", "on", "pending", "since", "quiet", "send"}
  /\ since \in 0 .. now
  /\ update_marker \in Nat /\ marker \in Nat
  /\ running \subseteq [kind: {"draw", "settle"}, marker: Nat, until: Nat]
  /\ drawn \in Nat /\ cleaned \in 0 .. drawn /\ refused \in Nat /\ hurried \in BOOLEAN

\* The screen is not redrawn for its own sake: each settle answers a draw that no
\* other settle answered, so a static screen falls silent.
SettlesAnswerDraws == marker <= update_marker

Unique == \A u, v \in running : u.marker = v.marker => u = v

\* "Markers MUST be unique" (settle_now): of the updates the panel is carrying
\* out no two have the same marker, although two counters hand them out; unless the
\* pass was switched off just between the two looks the thread takes at settlems,
\* which lets a settle through at once.
MarkersUnique == ~hurried => Unique

(* Why they are unique, if no settle falls into an update that is running:    *)

Flagged   == IF commit = "stamped" THEN update_marker - 1 ELSE update_marker
Submitted == IF commit = "idle" THEN update_marker ELSE update_marker - 1

\* The settle marker lags behind the draws'.
LagInv ==
  /\ marker <= Flagged
  /\ settle_pending \/ settle = "send" => marker < Flagged
  /\ settle_pending /\ settle = "send" => marker + 1 < Flagged
  /\ settle \in {"pending", "since", "quiet"} => settle_pending
  /\ \A u \in running :
       /\ u.kind = "draw"   => u.marker <= Submitted
       /\ u.kind = "settle" => u.marker <= marker

\* What runs was sent at most UpdateTime ago, a draw at most CommitTime after its
\* time was taken.
TimeInv ==
  /\ commit # "idle" => now <= last_inject + CommitTime
  /\ \A u \in running :
       /\ now < u.until
       /\ u.kind = "draw" => u.until <= last_inject + CommitTime + UpdateTime

\* Once the thread has read the time of the last draw, that draw and those before it
\* are over when it has found the screen quiet, and later ones are ahead of its marker.
AheadInv ==
  /\ commit # "idle" => marker < update_marker
  /\ settle = "since" =>
       /\ commit # "idle" => marker + 1 < update_marker \/ last_inject = since
       /\ \A u \in running : u.kind = "draw" =>
            marker + 1 < u.marker \/ u.until <= since + CommitTime + UpdateTime
  /\ settle \in {"quiet", "send"} =>
       /\ commit # "idle" => marker + 1 < update_marker
       /\ \A u \in running : u.kind = "draw" => marker + 1 < u.marker

IInv == TypeOK /\ LagInv /\ TimeInv /\ (~hurried => AheadInv) /\ MarkersUnique

\* "Deliberately fires only when the screen has been quiet for settlems."
SettlesWhenQuiet ==
  [][ marker' # marker => now - last_inject >= t_settlems ]_vars

\* "Clean once still": when both threads are done, what was drawn last has been
\* redrawn in the good waveform, or will be.
StillIsClean ==
  commit = "idle" /\ settle = "asleep" /\ t_settlems # 0 =>
    settle_pending \/ cleaned = drawn

\* "Clean once still": a draw that leaves its flag up is not forgotten. Once drawing
\* stops, all that was drawn by then is redrawn in the good waveform, unless the pass
\* is switched off, its thread could not be started, or /dev/ebc does not open.
Settles ==
  \A d \in 1 .. MaxDraws, r \in 0 .. MaxDraws :
    (settle_pending /\ commit = "idle" /\ drawn = d /\ refused = r)
      ~> (cleaned >= d \/ refused > r \/ t_settlems = 0 \/ settle = "failed")

=============================================================================
