--------------------------- MODULE DamageMailbox ---------------------------
(***************************************************************************)
(* What the shared damage mapping promises its two users, SurfaceFlinger   *)
(* and the composer shim: a mailbox of one slot.  Posting replaces the     *)
(* slot; looking returns the slot whole, says whether it was seen before,  *)
(* and may at any time give up, which asks for a full refresh and leaves   *)
(* the slot unseen.  Nobody waits for anybody.                             *)
(***************************************************************************)
EXTENDS Naturals, Sequences

CONSTANT Damages     \* what a frame may damage: sequences of rectangles

VARIABLES
  posted,   \* the slot: how many posts there were, and the last one's damage
  seen,     \* the number of the post last taken, 0 for none
  verdict   \* what the last look returned

vars == <<posted, seen, verdict>>

(* What read_damage tells its caller. *)
Verdict(kind, full, rects) == [kind |-> kind, full |-> full, rects |-> rects]

Unknown    == Verdict("unknown", 0, <<>>)      \* no damage known: refresh all
Unchanged  == Verdict("unchanged", 0, <<>>)    \* refresh nothing
New(rects) == Verdict("new", IF rects = <<>> THEN 1 ELSE 0, rects)

Init ==
  /\ posted  = [id |-> 0, rects |-> <<>>]
  /\ seen    = 0
  /\ verdict = Unknown

Post(rects) ==
  /\ posted' = [id |-> posted.id + 1, rects |-> rects]
  /\ UNCHANGED <<seen, verdict>>

Take ==
  /\ posted.id > 0
  /\ verdict' = IF seen = posted.id THEN Unchanged ELSE New(posted.rects)
  /\ seen'    = posted.id
  /\ UNCHANGED posted

GiveUp ==
  /\ verdict' = Unknown
  /\ UNCHANGED <<posted, seen>>

\* The reader is restarted and has seen nothing.
Forget ==
  /\ seen'    = 0
  /\ verdict' = Unknown
  /\ UNCHANGED posted

Next ==
  \/ \E rects \in Damages \cup {<<>>} : Post(rects)
  \/ Take
  \/ GiveUp
  \/ Forget

Spec == Init /\ [][Next]_vars

=============================================================================
