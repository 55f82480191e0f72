----------------------------- MODULE MCEpdcShim -----------------------------
(* A panel of two pixels, and frames that change either of them or both.     *)
EXTENDS EpdcShim

left  == Box(0, 0, 1, 1)
right == Box(1, 0, 2, 1)

FewRegions == {<<left>>, <<right>>}

AsMeant      == [enable |-> TRUE, skipsame |-> TRUE, interval |-> 0, fullevery |-> 0,
                 upd |-> 0, fastwf |-> FALSE, fastms |-> 0]
SwitchedOff  == [AsMeant EXCEPT !.enable = FALSE]
NoSkipping   == [AsMeant EXCEPT !.skipsame = FALSE]
WithThrottle == [AsMeant EXCEPT !.interval = 1]
SlowAndClean == [AsMeant EXCEPT !.interval = 1, !.fullevery = 2, !.fastwf = TRUE, !.fastms = 2]

OneSetting   == {AsMeant}
OneThrottled == {WithThrottle}
SkipSettings == {AsMeant, NoSkipping}
CleanAlways  == [AsMeant EXCEPT !.fullevery = 1]
FourSettings == {AsMeant, SwitchedOff, SlowAndClean, CleanAlways}

\* The state without t and verdict, which a commit sets before it looks at them: with
\* Recheck = 1 no step depends on what they were.
LiveState ==
  <<posted, seen, sfVars, now, request, attached, pend, drmVars, policy, panel, lost>>

\* The hypothesis of ShimBufferIsFrame about the hash, for the objects of the run.
ASSUME MCHashTells == HashTells

=============================================================================
