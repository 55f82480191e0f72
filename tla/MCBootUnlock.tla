---------------------------- MODULE MCBootUnlock ----------------------------
(* Two backup directories, which the scripts do not tell apart.              *)
EXTENDS BootUnlock, TLC

CONSTANTS d1, d2

DirSymmetry == Permutations({d1, d2})

\* Of how the last script ended no action takes notice, and the properties of
\* UnlockSafe.cfg only of whether it was for a locked device.
LiveState == <<parts, host, dirs, job, told = "still locked", faults>>

=============================================================================
