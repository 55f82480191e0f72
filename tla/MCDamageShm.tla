---------------------------- MODULE MCDamageShm ----------------------------
(* DamageShm on a panel of 2 x 1 pixels and with room for two rectangles:   *)
(* no damage, one rectangle, as many as fit, and one too many.              *)
EXTENDS DamageShm

r1 == Box(0, 0, 1, 1)
r2 == Box(1, 0, 2, 1)
r3 == Box(0, 0, 2, 1)

MCRegions   == {<<>>, <<r1>>, <<r2, r1>>, <<r2, r1, r3>>}
FewRegions  == {<<>>, <<r1>>, <<r2, r1>>}

=============================================================================
