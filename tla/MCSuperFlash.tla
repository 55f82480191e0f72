---------------------------- MODULE MCSuperFlash ----------------------------
(* A super of six sectors of two units, and images of three sectors, the last  *)
(* one half full, or of two.                                                  *)
EXTENDS SuperFlash

At(phys, len) == [phys |-> phys, len |-> len]

\* In one piece; in two, next to each other or not, in order or not; not aligned.
MCLayouts ==
  { <<At(2, 6)>>, <<At(2, 2), At(4, 4)>>, <<At(2, 2), At(6, 4)>>, <<At(6, 2), At(2, 4)>>,
    <<At(3, 6)>> }

GapLayout == {<<At(2, 2), At(6, 4)>>}

MCGrowth == {At(10, 2)}
NoGrowth == {}

MCImages ==
  {[size |-> 5, version |-> v] : v \in [1 .. 3 -> {"old", "new"}]}
  \cup {[size |-> 4, version |-> <<"old", "old">>], [size |-> 8, version |-> <<"new", "new", "new", "new">>]}

=============================================================================
