---------------------------- MODULE MCPanelRects ----------------------------
(* Every rectangle about a panel of two pixels, in and outside of it, and     *)
(* two that are turned inside out or empty.                                  *)
EXTENDS DamagePath

MCInputRects ==
  {r \in [left: -1 .. 3, top: -1 .. 2, right: -1 .. 3, bottom: -1 .. 2] :
      r.left < r.right /\ r.top < r.bottom}
  \cup {Box(1, 0, 1, 1), Box(2, 1, 0, 0)}

=============================================================================
