----------------------------- MODULE MCLpResize -----------------------------
(* Two partitions in one group and one in another, with room for five more    *)
(* sectors of the device at the tail.                                         *)
EXTENDS LpResize

Piece(at, n) == [n |-> n, linear |-> TRUE, at |-> at]
Hole(n)      == [n |-> n, linear |-> FALSE, at |-> 0]
Part(name, first, num) == [name |-> name, first |-> first, num |-> num]

MCPartitions == {"system", "product", "odm"}
MCGroupOf    == [p \in MCPartitions |-> IF p = "odm" THEN 2 ELSE 1]
MCGroupMax   == <<13, 0>>
MCWanted     == {2, 4, 5, 7}

MCFirstTables ==
  { [magic |-> TRUE,
     parts |-> <<Part("odm", 0, 1), Part("product", 1, 1), Part("system", 2, 2)>>,
     exts  |-> <<Piece(8, 2), Piece(2, 3), Piece(6, 2), Hole(1)>>],
    [magic |-> TRUE,
     parts |-> <<Part("product", 0, 0), Part("system", 0, 2), Part("odm", 2, 1)>>,
     exts  |-> <<Piece(4, 2), Piece(2, 2), Piece(6, 4)>>] }

=============================================================================
