--------------------------- MODULE MCManualClean ---------------------------
(***************************************************************************)
(* Instances of ManualClean for TLC: straight moves and a pivot, which has *)
(* one wheel in each direction.                                            *)
(***************************************************************************)
EXTENDS ManualClean

Straight == {<<1, 1>>, <<-1, -1>>}
AndPivot == Straight \cup {<<1, -1>>}
ForwardOnly == {<<1, 1>>}
=============================================================================
