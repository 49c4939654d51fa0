------------------------------ MODULE MCTiling ------------------------------
(* Instances of Tiling for TLC.                                            *)
EXTENDS Tiling

MCSize == [x |-> 5, y |-> 3]
MCOtherSize == [x |-> 6, y |-> 3]
MCPercents == {<<1, 2>>, <<2, 3>>}
MCPixs == {-1, 1, 2}

(* What resize_tile tests (keybinding.c:631): a tile "on the total right"  *)
(* moves its left edge, so no resize pushes a tile off its output.         *)
InsideOutput == Layout!Within

Symmetry == Permutations(Tiles)
=============================================================================
