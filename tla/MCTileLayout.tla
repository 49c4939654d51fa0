---------------------------- MODULE MCTileLayout ----------------------------
(* The instance of TileLayout for TLC.                                     *)
EXTENDS TileLayout, TLC

MCSize == [x |-> 4, y |-> 3]

Symmetry == Permutations(Tiles)
=============================================================================
