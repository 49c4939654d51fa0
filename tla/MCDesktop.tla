----------------------------- MODULE MCDesktop -----------------------------
(* The symmetry of Desktop for TLC: tiles and managed views are only       *)
(* compared for equality.                                                  *)
EXTENDS Desktop

Symmetry == Permutations(Tiles) \cup Permutations(Managed)
=============================================================================
