----------------------------- MODULE MCOutputs -----------------------------
(* The symmetry of Outputs for TLC: structs and names are only compared    *)
(* for equality.                                                           *)
EXTENDS Outputs, TLC

Symmetry == Permutations(Structs) \cup Permutations(Monitors)
=============================================================================
