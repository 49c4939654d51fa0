------------------------------- MODULE WlList -------------------------------
(***************************************************************************)
(* The doubly linked lists of libwayland (struct wl_list), in which the    *)
(* compositor keeps its outputs and the views of a workspace.  A list is   *)
(* the sequence of its elements from the head on; an element is linked in  *)
(* one list at most, so that it occurs once in it.                         *)
(***************************************************************************)
EXTENDS Integers, Sequences, SequencesExt

(* Where an element is in a list.                                          *)
IndexIn(seq, e) == CHOOSE i \in DOMAIN seq : seq[i] = e

(* Unlinks an element from whatever list it is in.                         *)
wl_list_remove(seq, e) ==
  IF e \in ToSet(seq) THEN RemoveAt(seq, IndexIn(seq, e)) ELSE seq
=============================================================================
