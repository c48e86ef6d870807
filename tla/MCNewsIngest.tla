---------------------------- MODULE MCNewsIngest ----------------------------
(***************************************************************************)
(* NewsIngest for TLC: runs of the task are interchangeable, URLs are not  *)
(* (the feed has an order).                                                *)
(***************************************************************************)
EXTENDS NewsIngest, TLC

Symmetry == Permutations(Tasks)
=============================================================================
