------------------------------ MODULE MCDrain ------------------------------
(* Small instances of Drain: two keepers, whose turns are counted one by one *)
(* while they begin and end, and one keeper with two prompts in flight, for  *)
(* what must eventually happen.                                              *)
EXTENDS Drain, TLC

DrainSymmetry == Permutations(Keepers) \cup Permutations(Conns)
=============================================================================
