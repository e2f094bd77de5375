------------------------------- MODULE MCRoom -------------------------------
(* A small instance of Room: one connection more than the room seats, and a *)
(* command channel that holds a single prompt, so that a sender waits.      *)
EXTENDS Room, TLC

Symmetry == Permutations(Conns)
=============================================================================
