------------------------------ MODULE MCKeeper ------------------------------
(* Small instances of Keeper: one connection, for a chat whose CLI keeper is   *)
(* reaped, removed or dies and is replaced; and one keeper, to which two       *)
(* connections attach and drop their guards in any order.                      *)
EXTENDS Keeper, TLC

KeeperSymmetry == Permutations(Keepers)
=============================================================================
