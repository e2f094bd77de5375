------------------------------ MODULE MCAccess ------------------------------
(***************************************************************************)
(* Model-checking instance for the guest machine: who is let in there, and *)
(* how its owner starts, stops and drains it.  The two share no state here *)
(* and are explored one at a time.                                         *)
(***************************************************************************)
EXTENDS Seats, Guest, TLC

VARIABLE part  \* the part whose behaviour this is

Init ==
  /\ part \in {"seats", "guest"}
  /\ SeatsInit /\ GuestInit

Next ==
  /\ UNCHANGED part
  /\ \/ part = "seats" /\ SeatsNext /\ UNCHANGED guestVars
     \/ part = "guest" /\ GuestNext /\ UNCHANGED seatVars

vars == <<part, seatVars, guestVars>>
Spec == Init /\ [][Next]_vars

Turned(S, b) == CHOOSE p \in Permutations(S) : b <=> \E x \in S : p[x] # x

\* Of each part two kinds of participants can be exchanged; one permutation moves a
\* kind of both parts, since only one of them has moved at all.
AccessSymmetry ==
  {Turned(Codes, b) @@ Turned(Editors, c) @@ Turned(Admins, b) @@ Turned(GuestKeepers, c) :
     b, c \in BOOLEAN}
=============================================================================
