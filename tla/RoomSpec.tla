------------------------------ MODULE RoomSpec ------------------------------
(***************************************************************************)
(* What a session's rooms promise about the wheel, stated without the      *)
(* sockets, their handlers, the role frames and the keepers: people come   *)
(* and go, fall idle and act; one of those present may hold the wheel, and *)
(* keeps it until it lets go, leaves or is idle.  Who wants to say         *)
(* something is cleared first and says it later; where roles are enforced, *)
(* only the holder is cleared, and what is said comes from the holder, or  *)
(* from somebody who fell idle between the two.                            *)
(***************************************************************************)
EXTENDS Naturals, Sequences, FiniteSets

CONSTANTS People,  \* who may be in a room
          Nobody,  \* holds the wheel when it is free
          Rooms,   \* the rooms of one session
          Seats    \* how many a room seats

VARIABLES enforced,  \* only the holder of the wheel may speak
          present,   \* present[r]: who is in the room
          holder,    \* holder[r]: who holds its wheel
          idle,      \* idle[r]: those present who have done nothing for long
          cleared,   \* cleared[r]: who may say something, and has not yet
          said       \* who said what the session has still to hear, in order

vars == <<enforced, present, holder, idle, cleared, said>>

Init ==
  /\ enforced \in BOOLEAN
  /\ present = [r \in Rooms |-> {}]
  /\ holder = [r \in Rooms |-> Nobody]
  /\ idle = [r \in Rooms |-> {}]
  /\ cleared = [r \in Rooms |-> {}]
  /\ said = <<>>

\* The first to enter a room without a holder gets the wheel.
Enter(r, p) ==
  /\ p \in present[r] \/ Cardinality(present[r]) < Seats
  /\ present' = [present EXCEPT ![r] = @ \cup {p}]
  /\ idle' = [idle EXCEPT ![r] = @ \ {p}]
  /\ holder' = [holder EXCEPT ![r] = IF @ = Nobody THEN p ELSE @]
  /\ UNCHANGED <<enforced, cleared, said>>

Leave(r, p) ==
  /\ p \notin cleared[r]
  /\ present' = [present EXCEPT ![r] = @ \ {p}]
  /\ idle' = [idle EXCEPT ![r] = @ \ {p}]
  /\ holder' = [holder EXCEPT ![r] = IF @ = p THEN Nobody ELSE @]
  /\ UNCHANGED <<enforced, cleared, said>>

FallIdle(r, p) ==
  /\ p \in present[r] \ idle[r]
  /\ idle' = [idle EXCEPT ![r] = @ \cup {p}]
  /\ UNCHANGED <<enforced, present, holder, cleared, said>>

\* The wheel is taken when it is free or its holder is idle.
Take(r, p) ==
  /\ p \in present[r]
  /\ holder[r] \in {Nobody, p} \cup idle[r]
  /\ holder' = [holder EXCEPT ![r] = p]
  /\ idle' = [idle EXCEPT ![r] = @ \ {p}]
  /\ UNCHANGED <<enforced, present, cleared, said>>

Release(r, p) ==
  /\ holder[r] = p
  /\ holder' = [holder EXCEPT ![r] = Nobody]
  /\ UNCHANGED <<enforced, present, idle, cleared, said>>

Clear(r, p) ==
  /\ enforced => p \in present[r] /\ holder[r] = p
  /\ cleared' = [cleared EXCEPT ![r] = @ \cup {p}]
  /\ idle' = [idle EXCEPT ![r] = @ \ {p}]
  /\ UNCHANGED <<enforced, present, holder, said>>

Say(r, p) ==
  /\ p \in cleared[r]
  /\ enforced => holder[r] = p \/ p \in idle[r]
  /\ cleared' = [cleared EXCEPT ![r] = @ \ {p}]
  /\ said' = Append(said, p)
  /\ UNCHANGED <<enforced, present, holder, idle>>

\* What somebody was cleared for is not said after all.
Drop(r, p) ==
  /\ p \in cleared[r]
  /\ cleared' = [cleared EXCEPT ![r] = @ \ {p}]
  /\ UNCHANGED <<enforced, present, holder, idle, said>>

\* The session hears the oldest, or will hear none of it.
Hear ==
  /\ said # <<>> /\ said' \in {Tail(said), <<>>}
  /\ UNCHANGED <<enforced, present, holder, idle, cleared>>

Next ==
  \/ \E r \in Rooms, p \in People :
       \/ Enter(r, p) \/ Leave(r, p) \/ FallIdle(r, p) \/ Take(r, p) \/ Release(r, p)
       \/ Clear(r, p) \/ Say(r, p) \/ Drop(r, p)
  \/ Hear

Spec == Init /\ [][Next]_vars
=============================================================================
