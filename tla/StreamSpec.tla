----------------------------- MODULE StreamSpec -----------------------------
(***************************************************************************)
(* What a session's event stream promises to its viewers, stated without   *)
(* the mutex, the scrollback queue and the broadcast ring that deliver it: *)
(* one numbered log of lines, and a cursor per viewer.  A viewer starts    *)
(* with the last Window lines of the log and is then sent every later line *)
(* exactly once and in order; only a viewer that has lagged may miss some. *)
(***************************************************************************)
EXTENDS Naturals

CONSTANTS Viewers,  \* connections that may watch the session
          Window    \* how many past lines a viewer that joins is shown

VARIABLES log,      \* number of lines the session has emitted so far
          present,  \* viewers that are being sent the stream
          cursor,   \* cursor[v]: the last line that was sent to v
          lagged    \* viewers that were told to skip lines

vars == <<log, present, cursor, lagged>>

\* The last line that a viewer joining now is not shown.
Oldest == IF log > Window THEN log - Window ELSE 0

Init ==
  /\ log = 0
  /\ present = {}
  /\ cursor = [v \in Viewers |-> 0]
  /\ lagged = {}

Emit ==
  /\ log' = log + 1
  /\ UNCHANGED <<present, cursor, lagged>>

Join(v) ==
  /\ v \notin present
  /\ present' = present \cup {v}
  /\ cursor' = [cursor EXCEPT ![v] = Oldest]
  /\ UNCHANGED <<log, lagged>>

Deliver(v) ==
  /\ v \in present
  /\ cursor[v] < log
  /\ cursor' = [cursor EXCEPT ![v] = @ + 1]
  /\ UNCHANGED <<log, present, lagged>>

Lag(v) ==
  /\ v \in present
  /\ lagged' = lagged \cup {v}
  /\ UNCHANGED <<log, present, cursor>>

Skip(v) ==
  /\ v \in present \cap lagged
  /\ \E line \in 1..log :
       /\ line > cursor[v]
       /\ cursor' = [cursor EXCEPT ![v] = line]
  /\ UNCHANGED <<log, present, lagged>>

Leave(v) ==
  /\ v \in present
  /\ present' = present \ {v}
  /\ cursor' = [cursor EXCEPT ![v] = 0]
  /\ lagged' = lagged \ {v}
  /\ UNCHANGED log

Next ==
  \/ Emit
  \/ \E v \in Viewers : Join(v) \/ Deliver(v) \/ Lag(v) \/ Skip(v) \/ Leave(v)

Spec == Init /\ [][Next]_vars
=============================================================================
