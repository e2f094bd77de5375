-------------------------------- MODULE Room --------------------------------
(***************************************************************************)
(* The room of one session: who is gathered on it and who drives the agent *)
(* (Room and SessionKeeper::room_* in src/src/session.rs, the websocket    *)
(* handlers that call them in src/src/ws.rs).                              *)
(*                                                                         *)
(* A room belongs to a keeper.  When the keeper's actor ends, the next     *)
(* Send spawns a new keeper with an empty room, so rooms are indexed by    *)
(* the keeper's number; a connection that moves on to the new keeper does  *)
(* not leave the old room.  Each connection handles one message at a time, *)
(* but a handler waits (replaying to a slow socket, sending to a full      *)
(* command channel) and the room may change under it.                      *)
(***************************************************************************)
EXTENDS Naturals, Sequences, FiniteSets

CONSTANTS Conns,       \* websocket connections
          NoConn,      \* Room.driver = None
          RoomCap,     \* ROOM_CAP
          QueueCap,    \* capacity of the keeper's command channel
          MaxKeepers   \* bound: keepers spawned for the session

ASSUME RoomAssumption ==
  /\ NoConn \notin Conns
  /\ IsFiniteSet(Conns)
  /\ RoomCap \in Nat \ {0}
  /\ QueueCap \in Nat \ {0}
  /\ MaxKeepers \in Nat \ {0}

Keepers == 1..MaxKeepers

VARIABLES
  enforced,  \* state.auth.enabled: only the driver may send
  gen,       \* number of keepers spawned; the last one is in the map
  alive,     \* the last keeper's actor has not ended
  members,   \* members[k]: Room.members of keeper k
  driver,    \* driver[k]: Room.driver of keeper k
  asleep,    \* asleep[k]: members of k whose last_seen is WHEEL_IDLE ago
  at,        \* at[c]: the keeper c is attached to or is attaching to, or 0
  pc,        \* where c's socket task is
  told,      \* told[c]: the role the last role frame gave to c's client
  queue,     \* senders of the prompts in the last keeper's command channel
  slept      \* history: senders that fell asleep since their role check

vars == <<enforced, gen, alive, members, driver, asleep, at, pc, told, queue, slept>>
keeper == <<enforced, gen, alive>>
room == <<members, driver, asleep>>

Finished(k) == k < gen \/ ~alive

\* SessionKeeper::room_role: the connection is a member and drives.
IsDriver(c) == at[c] # 0 /\ c \in members[at[c]] /\ driver[at[c]] = c

Init ==
  /\ enforced \in BOOLEAN
  /\ gen = 1
  /\ alive = TRUE
  /\ members = [k \in Keepers |-> {}]
  /\ driver = [k \in Keepers |-> NoConn]
  /\ asleep = [k \in Keepers |-> {}]
  /\ at = [c \in Conns |-> 0]
  /\ pc = [c \in Conns |-> "idle"]
  /\ told = [c \in Conns |-> "none"]
  /\ queue = <<>>
  /\ slept = {}

-----------------------------------------------------------------------------
(* Attaching.  The handler replays the scrollback before it joins.         *)

\* ClientMsg::Attach: only without a keeper, and only to a live one.
Attach(c) ==
  /\ pc[c] = "idle" /\ at[c] = 0
  /\ alive
  /\ at' = [at EXCEPT ![c] = gen]
  /\ pc' = [pc EXCEPT ![c] = "attaching"]
  /\ UNCHANGED <<keeper, room, told, queue, slept>>

\* ClientMsg::Send without a keeper or with a finished one: get_or_spawn, then
\* attach.  The finished keeper's room is not left.
OpenBySend(c) ==
  /\ pc[c] = "idle"
  /\ at[c] = 0 \/ Finished(at[c])
  /\ \/ alive /\ UNCHANGED <<gen, alive>>
     \/ ~alive /\ gen < MaxKeepers /\ gen' = gen + 1 /\ alive' = TRUE
  /\ at' = [at EXCEPT ![c] = gen']
  /\ pc' = [pc EXCEPT ![c] = "opening"]
  /\ UNCHANGED <<enforced, room, told, queue, slept>>

\* The socket fails during the replay: attach returns before it joins, and the
\* socket's loop ends with no keeper set.
AttachFails(c) ==
  /\ pc[c] \in {"attaching", "opening"}
  /\ at' = [at EXCEPT ![c] = 0]
  /\ pc' = [pc EXCEPT ![c] = "idle"]
  /\ told' = [told EXCEPT ![c] = "none"]
  /\ UNCHANGED <<keeper, room, queue, slept>>

\* The end of attach: room_join and the role frame.  A room that is full refuses
\* the join; the connection watches on as if it were an observer.
JoinRoom(c) ==
  LET k == at[c]
      seated == c \in members[k] \/ Cardinality(members[k]) < RoomCap
  IN /\ pc[c] \in {"attaching", "opening"}
     /\ members' = [members EXCEPT ![k] = IF seated THEN @ \cup {c} ELSE @]
     /\ asleep' = [asleep EXCEPT ![k] = IF seated THEN @ \ {c} ELSE @]
     /\ driver' = [driver EXCEPT ![k] = IF seated /\ @ = NoConn THEN c ELSE @]
     /\ told' = [told EXCEPT ![c] = IF driver'[k] = c THEN "driver" ELSE "observer"]
     /\ pc' = [pc EXCEPT ![c] = IF @ = "opening" THEN "checking" ELSE "idle"]
     /\ UNCHANGED <<keeper, at, queue, slept>>

\* Mutant: room_leave forgets the member and keeps the wheel.
LeaveKeepsWheel(c) ==
  /\ pc[c] = "idle"
  /\ at[c] # 0
  /\ members' = [members EXCEPT ![at[c]] = @ \ {c}]
  /\ asleep' = [asleep EXCEPT ![at[c]] = @ \ {c}]
  /\ at' = [at EXCEPT ![c] = 0]
  /\ told' = [told EXCEPT ![c] = "none"]
  /\ UNCHANGED <<keeper, driver, pc, queue, slept>>

\* The socket closes: room_leave on the keeper the connection holds.
Disconnect(c) ==
  /\ pc[c] = "idle"
  /\ at[c] # 0
  /\ members' = [members EXCEPT ![at[c]] = @ \ {c}]
  /\ asleep' = [asleep EXCEPT ![at[c]] = @ \ {c}]
  /\ driver' = [driver EXCEPT ![at[c]] = IF @ = c THEN NoConn ELSE @]
  /\ at' = [at EXCEPT ![c] = 0]
  /\ told' = [told EXCEPT ![c] = "none"]
  /\ UNCHANGED <<keeper, pc, queue, slept>>

-----------------------------------------------------------------------------
(* The wheel.                                                              *)

\* Mutant: the idle test looks at whoever asks for the wheel.
IdleTaker(k, c) ==
  \/ driver[k] \in {NoConn, c}
  \/ driver[k] \notin members[k]
  \/ c \in asleep[k]

\* room_take grants a wheel that is free, already c's, or held by a member that
\* fell asleep (or by nobody who is a member).
WheelFree(k, c) ==
  \/ driver[k] \in {NoConn, c}
  \/ driver[k] \notin members[k]
  \/ driver[k] \in asleep[k]

TakeControl(c) ==
  /\ pc[c] = "idle" /\ at[c] # 0
  /\ c \in members[at[c]]
  /\ WheelFree(at[c], c)
  /\ driver' = [driver EXCEPT ![at[c]] = c]
  /\ asleep' = [asleep EXCEPT ![at[c]] = @ \ {c}]
  /\ told' = [told EXCEPT ![c] = "driver"]
  /\ UNCHANGED <<keeper, members, at, pc, queue, slept>>

\* Mutant: a release that sends no role frame.
SilentRelease(c) ==
  /\ pc[c] = "idle" /\ at[c] # 0
  /\ driver[at[c]] = c
  /\ driver' = [driver EXCEPT ![at[c]] = NoConn]
  /\ UNCHANGED <<keeper, members, asleep, at, pc, told, queue, slept>>

ReleaseControl(c) ==
  /\ pc[c] = "idle" /\ at[c] # 0
  /\ driver[at[c]] = c
  /\ driver' = [driver EXCEPT ![at[c]] = NoConn]
  /\ told' = [told EXCEPT ![c] = "observer"]
  /\ UNCHANGED <<keeper, members, asleep, at, pc, queue, slept>>

\* WHEEL_IDLE passes since member c of keeper k was last seen.
FallAsleep(k, c) ==
  /\ c \in members[k] \ asleep[k]
  /\ asleep' = [asleep EXCEPT ![k] = @ \cup {c}]
  /\ slept' = IF at[c] = k /\ pc[c] = "sending" THEN slept \cup {c} ELSE slept
  /\ UNCHANGED <<keeper, members, driver, at, pc, told, queue>>

-----------------------------------------------------------------------------
(* Sending a prompt: the role check and room_touch, then the channel.      *)

MaySend(c) == enforced => IsDriver(c)

\* Mutant: a turn does not refresh the driver's activity.
NoTouch(c) == asleep

\* room_touch refreshes a member and ignores anyone else.
Touch(c) == [asleep EXCEPT ![at[c]] = @ \ {c}]

\* The check passes.  A handler that just attached comes here from "checking".
SendCheck(c) ==
  /\ pc[c] = "checking" \/ (pc[c] = "idle" /\ at[c] # 0 /\ ~Finished(at[c]))
  /\ MaySend(c)
  /\ asleep' = Touch(c)
  /\ pc' = [pc EXCEPT ![c] = "sending"]
  /\ UNCHANGED <<keeper, members, driver, at, told, queue, slept>>

\* The check fails: an error frame, and the handler is done.
SendRefused(c) ==
  /\ pc[c] = "checking"
  /\ ~MaySend(c)
  /\ pc' = [pc EXCEPT ![c] = "idle"]
  /\ UNCHANGED <<keeper, room, at, told, queue, slept>>

\* Mutant: a sender that does not wait for room in the channel.
EnqueueUnbounded(c) ==
  /\ pc[c] = "sending"
  /\ ~Finished(at[c])
  /\ Len(queue) < QueueCap + 1
  /\ queue' = Append(queue, c)
  /\ pc' = [pc EXCEPT ![c] = "idle"]
  /\ slept' = slept \ {c}
  /\ UNCHANGED <<keeper, room, at, told>>

\* cmd_tx.send(Cmd::User).await, once there is room in the channel.
Enqueue(c) ==
  /\ pc[c] = "sending"
  /\ ~Finished(at[c])
  /\ Len(queue) < QueueCap
  /\ queue' = Append(queue, c)
  /\ pc' = [pc EXCEPT ![c] = "idle"]
  /\ slept' = slept \ {c}
  /\ UNCHANGED <<keeper, room, at, told>>

\* The channel is closed: the send returns an error that is ignored.
SendLost(c) ==
  /\ pc[c] = "sending"
  /\ Finished(at[c])
  /\ pc' = [pc EXCEPT ![c] = "idle"]
  /\ slept' = slept \ {c}
  /\ UNCHANGED <<keeper, room, at, told, queue>>

\* The actor receives a prompt.
Dequeue ==
  /\ alive /\ queue # <<>>
  /\ queue' = Tail(queue)
  /\ UNCHANGED <<keeper, room, at, pc, told, slept>>

\* The actor ends: its receiver is dropped with what is still in the channel.
KeeperEnds ==
  /\ alive /\ gen < MaxKeepers
  /\ alive' = FALSE
  /\ queue' = <<>>
  /\ UNCHANGED <<enforced, gen, room, at, pc, told, slept>>

Next ==
  \/ Dequeue
  \/ KeeperEnds
  \/ \E c \in Conns :
       \/ Attach(c)
       \/ OpenBySend(c)
       \/ AttachFails(c)
       \/ JoinRoom(c)
       \/ Disconnect(c)
       \/ TakeControl(c)
       \/ ReleaseControl(c)
       \/ SendCheck(c)
       \/ SendRefused(c)
       \/ Enqueue(c)
       \/ SendLost(c)
       \/ \E k \in Keepers : FallAsleep(k, c)

Spec == Init /\ [][Next]_vars

-----------------------------------------------------------------------------
PCs == {"idle", "attaching", "opening", "checking", "sending"}

TypeOK ==
  /\ enforced \in BOOLEAN
  /\ gen \in Keepers
  /\ alive \in BOOLEAN
  /\ members \in [Keepers -> SUBSET Conns]
  /\ driver \in [Keepers -> Conns \cup {NoConn}]
  /\ asleep \in [Keepers -> SUBSET Conns]
  /\ at \in [Conns -> 0..gen]
  /\ pc \in [Conns -> PCs]
  /\ told \in [Conns -> {"none", "driver", "observer"}]
  /\ queue \in Seq(Conns) /\ Len(queue) <= QueueCap
  /\ slept \in SUBSET Conns

\* Connections that have finished attaching to keeper k.
Attached(k) == {c \in Conns : at[c] = k /\ pc[c] \notin {"attaching", "opening"}}

\* The wheel of a session that runs is held, if at all, by a member whose socket
\* is open and attached to it: no closed or moved-on connection keeps the others
\* from driving, and the room never holds more than it may.
WheelHeldByPresent ==
  \A k \in Keepers :
    /\ Cardinality(members[k]) <= RoomCap
    /\ driver[k] # NoConn => driver[k] \in members[k]
    /\ ~Finished(k) => members[k] \subseteq Attached(k)

\* Where roles are enforced, a client that was last told it drives does drive,
\* unless it fell asleep: no two active clients believe they hold the wheel.
BelievedDriverDrives ==
  enforced =>
    \A c \in Conns :
      told[c] = "driver" /\ at[c] # 0 /\ pc[c] \notin {"attaching", "opening"}
      /\ c \notin asleep[at[c]]
      => driver[at[c]] = c

\* The wheel never passes from one member to another while the one is active.
\* RoomSpec promises as much: RoomProofs proves it, and runs check the refinement.
WheelNotSeized ==
  [][\A k \in Keepers :
       driver[k] # NoConn /\ driver'[k] \notin {NoConn, driver[k]}
       => driver[k] \in asleep[k]]_vars

\* Where roles are enforced, a prompt enters the channel only from the driver,
\* however long its handler waited for room in the channel after the check: the
\* wheel can have gone to another only if the sender slept through the wait.
SteeredByDriver ==
  [][\A c \in Conns :
       Len(queue') > Len(queue) /\ queue'[Len(queue')] = c /\ enforced
       => IsDriver(c) \/ c \in slept]_vars

-----------------------------------------------------------------------------
(* The rooms implement RoomSpec: a handler that is past its role check is  *)
(* cleared, the channel holds what was said.                               *)

Cleared == [k \in Keepers |-> {c \in Conns : pc[c] = "sending" /\ at[c] = k}]

Abstract == INSTANCE RoomSpec WITH
  People <- Conns, Nobody <- NoConn, Rooms <- Keepers, Seats <- RoomCap,
  present <- members, holder <- driver, idle <- asleep, cleared <- Cleared, said <- queue

\* Whatever the handlers do while others wait, and however keepers end and begin, each
\* step is one of RoomSpec, where nobody is asked about sockets: in particular a prompt
\* in the channel was said by the holder, or by one that fell idle after its check.
ImplementsRoomSpec == Abstract!Spec
=============================================================================
