------------------------------- MODULE Stream -------------------------------
(***************************************************************************)
(* The event stream of one keeper (src/src/session.rs) and the sockets     *)
(* that watch it (src/src/ws.rs).                                          *)
(*                                                                         *)
(* The keeper's actor emits lines: each is pushed on a bounded scrollback  *)
(* and sent on a broadcast channel, both while the scrollback mutex is     *)
(* held.  A socket that attaches takes that mutex, subscribes to the       *)
(* channel, copies the scrollback, releases the mutex, replays the copy    *)
(* and only then starts to read the channel.  Room traffic (the roster) is *)
(* sent on the same channel without the mutex and without the scrollback.  *)
(*                                                                         *)
(* A line is known by its number.  The channel is the sequence of all that *)
(* was ever sent on it; a receiver may read the last BroadcastCap entries  *)
(* and is moved forward (Lagged) when it has fallen behind them.           *)
(***************************************************************************)
EXTENDS Naturals, Sequences

CONSTANTS Viewers,        \* websocket connections
          ScrollbackMax,  \* SCROLLBACK_MAX
          BroadcastCap,   \* BROADCAST_CAP
          MaxLines,       \* bound: lines the actor emits
          MaxRoster       \* bound: ephemeral frames ahead of the lines

ASSUME StreamAssumption ==
  /\ ScrollbackMax \in Nat \ {0}
  /\ BroadcastCap \in Nat \ {0}
  /\ MaxLines \in Nat
  /\ MaxRoster \in Nat

VARIABLES
  emitted,     \* number of lines emitted; the last one has this number
  scrollback,  \* SessionKeeper.scrollback
  chan,        \* what was sent on SessionKeeper.events: a line, or Roster
  actor,       \* where the actor is in emit
  pc,          \* where each connection is in attach / handle_socket
  next,        \* next[v]: the channel position v's receiver reads next
  replay,      \* replay[v]: what is left of the snapshot v is replaying
  seen,        \* history: the lines v's client was sent, in order
  lagged       \* history: viewers whose receiver returned Lagged

vars == <<emitted, scrollback, chan, actor, pc, next, replay, seen, lagged>>

Roster == 0    \* an ephemeral frame: it carries no line

LastOf(s) == s[Len(s)]

-----------------------------------------------------------------------------
(* The scrollback mutex is held between the two halves of emit and between *)
(* the two halves of subscribe.                                            *)
MutexFree == actor = "idle" /\ \A v \in Viewers : pc[v] # "subscribing"

\* Mutant: one line more than the limit is dropped.
TrimOne(sb) ==
  IF Len(sb) >= ScrollbackMax
  THEN SubSeq(sb, Len(sb) - ScrollbackMax + 2, Len(sb))
  ELSE sb

\* while sb.len() > SCROLLBACK_MAX { sb.pop_front() }
Trim(sb) ==
  IF Len(sb) > ScrollbackMax
  THEN SubSeq(sb, Len(sb) - ScrollbackMax + 1, Len(sb))
  ELSE sb

Init ==
  /\ emitted = 0
  /\ scrollback = <<>>
  /\ chan = <<>>
  /\ actor = "idle"
  /\ pc = [v \in Viewers |-> "away"]
  /\ next = [v \in Viewers |-> 1]
  /\ replay = [v \in Viewers |-> <<>>]
  /\ seen = [v \in Viewers |-> <<>>]
  /\ lagged = {}

\* emit, first half: lock, push_back, pop_front down to the limit.
EmitPush ==
  /\ MutexFree
  /\ emitted < MaxLines
  /\ emitted' = emitted + 1
  /\ scrollback' = Trim(Append(scrollback, emitted + 1))
  /\ actor' = "pushed"
  /\ UNCHANGED <<chan, pc, next, replay, seen, lagged>>

\* emit, second half: events.send, unlock.
EmitSend ==
  /\ actor = "pushed"
  /\ chan' = Append(chan, emitted)
  /\ actor' = "idle"
  /\ UNCHANGED <<emitted, scrollback, pc, next, replay, seen, lagged>>

\* broadcast_ephemeral: any connection may send a roster at any time.
BroadcastEphemeral ==
  /\ Len(chan) < emitted + MaxRoster
  /\ chan' = Append(chan, Roster)
  /\ UNCHANGED <<emitted, scrollback, actor, pc, next, replay, seen, lagged>>

\* Mutant: the scrollback lock is not taken across the subscription.
SubscribeUnlocked(v) ==
  /\ pc[v] = "away"
  /\ pc' = [pc EXCEPT ![v] = "subscribing"]
  /\ next' = [next EXCEPT ![v] = Len(chan) + 1]
  /\ UNCHANGED <<emitted, scrollback, chan, actor, replay, seen, lagged>>

\* subscribe, first half: lock, events.subscribe().
Subscribe(v) ==
  /\ pc[v] = "away"
  /\ MutexFree
  /\ pc' = [pc EXCEPT ![v] = "subscribing"]
  /\ next' = [next EXCEPT ![v] = Len(chan) + 1]
  /\ UNCHANGED <<emitted, scrollback, chan, actor, replay, seen, lagged>>

\* subscribe, second half: copy the scrollback, unlock.
Snapshot(v) ==
  /\ pc[v] = "subscribing"
  /\ pc' = [pc EXCEPT ![v] = "replaying"]
  /\ replay' = [replay EXCEPT ![v] = scrollback]
  /\ UNCHANGED <<emitted, scrollback, chan, actor, next, seen, lagged>>

\* attach sends one line of the snapshot and waits for the socket.
Replay(v) ==
  /\ pc[v] = "replaying"
  /\ replay[v] # <<>>
  /\ seen' = [seen EXCEPT ![v] = Append(@, Head(replay[v]))]
  /\ replay' = [replay EXCEPT ![v] = Tail(@)]
  /\ UNCHANGED <<emitted, scrollback, chan, actor, pc, next, lagged>>

\* attach sends replay_end and hands the receiver to the socket's loop.
ReplayEnd(v) ==
  /\ pc[v] = "replaying"
  /\ replay[v] = <<>>
  /\ pc' = [pc EXCEPT ![v] = "live"]
  /\ UNCHANGED <<emitted, scrollback, chan, actor, next, replay, seen, lagged>>

\* The oldest channel position a receiver can still read.
OldestKept == IF Len(chan) > BroadcastCap THEN Len(chan) - BroadcastCap + 1 ELSE 1

\* The socket's loop receives a frame and forwards it.
Receive(v) ==
  /\ pc[v] = "live"
  /\ next[v] \in OldestKept..Len(chan)
  /\ next' = [next EXCEPT ![v] = @ + 1]
  /\ seen' = IF chan[next[v]] = Roster
             THEN seen
             ELSE [seen EXCEPT ![v] = Append(@, chan[next[v]])]
  /\ UNCHANGED <<emitted, scrollback, chan, actor, pc, replay, lagged>>

\* Mutant: a receiver that fell behind is not moved forward.
StaysBehind(v) ==
  /\ pc[v] = "live"
  /\ next[v] < OldestKept
  /\ lagged' = lagged \cup {v}
  /\ UNCHANGED <<emitted, scrollback, chan, actor, pc, next, replay, seen>>

\* recv returns Lagged: the loop ignores it and the receiver jumps ahead.
SkipLagged(v) ==
  /\ pc[v] = "live"
  /\ next[v] < OldestKept
  /\ next' = [next EXCEPT ![v] = OldestKept]
  /\ lagged' = lagged \cup {v}
  /\ UNCHANGED <<emitted, scrollback, chan, actor, pc, replay, seen>>

\* Mutant: a receiver is reset to before the first frame.
ResetToZero(v) ==
  /\ pc[v] \in {"replaying", "live"}
  /\ pc' = [pc EXCEPT ![v] = "away"]
  /\ next' = [next EXCEPT ![v] = 0]
  /\ replay' = [replay EXCEPT ![v] = <<>>]
  /\ seen' = [seen EXCEPT ![v] = <<>>]
  /\ lagged' = lagged \ {v}
  /\ UNCHANGED <<emitted, scrollback, chan, actor>>

\* The socket fails or closes, in the replay or later; the client may return.
Disconnect(v) ==
  /\ pc[v] \in {"replaying", "live"}
  /\ pc' = [pc EXCEPT ![v] = "away"]
  /\ next' = [next EXCEPT ![v] = 1]
  /\ replay' = [replay EXCEPT ![v] = <<>>]
  /\ seen' = [seen EXCEPT ![v] = <<>>]
  /\ lagged' = lagged \ {v}
  /\ UNCHANGED <<emitted, scrollback, chan, actor>>

Next ==
  \/ EmitPush
  \/ EmitSend
  \/ BroadcastEphemeral
  \/ \E v \in Viewers :
       \/ Subscribe(v)
       \/ Snapshot(v)
       \/ Replay(v)
       \/ ReplayEnd(v)
       \/ Receive(v)
       \/ SkipLagged(v)
       \/ Disconnect(v)

Spec == Init /\ [][Next]_vars

\* The mutex is never held across an await, and a socket task that has
\* something to send is polled; nobody must emit, attach or disconnect.
Fairness ==
  /\ WF_vars(EmitSend)
  /\ \A v \in Viewers :
       /\ WF_vars(Snapshot(v))
       /\ WF_vars(Replay(v))
       /\ WF_vars(ReplayEnd(v))
       /\ WF_vars(Receive(v))
       /\ WF_vars(SkipLagged(v))

FairSpec == Spec /\ Fairness

-----------------------------------------------------------------------------
TypeOK ==
  /\ emitted \in Nat
  /\ scrollback \in Seq(Nat)
  /\ chan \in Seq(Nat)
  /\ actor \in {"idle", "pushed"}
  /\ pc \in [Viewers -> {"away", "subscribing", "replaying", "live"}]
  /\ next \in [Viewers -> Nat \ {0}]
  /\ replay \in [Viewers -> Seq(Nat)]
  /\ seen \in [Viewers -> Seq(Nat)]
  /\ lagged \in SUBSET Viewers

SeenInOrder(v) ==
  \A i \in 1..Len(seen[v]) - 1 :
    /\ seen[v][i] < seen[v][i + 1]
    /\ v \notin lagged => seen[v][i + 1] = seen[v][i] + 1

\* What a viewer was sent never repeats or reorders a line, and skips one only
\* if its receiver lagged (the end of the replay included).
ExactlyOnce == \A v \in Viewers : SeenInOrder(v)

\* A viewer that has read all there is to read and never lagged holds the
\* newest line that was sent: the gap between copying the scrollback and
\* reading the channel loses nothing.
CaughtUpHasNewest ==
  \A v \in Viewers :
    /\ pc[v] = "live" /\ next[v] = Len(chan) + 1
    /\ v \notin lagged /\ actor = "idle" /\ emitted > 0
    => seen[v] # <<>> /\ LastOf(seen[v]) = emitted

\* A viewer that stays gets past every frame that was sent, however far behind
\* it was when it joined.
EveryFrameIsRead ==
  \A v \in Viewers : \A p \in 1..MaxLines + MaxRoster :
    (pc[v] # "away" /\ Len(chan) >= p) ~> (pc[v] = "away" \/ next[v] > p)

-----------------------------------------------------------------------------
(* The stream implements StreamSpec: a viewer joins when it has copied the *)
(* scrollback, and its cursor is the line before what it will be sent.     *)
Watching(v) == pc[v] \in {"replaying", "live"}

CursorOf(v) ==
  IF replay[v] # <<>> THEN Head(replay[v]) - 1
  ELSE IF seen[v] # <<>> THEN LastOf(seen[v]) ELSE 0

Abstract == INSTANCE StreamSpec WITH
  Window  <- ScrollbackMax,
  log     <- emitted,
  present <- {v \in Viewers : Watching(v)},
  cursor  <- [v \in Viewers |-> CursorOf(v)]

\* Every behaviour of the stream is one the abstract specification allows.
ImplementsStreamSpec == Abstract!Spec
=============================================================================
