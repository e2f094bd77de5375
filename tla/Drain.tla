-------------------------------- MODULE Drain --------------------------------
(***************************************************************************)
(* Draining and stopping the server: the draining flag, the Send handlers  *)
(* that read it (src/src/ws.rs), the count of active turns, the operator   *)
(* who drains over the API and polls /api/health, and the stop signal      *)
(* (graceful_shutdown in src/src/main.rs), over the actors of Actors.      *)
(*                                                                         *)
(* The flag, the busy flags and the command channels are separate pieces   *)
(* of state: a handler reads the flag, then waits, then sends; the count   *)
(* of active turns reads one keeper after the other.                       *)
(***************************************************************************)
EXTENDS Actors

CONSTANTS Conns,       \* websocket connections
          NoKeeper,
          MaxInFlight  \* bound: prompts a keeper has accepted and not answered

ASSUME DrainAssumption == NoKeeper \notin Keepers /\ MaxInFlight \in 1..PipeCap

VARIABLES
  draining,  \* SessionManager.draining
  handler,   \* handler[c]: where c's Send handler is
  target,    \* target[c]: the keeper it sends to, or NoKeeper
  phase,     \* the server: "up", "stopping", "stopped"
  poll,      \* who is counting active turns
  left,      \* the keepers the count has not read yet
  found,     \* it has met an active turn
  forced,    \* a second stop signal came
  lifted,    \* history: the drain was ended while the stop waited
  owed       \* history: keepers mid-turn at the stop signal, still on that turn

drainVars == <<draining, handler, target, phase, poll, left, found, forced, lifted, owed>>
vars == <<actorVars, drainVars>>
clients == <<handler, target>>
count == <<poll, left, found>>
shutdown == <<phase, forced, lifted>>

Init ==
  /\ ActorInit
  /\ draining = FALSE
  /\ handler = [c \in Conns |-> "idle"]
  /\ target = [c \in Conns |-> NoKeeper]
  /\ phase = "up"
  /\ poll = "none" /\ left = {} /\ found = FALSE
  /\ forced = FALSE /\ lifted = FALSE
  /\ owed = {}

Running == phase # "stopped"

InFlight(k) ==
  Len(SelectSeq(queue[k], LAMBDA cmd : cmd = "user"))
  + (IF pc[k] \in {"writing", "turn"} THEN 1 ELSE 0) + asked[k] + answers[k]

-----------------------------------------------------------------------------
(* The Send handler.                                                       *)

\* The drain check of ClientMsg::Send, and get_or_spawn, which the handler reaches
\* without waiting.  Here the chat k has a live keeper.
SendCheck(c, k) ==
  /\ Running
  /\ handler[c] = "idle" /\ ~draining
  /\ pc[k] # "unborn" /\ ~finished[k]
  /\ handler' = [handler EXCEPT ![c] = "sending"]
  /\ target' = [target EXCEPT ![c] = k]
  /\ UNCHANGED <<actorVars, draining, shutdown, count, owed>>

\* Here get_or_spawn starts a keeper for the chat: the first, or one in the place
\* of a keeper that finished.  A handler that still sends to the old one sends to
\* a closed channel.
SendSpawns(c, k) ==
  /\ Running
  /\ handler[c] = "idle" /\ ~draining
  /\ pc[k] \in {"unborn", "gone"}
  /\ pc' = [pc EXCEPT ![k] = "idle"]
  /\ proc' = [proc EXCEPT ![k] = IF engine = "cli" THEN "alive" ELSE "none"]
  /\ finished' = [finished EXCEPT ![k] = FALSE]
  /\ asked' = [asked EXCEPT ![k] = 0]
  /\ answers' = [answers EXCEPT ![k] = 0]
  /\ handler' = [d \in Conns |->
                   IF d = c THEN "sending" ELSE IF target[d] = k THEN "idle" ELSE handler[d]]
  /\ target' = [d \in Conns |->
                  IF d = c THEN k ELSE IF target[d] = k THEN NoKeeper ELSE target[d]]
  /\ UNCHANGED <<engine, queue, busy, intr, draining, shutdown, count, owed>>

\* send_user_message(..).await
SendPrompt(c) ==
  /\ Running
  /\ handler[c] = "sending"
  /\ InFlight(target[c]) < MaxInFlight
  /\ Send(target[c], "user")
  /\ handler' = [handler EXCEPT ![c] = "idle"]
  /\ target' = [target EXCEPT ![c] = NoKeeper]
  /\ UNCHANGED <<draining, shutdown, count, owed>>

\* ClientMsg::Interrupt, on the keeper the connection has: not held up by a drain.
SendInterrupt(c, k) ==
  /\ Running
  /\ handler[c] = "idle"
  /\ Send(k, "interrupt")
  /\ UNCHANGED drainVars

-----------------------------------------------------------------------------
(* The actors.                                                             *)

StillOwed == {k \in owed : MidTurn(k)'}

Actor(k) ==
  /\ Running
  /\ CliCommand(k) \/ CliOutput(k) \/ CliRest(k) \/ NativeCommand(k)
  /\ owed' = StillOwed
  /\ UNCHANGED <<draining, clients, shutdown, count>>

TurnEnds(k) ==
  /\ Running
  /\ NativeTurnEnds(k)
  /\ owed' = StillOwed
  /\ UNCHANGED <<draining, clients, shutdown, count>>

Child(k) ==
  /\ Running
  /\ ChildStep(k)
  /\ UNCHANGED drainVars

-----------------------------------------------------------------------------
(* The drain over the API (or SIGUSR1), and the operator who polls it.     *)

DrainBegin ==
  /\ Running
  /\ draining' = TRUE
  /\ UNCHANGED <<actorVars, clients, shutdown, count, owed>>

\* Like the signal above it is served while a stop waits.
DrainEnd ==
  /\ Running
  /\ draining' = FALSE
  /\ lifted' = (lifted \/ poll = "wait")
  /\ UNCHANGED <<actorVars, clients, phase, forced, count, owed>>

StartCount(who) == poll' = who /\ left' = Keepers /\ found' = FALSE

\* A GET of /api/health by the operator.
OperatorPolls ==
  /\ phase = "up" /\ poll = "none" /\ draining
  /\ StartCount("operator")
  /\ UNCHANGED <<actorVars, draining, clients, shutdown, owed>>

\* active_turns reads one keeper.
CountOne(k) ==
  /\ Running
  /\ k \in left
  /\ left' = left \ {k}
  /\ found' = (found \/ MidTurn(k))
  /\ UNCHANGED <<actorVars, draining, clients, shutdown, poll, owed>>

OperatorReads ==
  /\ phase = "up" /\ poll = "operator" /\ left = {}
  /\ poll' = "none" /\ found' = FALSE
  /\ UNCHANGED <<actorVars, draining, clients, shutdown, left, owed>>

-----------------------------------------------------------------------------
(* graceful_shutdown.                                                      *)

\* The first Ctrl-C or SIGTERM: count the active turns.
StopSignal ==
  /\ phase = "up" /\ poll = "none"
  /\ phase' = "stopping"
  /\ StartCount("signal")
  /\ owed' = {k \in Keepers : MidTurn(k)}
  /\ UNCHANGED <<actorVars, draining, clients, forced, lifted>>

\* No active turn at the signal: return, without setting the flag.
NothingInFlight ==
  /\ poll = "signal" /\ left = {} /\ ~found
  /\ phase' = "stopped" /\ poll' = "none" /\ found' = FALSE
  /\ UNCHANGED <<actorVars, draining, clients, forced, lifted, left, owed>>

\* Mutant: the stop waits without refusing new turns.
WaitUndrained ==
  /\ poll = "signal" /\ left = {} /\ found
  /\ StartCount("wait")
  /\ UNCHANGED <<actorVars, draining, clients, shutdown, owed>>

\* Some active turn: drain, and start to wait for the count to reach zero.
DrainForStop ==
  /\ poll = "signal" /\ left = {} /\ found
  /\ draining' = TRUE
  /\ StartCount("wait")
  /\ UNCHANGED <<actorVars, clients, shutdown, owed>>

\* The loop counts again while some turn is active.
KeepWaiting ==
  /\ poll = "wait" /\ left = {} /\ found
  /\ StartCount("wait")
  /\ UNCHANGED <<actorVars, draining, clients, shutdown, owed>>

\* Mutant: the wait for zero counts only once.
StopAfterOneCount ==
  /\ poll = "wait" /\ left = {}
  /\ phase' = "stopped" /\ poll' = "none" /\ found' = FALSE
  /\ UNCHANGED <<actorVars, draining, clients, forced, lifted, left, owed>>

DrainComplete ==
  /\ poll = "wait" /\ left = {} /\ ~found
  /\ phase' = "stopped" /\ poll' = "none" /\ found' = FALSE
  /\ UNCHANGED <<actorVars, draining, clients, forced, lifted, left, owed>>

\* The second signal.
ForceStop ==
  /\ poll = "wait"
  /\ phase' = "stopped" /\ forced' = TRUE
  /\ poll' = "none" /\ left' = {} /\ found' = FALSE
  /\ UNCHANGED <<actorVars, draining, clients, lifted, owed>>

\* shutdown_all interrupts every keeper and the process exits: whatever runs in
\* phase "stopped" is cut off.
Stopped == phase = "stopped" /\ UNCHANGED vars

Next ==
  \/ \E c \in Conns :
       \/ \E k \in Keepers : SendCheck(c, k) \/ SendSpawns(c, k) \/ SendInterrupt(c, k)
       \/ SendPrompt(c)
  \/ \E k \in Keepers :
       Actor(k) \/ TurnEnds(k) \/ Child(k) \/ CountOne(k)
  \/ DrainBegin
  \/ DrainEnd
  \/ OperatorPolls
  \/ OperatorReads
  \/ StopSignal
  \/ NothingInFlight
  \/ DrainForStop
  \/ KeepWaiting
  \/ DrainComplete
  \/ ForceStop
  \/ Stopped

Spec == Init /\ [][Next]_vars

\* Tasks that can run are polled, and select! picks among its ready branches at
\* random, so neither the commands nor the child's output starve.  A child that was
\* killed exits.  That a turn ends, or a child answers, is not assumed: a provider, a
\* server of tools or a person may keep either waiting.
Fairness ==
  /\ \A c \in Conns : WF_vars(SendPrompt(c))
  /\ \A k \in Keepers :
       /\ SF_vars(Actor(k) /\ CliCommand(k))
       /\ SF_vars(Actor(k) /\ CliOutput(k))
       /\ WF_vars(Actor(k) /\ (CliRest(k) \/ NativeCommand(k)))
       /\ WF_vars(Child(k) /\ ChildExits(k) /\ proc[k] = "dying")
       /\ WF_vars(CountOne(k))
  /\ WF_vars(NothingInFlight \/ DrainForStop \/ KeepWaiting \/ DrainComplete)

FairSpec == Spec /\ Fairness

-----------------------------------------------------------------------------
TypeOK ==
  /\ ActorTypeOK
  /\ draining \in BOOLEAN
  /\ handler \in [Conns -> {"idle", "sending"}]
  /\ target \in [Conns -> Keepers \cup {NoKeeper}]
  /\ phase \in {"up", "stopping", "stopped"}
  /\ poll \in {"none", "operator", "signal", "wait"}
  /\ left \in SUBSET Keepers
  /\ found \in BOOLEAN
  /\ forced \in BOOLEAN /\ lifted \in BOOLEAN
  /\ owed \in SUBSET Keepers

\* What busy reported as a turn when the stop signal came has been reported as ended
\* before the stop completes, unless a second signal forces it, although the count that
\* decides it reads the keepers one by one while other turns begin and end, and the
\* drain may be lifted meanwhile.
StopWaitsForTurns == phase = "stopped" /\ ~forced => owed = {}

\* A native keeper reports a turn exactly while its engine runs one.
NativeBusyIsTurn ==
  engine = "native" => \A k \in Keepers : busy[k] <=> pc[k] = "turn"

\* The native turn of k, or the child of k, is at work.
AtWork(k) == pc[k] = "turn" \/ (proc[k] = "alive" /\ asked[k] > 0)

\* A drain converges: if the server stays up and drained, the active turns end for
\* good, the prompts that slipped past the flag included.  What can prevent it is one
\* turn that itself never ends, never that turns follow one another.
DrainSettles ==
  <>[](draining /\ phase = "up") =>
    <>[](\A k \in Keepers : ~MidTurn(k)) \/ \E k \in Keepers : <>[]AtWork(k)

\* A stop that is waiting for turns completes, unless the drain is ended meanwhile or
\* one turn never ends: prompts that arrive, or that passed the check before, do not
\* hold it up for ever.
StopCompletes ==
  \/ phase = "stopping" ~> (phase = "stopped" \/ lifted)
  \/ \E k \in Keepers : <>[]AtWork(k)

\* What the comment at the drain check says: with the flag set the operator can
\* safely stop once active_turns reaches zero.
ZeroIsSafe ==
  [][OperatorReads /\ draining /\ ~found =>
       \A k \in Keepers :
         ~MidTurn(k) /\ \A i \in 1..Len(queue[k]) : queue[k][i] # "user"]_vars
=============================================================================
