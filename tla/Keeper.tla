------------------------------- MODULE Keeper -------------------------------
(***************************************************************************)
(* The life of one chat's keepers (SessionManager and AttachGuard in       *)
(* src/src/session.rs, attach and handle_socket in src/src/ws.rs): who     *)
(* holds them, who views them, the reaper that forgets them and the        *)
(* deletion of the chat, over the actors of Actors.                        *)
(*                                                                         *)
(* The map of sessions has a lock; the viewer count is an atomic and the   *)
(* idle clock has a lock of its own, so attaching and detaching are two    *)
(* steps each, and the reaper, which holds the map's lock, reads the count *)
(* and then the clock.                                                     *)
(***************************************************************************)
EXTENDS Actors

CONSTANTS Conns,       \* websocket connections
          NoKeeper,
          MaxInFlight  \* bound: prompts a keeper has accepted and not answered

ASSUME KeeperAssumption ==
  /\ IsFiniteSet(Conns)
  /\ NoKeeper \notin Keepers
  /\ MaxInFlight \in 1..PipeCap

VARIABLES
  map,      \* SessionManager.sessions at this chat's id
  at,       \* at[c]: handle_socket's `keeper`
  guard,    \* guard[c]: the keeper handle_socket's `guard` counts c on
  new,      \* new[c]: the keeper that attach is attaching c to
  step,     \* where c's socket task is
  prompt,   \* connections whose attach was begun by a Send
  subs,     \* subs[k]: SessionKeeper.subscribers
  idle,     \* idle[k]: SessionKeeper.idle_since: "none", "fresh", "expired"
  unseen,   \* history: for how long k has had no viewer, "viewed" if it has
  reaper,   \* what the reaper does
  victim,   \* the keeper it looks at or kills
  remover,  \* what delete_chat does
  doomed,   \* the keeper it removes
  removed   \* history: keepers whose removal returned

viewing == <<at, guard, new, step, prompt>>
clock == <<subs, idle, unseen>>
reaping == <<reaper, victim>>
removing == <<remover, doomed, removed>>
keeperVars == <<map, viewing, clock, reaping, removing>>
vars == <<actorVars, keeperVars>>

Init ==
  /\ ActorInit
  /\ map = NoKeeper
  /\ at = [c \in Conns |-> NoKeeper]
  /\ guard = [c \in Conns |-> NoKeeper]
  /\ new = [c \in Conns |-> NoKeeper]
  /\ step = [c \in Conns |-> "idle"]
  /\ prompt = {}
  /\ subs = [k \in Keepers |-> 0]
  /\ idle = [k \in Keepers |-> "none"]
  /\ unseen = [k \in Keepers |-> "viewed"]
  /\ reaper = "idle" /\ victim = NoKeeper
  /\ remover = "idle" /\ doomed = NoKeeper /\ removed = {}

MapFree == reaper # "looking"
Live(k) == k # NoKeeper /\ ~finished[k]

\* Somebody has an Arc of the keeper, and with it a sender of its channel.
Held(k) ==
  \/ k \in {map, victim, doomed}
  \/ \E c \in Conns : k \in {at[c], guard[c], new[c]}

InFlight(k) ==
  Len(SelectSeq(queue[k], LAMBDA cmd : cmd = "user"))
  + (IF pc[k] \in {"writing", "turn"} THEN 1 ELSE 0) + asked[k] + answers[k]

-----------------------------------------------------------------------------
(* Finding or spawning the keeper, and attaching to it.                    *)

\* ClientMsg::Attach without a keeper: SessionManager::get.
AttachMsg(c) ==
  /\ step[c] = "idle" /\ at[c] = NoKeeper
  /\ MapFree /\ Live(map)
  /\ new' = [new EXCEPT ![c] = map]
  /\ step' = [step EXCEPT ![c] = "attaching"]
  /\ UNCHANGED <<actorVars, map, at, guard, prompt, clock, reaping, removing>>

\* ClientMsg::Send without a live keeper: get_or_spawn finds one.
SendFinds(c) ==
  /\ step[c] = "idle" /\ ~Live(at[c])
  /\ MapFree /\ Live(map)
  /\ at' = [at EXCEPT ![c] = NoKeeper]
  /\ new' = [new EXCEPT ![c] = map]
  /\ step' = [step EXCEPT ![c] = "attaching"]
  /\ prompt' = prompt \cup {c}
  /\ UNCHANGED <<actorVars, map, guard, clock, reaping, removing>>

\* get_or_spawn spawns one, and replaces a finished one in the map.
SendSpawns(c, k) ==
  /\ step[c] = "idle" /\ ~Live(at[c])
  /\ MapFree /\ ~Live(map)
  /\ SpawnKeeper(k)
  /\ map' = k
  /\ idle' = [idle EXCEPT ![k] = "fresh"]
  /\ unseen' = [unseen EXCEPT ![k] = "fresh"]
  /\ at' = [at EXCEPT ![c] = NoKeeper]
  /\ new' = [new EXCEPT ![c] = k]
  /\ step' = [step EXCEPT ![c] = "attaching"]
  /\ prompt' = prompt \cup {c}
  /\ UNCHANGED <<guard, subs, reaping, removing>>

\* The socket fails in the replay: attach returns early, with keeper unset and an
\* older guard in place.
AttachFails(c) ==
  /\ step[c] = "attaching"
  /\ new' = [new EXCEPT ![c] = NoKeeper]
  /\ step' = [step EXCEPT ![c] = "idle"]
  /\ prompt' = prompt \ {c}
  /\ UNCHANGED <<actorVars, map, at, guard, clock, reaping, removing>>

\* SessionKeeper::attach: subscribers.fetch_add.
CountViewer(c) ==
  /\ step[c] = "attaching"
  /\ subs' = [subs EXCEPT ![new[c]] = @ + 1]
  /\ unseen' = [unseen EXCEPT ![new[c]] = "viewed"]
  /\ step' = [step EXCEPT ![c] = "counted"]
  /\ UNCHANGED <<actorVars, map, at, guard, new, prompt, idle, reaping, removing>>

\* Mutant: the guard that is replaced is not dropped.
OldGuardLeaks(c) ==
  /\ step[c] = "counted"
  /\ idle' = [idle EXCEPT ![new[c]] = "none"]
  /\ step' = [step EXCEPT ![c] = "attached"]
  /\ UNCHANGED <<actorVars, map, at, guard, new, prompt, subs, unseen, reaping, removing>>

\* SessionKeeper::attach: idle_since = None.
StopClock(c) ==
  /\ step[c] = "counted"
  /\ idle' = [idle EXCEPT ![new[c]] = "none"]
  /\ step' = [step EXCEPT ![c] = IF guard[c] = NoKeeper THEN "attached" ELSE "dropping"]
  /\ UNCHANGED <<actorVars, map, at, guard, new, prompt, subs, unseen, reaping, removing>>

\* The rest of attach: the guard, the receiver and the keeper are set; a Send goes
\* on to its prompt.
Attached(c) ==
  /\ step[c] = "attached"
  /\ guard' = [guard EXCEPT ![c] = new[c]]
  /\ at' = [at EXCEPT ![c] = new[c]]
  /\ new' = [new EXCEPT ![c] = NoKeeper]
  /\ step' = [step EXCEPT ![c] = IF c \in prompt THEN "sending" ELSE "idle"]
  /\ prompt' = prompt \ {c}
  /\ UNCHANGED <<actorVars, map, clock, reaping, removing>>

-----------------------------------------------------------------------------
(* Dropping an AttachGuard: when the guard of the next keeper replaces it  *)
(* ("dropping", then "attached") and when the socket closes ("closing").   *)

CloseSocket(c) ==
  /\ step[c] = "idle" /\ (at[c] # NoKeeper \/ guard[c] # NoKeeper)
  /\ step' = [step EXCEPT ![c] = "closing"]
  /\ UNCHANGED <<actorVars, map, at, guard, new, prompt, clock, reaping, removing>>

AfterDrop(c) == IF step[c] \in {"dropping", "markingOld"} THEN "attached" ELSE "closed"

\* AttachGuard::drop: subscribers.fetch_sub; the last viewer goes on to the clock.
UncountViewer(c) ==
  LET k == guard[c] IN
  /\ step[c] \in {"dropping", "closing"} /\ k # NoKeeper
  /\ subs' = [subs EXCEPT ![k] = @ - 1]
  /\ unseen' = [unseen EXCEPT ![k] = IF subs[k] = 1 THEN "fresh" ELSE @]
  /\ step' = [step EXCEPT ![c] =
                IF subs[k] # 1 THEN AfterDrop(c)
                ELSE IF @ = "dropping" THEN "markingOld" ELSE "marking"]
  /\ guard' = IF subs[k] # 1 THEN [guard EXCEPT ![c] = NoKeeper] ELSE guard
  /\ UNCHANGED <<actorVars, map, at, new, prompt, idle, reaping, removing>>

\* Mutant: the last viewer leaves the clock stopped.
ClockLeftStopped(c) ==
  /\ step[c] \in {"markingOld", "marking"}
  /\ guard' = [guard EXCEPT ![c] = NoKeeper]
  /\ step' = [step EXCEPT ![c] = AfterDrop(c)]
  /\ UNCHANGED <<actorVars, map, at, new, prompt, clock, reaping, removing>>

\* AttachGuard::drop: idle_since = Some(now).
StartClock(c) ==
  /\ step[c] \in {"markingOld", "marking"}
  /\ idle' = [idle EXCEPT ![guard[c]] = "fresh"]
  /\ guard' = [guard EXCEPT ![c] = NoKeeper]
  /\ step' = [step EXCEPT ![c] = AfterDrop(c)]
  /\ UNCHANGED <<actorVars, map, at, new, prompt, subs, unseen, reaping, removing>>

\* handle_socket returns; the client may connect again.
SocketGone(c) ==
  /\ step[c] = "closed" \/ (step[c] = "closing" /\ guard[c] = NoKeeper)
  /\ at' = [at EXCEPT ![c] = NoKeeper]
  /\ step' = [step EXCEPT ![c] = "idle"]
  /\ UNCHANGED <<actorVars, map, guard, new, prompt, clock, reaping, removing>>

-----------------------------------------------------------------------------
(* Commands from an attached connection.                                   *)

\* ClientMsg::Send: the connection's keeper has not finished.
SendLive(c) ==
  /\ step[c] = "idle" /\ Live(at[c])
  /\ step' = [step EXCEPT ![c] = "sending"]
  /\ UNCHANGED <<actorVars, map, at, guard, new, prompt, clock, reaping, removing>>

\* send_user_message(..).await, on a keeper that may have finished meanwhile.
SendPrompt(c) ==
  /\ step[c] = "sending"
  /\ InFlight(at[c]) < MaxInFlight
  /\ Send(at[c], "user")
  /\ step' = [step EXCEPT ![c] = "idle"]
  /\ UNCHANGED <<map, at, guard, new, prompt, clock, reaping, removing>>

SendInterrupt(c) ==
  /\ step[c] = "idle" /\ at[c] # NoKeeper
  /\ Send(at[c], "interrupt")
  /\ UNCHANGED keeperVars

-----------------------------------------------------------------------------
(* Time, the reaper and the deletion of the chat.                          *)

\* IDLE_TIMEOUT passes since the clock was started, and since the last viewer left.
Age(k) ==
  /\ "fresh" \in {idle[k], unseen[k]}
  /\ idle' = [idle EXCEPT ![k] = IF @ = "fresh" THEN "expired" ELSE @]
  /\ unseen' = [unseen EXCEPT ![k] = IF @ = "fresh" THEN "expired" ELSE @]
  /\ UNCHANGED <<actorVars, map, viewing, subs, reaping, removing>>

\* spawn_reaper: lock the map and read the viewer count.
ReaperLooks ==
  /\ reaper = "idle" /\ map # NoKeeper
  /\ subs[map] = 0
  /\ reaper' = "looking" /\ victim' = map
  /\ UNCHANGED <<actorVars, map, viewing, clock, removing>>

\* Mutant: only a keeper that is both finished and idle is forgotten.
ForgetsFinishedOnly ==
  /\ reaper = "looking"
  /\ finished[victim] /\ idle[victim] = "expired"
  /\ map' = NoKeeper
  /\ reaper' = "killing"
  /\ UNCHANGED <<actorVars, viewing, clock, victim, removing>>

\* Read idle_since and finished, and forget the keeper or keep it; unlock.
ReaperForgets ==
  /\ reaper = "looking"
  /\ finished[victim] \/ idle[victim] = "expired"
  /\ map' = NoKeeper
  /\ reaper' = "killing"
  /\ UNCHANGED <<actorVars, viewing, clock, victim, removing>>

ReaperKeeps ==
  /\ reaper = "looking"
  /\ ~finished[victim] /\ idle[victim] # "expired"
  /\ reaper' = "idle" /\ victim' = NoKeeper
  /\ UNCHANGED <<actorVars, map, viewing, clock, removing>>

\* Mutant: what was forgotten is not interrupted.
ReaperSpares ==
  /\ reaper = "killing"
  /\ reaper' = "idle" /\ victim' = NoKeeper
  /\ UNCHANGED <<actorVars, map, viewing, clock, removing>>

\* After the lock is released: interrupt what was forgotten.
ReaperKills ==
  /\ reaper = "killing"
  /\ Send(victim, "interrupt")
  /\ reaper' = "idle" /\ victim' = NoKeeper
  /\ UNCHANGED <<map, viewing, clock, removing>>

\* SessionManager::remove: take the keeper out of the map.
RemoveTakes ==
  /\ remover = "idle" /\ MapFree /\ map # NoKeeper
  /\ doomed' = map /\ map' = NoKeeper
  /\ remover' = "interrupting"
  /\ UNCHANGED <<actorVars, viewing, clock, reaping, removed>>

\* Mutant: the keeper of the deleted chat is not interrupted.
RemoveSpares ==
  /\ remover = "interrupting"
  /\ remover' = "waiting"
  /\ UNCHANGED <<actorVars, map, viewing, clock, reaping, doomed, removed>>

\* k.interrupt().await
RemoveInterrupts ==
  /\ remover = "interrupting"
  /\ Send(doomed, "interrupt")
  /\ remover' = "waiting"
  /\ UNCHANGED <<map, viewing, clock, reaping, doomed, removed>>

\* The bounded wait ends, whether or not the actor has finished; the caller
\* deletes the chat's files.
RemoveReturns ==
  /\ remover = "waiting"
  /\ remover' = "idle" /\ doomed' = NoKeeper
  /\ removed' = removed \cup {doomed}
  /\ UNCHANGED <<actorVars, map, viewing, clock, reaping>>

-----------------------------------------------------------------------------
(* The actors, and what they leave behind.                                 *)

Command(k) == (CliCommand(k) \/ NativeCommand(k)) /\ UNCHANGED keeperVars
Output(k) == CliOutput(k) /\ UNCHANGED keeperVars
Rest(k) == CliRest(k) /\ UNCHANGED keeperVars
TurnEnds(k) == NativeTurnEnds(k) /\ UNCHANGED keeperVars
Child(k) == ChildStep(k) /\ UNCHANGED keeperVars

LastHandleDropped(k) ==
  /\ ~Held(k)
  /\ NoHandles(k)
  /\ UNCHANGED keeperVars

\* Nothing of the keeper is left.
Freed(k) ==
  /\ ~Held(k)
  /\ FreeKeeper(k)
  /\ idle' = [idle EXCEPT ![k] = "none"]
  /\ unseen' = [unseen EXCEPT ![k] = "viewed"]
  /\ removed' = removed \ {k}
  /\ UNCHANGED <<map, viewing, subs, reaping, remover, doomed>>

ConnStep(c) ==
  \/ AttachMsg(c)
  \/ SendFinds(c)
  \/ \E k \in Keepers : SendSpawns(c, k)
  \/ AttachFails(c)
  \/ CountViewer(c)
  \/ StopClock(c)
  \/ Attached(c)
  \/ CloseSocket(c)
  \/ UncountViewer(c)
  \/ StartClock(c)
  \/ SocketGone(c)
  \/ SendLive(c)
  \/ SendPrompt(c)
  \/ SendInterrupt(c)

KeeperStep(k) ==
  \/ Age(k)
  \/ Command(k)
  \/ Output(k)
  \/ Rest(k)
  \/ TurnEnds(k)
  \/ Child(k)
  \/ LastHandleDropped(k)
  \/ Freed(k)

Next ==
  \/ \E c \in Conns : ConnStep(c)
  \/ \E k \in Keepers : KeeperStep(k)
  \/ ReaperLooks
  \/ ReaperForgets
  \/ ReaperKeeps
  \/ ReaperKills
  \/ RemoveTakes
  \/ RemoveInterrupts
  \/ RemoveReturns

Spec == Init /\ [][Next]_vars

\* Tasks that can run are polled, and the reaper wakes every REAP_INTERVAL.
\* Senders queue for a channel in order and select! picks among its ready branches
\* at random, so none of them starves.  A killed child exits.  That a turn ends is not
\* assumed, an interrupted one either.  Nobody must connect, send, or close a socket,
\* and nobody must delete the chat.
Fairness ==
  /\ \A c \in Conns :
       WF_vars(CountViewer(c) \/ StopClock(c) \/ Attached(c) \/ UncountViewer(c)
               \/ StartClock(c) \/ SocketGone(c))
  /\ \A k \in Keepers :
       /\ WF_vars(Age(k))
       /\ SF_vars(Command(k))
       /\ SF_vars(Output(k))
       /\ WF_vars(Rest(k))
       /\ WF_vars(Child(k) /\ proc[k] = "dying")
       /\ SF_vars(LastHandleDropped(k))
  /\ WF_vars(ReaperLooks) /\ WF_vars(ReaperForgets \/ ReaperKeeps)
  /\ SF_vars(ReaperKills) /\ SF_vars(RemoveInterrupts) /\ WF_vars(RemoveReturns)

FairSpec == Spec /\ Fairness

-----------------------------------------------------------------------------
TypeOK ==
  /\ ActorTypeOK
  /\ map \in Keepers \cup {NoKeeper}
  /\ {at, guard, new} \subseteq [Conns -> Keepers \cup {NoKeeper}]
  /\ step \in [Conns -> {"idle", "attaching", "counted", "attached", "dropping", "sending",
                         "markingOld", "closing", "marking", "closed"}]
  /\ subs \in [Keepers -> Nat]
  /\ idle \in [Keepers -> {"none", "fresh", "expired"}]
  /\ unseen \in [Keepers -> {"viewed", "fresh", "expired"}]
  /\ reaper \in {"idle", "looking", "killing"}
  /\ remover \in {"idle", "interrupting", "waiting"}
  /\ {victim, doomed} \subseteq Keepers \cup {NoKeeper}
  /\ removed \subseteq Keepers
  /\ prompt \subseteq Conns

Spawned(k) == pc[k] # "unborn"

\* A keeper that nobody views has its idle clock running, or a guard that is being
\* dropped is about to start it: whatever the order of attaches and drops, no
\* keeper escapes the reaper.
IdleClock ==
  \A k \in Keepers :
    Spawned(k) /\ subs[k] = 0 /\ idle[k] = "none"
    => \E c \in Conns : guard[c] = k /\ step[c] \in {"marking", "markingOld"}

\* The count of viewers is the number of guards, those being made included.
ViewersCounted ==
  \A k \in Keepers :
    subs[k] =
      Cardinality({c \in Conns : guard[c] = k /\ step[c] \notin {"marking", "markingOld"}})
      + Cardinality({c \in Conns : new[c] = k /\ step[c] # "attaching"})

\* CLI: a keeper that the map has forgotten is on its way out, so that a chat that
\* is reopened does not leave an earlier `claude` running.
NoOrphanProcess ==
  \A k \in Keepers :
    engine = "cli" /\ Spawned(k) /\ map # k =>
      \/ reaper = "killing" /\ victim = k
      \/ remover = "interrupting" /\ doomed = k
      \/ \E i \in 1..Len(queue[k]) : queue[k][i] = "interrupt"
      \/ pc[k] \in {"ending", "killing"}
      \/ proc[k] \in {"dying", "exited"}

\* A keeper that has no viewer is forgotten, unless one comes.
UnviewedIsForgotten ==
  \A k \in Keepers : (map = k /\ subs[k] = 0) ~> (map # k \/ subs[k] > 0)

\* CLI: the child of a forgotten keeper exits, although connections still hold the
\* keeper.
ForgottenChildExits ==
  \A k \in Keepers :
    (engine = "cli" /\ Spawned(k) /\ map # k) ~> (proc[k] \in {"none", "exited"})

\* An actor that nobody can reach any more ends, and if it is in a turn it interrupts
\* that turn: only a turn that never ends although it is interrupted keeps it alive.
UnreachableActorEnds ==
  \A k \in Keepers :
    \/ (Spawned(k) /\ ~Held(k)) ~> (pc[k] \in {"gone", "unborn"})
    \/ <>[](pc[k] = "turn" /\ intr[k])

\* What the documentation of remove says: no actor of a deleted chat lingers, so
\* none begins a turn once remove has returned.
NoTurnAfterRemoval ==
  [][\A k \in removed : pc[k] # "turn" => pc'[k] # "turn"]_vars
=============================================================================
