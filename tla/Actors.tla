------------------------------- MODULE Actors -------------------------------
(***************************************************************************)
(* The background task of each keeper (src/src/session.rs): run_actor,     *)
(* which owns a `claude` child process, and run_native_actor, which drives *)
(* the agent loop itself.  CWI_ENGINE chooses one of them for the whole    *)
(* server.  The module has no Next of its own: Drain and Keeper compose    *)
(* its actions with the connections, the map and the shutdown.             *)
(*                                                                         *)
(* Commands reach an actor through a bounded channel.  The child reads     *)
(* prompts from one pipe and writes `result` lines to another; both hold   *)
(* PipeCap of them, and a write to a full pipe waits.                      *)
(***************************************************************************)
EXTENDS Naturals, Sequences, FiniteSets

CONSTANTS Engines,   \* the values of CWI_ENGINE: "cli", "native" or both
          Keepers,   \* keepers, one actor each
          QueueCap,  \* capacity of a keeper's command channel
          PipeCap    \* prompts, and results, that the child's pipes hold

ASSUME ActorsAssumption ==
  /\ Engines \subseteq {"cli", "native"}
  /\ IsFiniteSet(Keepers)
  /\ QueueCap \in Nat \ {0}
  /\ PipeCap \in Nat \ {0}

VARIABLES
  engine,    \* "cli" or "native"
  queue,     \* queue[k]: the commands in the channel
  pc,        \* where k's actor is
  busy,      \* SessionKeeper.busy
  finished,  \* SessionKeeper.finished
  intr,      \* native: the interrupt flag the engine polls
  proc,      \* CLI: the child process
  asked,     \* CLI: prompts in the child's stdin or being answered
  answers    \* CLI: result lines in the child's stdout

actorVars == <<engine, queue, pc, busy, finished, intr, proc, asked, answers>>
child == <<proc, asked, answers>>

ActorInit ==
  /\ engine \in Engines
  /\ queue = [k \in Keepers |-> <<>>]
  /\ pc = [k \in Keepers |-> "unborn"]
  /\ busy = [k \in Keepers |-> FALSE]
  /\ finished = [k \in Keepers |-> FALSE]
  /\ intr = [k \in Keepers |-> FALSE]
  /\ proc = [k \in Keepers |-> "none"]
  /\ asked = [k \in Keepers |-> 0]
  /\ answers = [k \in Keepers |-> 0]

\* build_cli_keeper, build_native_keeper: spawn the child and the task.
SpawnKeeper(k) ==
  /\ pc[k] = "unborn"
  /\ pc' = [pc EXCEPT ![k] = "idle"]
  /\ proc' = [proc EXCEPT ![k] = IF engine = "cli" THEN "alive" ELSE "none"]
  /\ UNCHANGED <<engine, queue, busy, finished, intr, asked, answers>>

\* The last Arc of a keeper whose actor and child are gone is dropped: the model
\* uses its name again for a later keeper.
FreeKeeper(k) ==
  /\ pc[k] = "gone" /\ proc[k] \in {"none", "exited"}
  /\ pc' = [pc EXCEPT ![k] = "unborn"]
  /\ proc' = [proc EXCEPT ![k] = "none"]
  /\ busy' = [busy EXCEPT ![k] = FALSE]
  /\ finished' = [finished EXCEPT ![k] = FALSE]
  /\ intr' = [intr EXCEPT ![k] = FALSE]
  /\ asked' = [asked EXCEPT ![k] = 0]
  /\ answers' = [answers EXCEPT ![k] = 0]
  /\ UNCHANGED <<engine, queue>>

\* Mutant: the command channel is unbounded.
SendUnbounded(k, cmd) ==
  /\ pc[k] # "unborn"
  /\ Len(queue[k]) <= QueueCap
  /\ queue' = [queue EXCEPT ![k] = IF pc[k] = "gone" THEN @ ELSE Append(@, cmd)]
  /\ UNCHANGED <<engine, pc, busy, finished, intr, child>>

\* cmd_tx.send(..).await: waits while the channel is full, and does nothing once
\* the actor has returned and its receiver is gone.
Send(k, cmd) ==
  /\ pc[k] # "unborn"
  /\ IF pc[k] = "gone" THEN UNCHANGED queue
     ELSE /\ Len(queue[k]) < QueueCap
          /\ queue' = [queue EXCEPT ![k] = Append(@, cmd)]
  /\ UNCHANGED <<engine, pc, busy, finished, intr, child>>

\* cmd_rx.recv()
Receives(k, cmd) ==
  /\ queue[k] # <<>> /\ Head(queue[k]) = cmd
  /\ queue' = [queue EXCEPT ![k] = Tail(@)]

-----------------------------------------------------------------------------
(* run_actor *)

\* A prompt: busy, the echo, then the write to the child's stdin begins.
CliUser(k) ==
  /\ engine = "cli" /\ pc[k] = "idle"
  /\ Receives(k, "user")
  /\ busy' = [busy EXCEPT ![k] = TRUE]
  /\ pc' = [pc EXCEPT ![k] = "writing"]
  /\ UNCHANGED <<engine, finished, intr, child>>

\* The write ends when the pipe has room; while it waits the actor reads neither
\* commands nor the child's output.
CliWrite(k) ==
  /\ pc[k] = "writing"
  /\ proc[k] # "exited"
  /\ asked[k] < PipeCap
  /\ asked' = [asked EXCEPT ![k] = @ + 1]
  /\ pc' = [pc EXCEPT ![k] = "idle"]
  /\ UNCHANGED <<engine, queue, busy, finished, intr, proc, answers>>

\* The write fails because the child is gone: the loop breaks without an exit frame.
CliWriteFails(k) ==
  /\ pc[k] = "writing"
  /\ proc[k] = "exited"
  /\ pc' = [pc EXCEPT ![k] = "ending"]
  /\ UNCHANGED <<engine, queue, busy, finished, intr, child>>

\* Cmd::Interrupt: kill_process_tree, which does not wait for the exit.
CliInterrupt(k) ==
  /\ engine = "cli" /\ pc[k] = "idle"
  /\ Receives(k, "interrupt")
  /\ proc' = [proc EXCEPT ![k] = IF @ = "alive" THEN "dying" ELSE @]
  /\ UNCHANGED <<engine, pc, busy, finished, intr, asked, answers>>

\* A `result` line ends the turn.
CliResult(k) ==
  /\ engine = "cli" /\ pc[k] = "idle"
  /\ answers[k] > 0
  /\ answers' = [answers EXCEPT ![k] = @ - 1]
  /\ busy' = [busy EXCEPT ![k] = FALSE]
  /\ UNCHANGED <<engine, queue, pc, finished, intr, proc, asked>>

\* End of the child's output: the exit frame, and the loop breaks.
CliExit(k) ==
  /\ engine = "cli" /\ pc[k] = "idle"
  /\ proc[k] = "exited" /\ answers[k] = 0
  /\ pc' = [pc EXCEPT ![k] = "ending"]
  /\ UNCHANGED <<engine, queue, busy, finished, intr, child>>

\* recv returns None: every handle of the keeper was dropped.
CliNoHandles(k) ==
  /\ engine = "cli" /\ pc[k] = "idle"
  /\ queue[k] = <<>>
  /\ pc' = [pc EXCEPT ![k] = "ending"]
  /\ UNCHANGED <<engine, queue, busy, finished, intr, child>>

\* After the loop: busy and finished are stored before the child is killed.
CliFinish(k) ==
  /\ pc[k] = "ending"
  /\ busy' = [busy EXCEPT ![k] = FALSE]
  /\ finished' = [finished EXCEPT ![k] = TRUE]
  /\ pc' = [pc EXCEPT ![k] = "killing"]
  /\ UNCHANGED <<engine, queue, intr, child>>

\* The last statement of run_actor; what is left in the channel is dropped.
CliKill(k) ==
  /\ pc[k] = "killing"
  /\ proc' = [proc EXCEPT ![k] = IF @ = "alive" THEN "dying" ELSE @]
  /\ pc' = [pc EXCEPT ![k] = "gone"]
  /\ queue' = [queue EXCEPT ![k] = <<>>]
  /\ UNCHANGED <<engine, busy, finished, intr, asked, answers>>

\* The child (external): it answers a prompt with a result line, waiting while
\* its stdout is full, or exits, killed or of itself.
ChildAnswers(k) ==
  /\ proc[k] = "alive"
  /\ asked[k] > 0 /\ answers[k] < PipeCap
  /\ asked' = [asked EXCEPT ![k] = @ - 1]
  /\ answers' = [answers EXCEPT ![k] = @ + 1]
  /\ UNCHANGED <<engine, queue, pc, busy, finished, intr, proc>>

ChildExits(k) ==
  /\ proc[k] \in {"alive", "dying"}
  /\ proc' = [proc EXCEPT ![k] = "exited"]
  /\ asked' = [asked EXCEPT ![k] = 0]
  /\ UNCHANGED <<engine, queue, pc, busy, finished, intr, answers>>

-----------------------------------------------------------------------------
(* run_native_actor *)

\* A prompt when idle starts a turn.
NativeUser(k) ==
  /\ engine = "native" /\ pc[k] = "idle"
  /\ Receives(k, "user")
  /\ intr' = [intr EXCEPT ![k] = FALSE]
  /\ busy' = [busy EXCEPT ![k] = TRUE]
  /\ pc' = [pc EXCEPT ![k] = "turn"]
  /\ UNCHANGED <<engine, finished, child>>

\* Mutant: busy is left set when a turn ends.
BusyLeftSet(k) ==
  /\ pc[k] = "turn"
  /\ pc' = [pc EXCEPT ![k] = "idle"]
  /\ UNCHANGED <<engine, queue, busy, finished, intr, child>>

\* run_turn returns: by itself, or because it saw the interrupt flag.
NativeTurnEnds(k) ==
  /\ pc[k] = "turn"
  /\ busy' = [busy EXCEPT ![k] = FALSE]
  /\ pc' = [pc EXCEPT ![k] = "idle"]
  /\ UNCHANGED <<engine, queue, finished, intr, child>>

\* A command while a turn runs: an interrupt sets the flag, a prompt is dropped.
NativeMidTurn(k) ==
  /\ pc[k] = "turn"
  /\ \/ Receives(k, "interrupt") /\ intr' = [intr EXCEPT ![k] = TRUE]
     \/ Receives(k, "user") /\ UNCHANGED intr
  /\ UNCHANGED <<engine, pc, busy, finished, child>>

\* An interrupt when idle: nothing runs, nothing happens.
NativeIdleInterrupt(k) ==
  /\ engine = "native" /\ pc[k] = "idle"
  /\ Receives(k, "interrupt")
  /\ UNCHANGED <<engine, pc, busy, finished, intr, child>>

\* Mutant: only an idle actor sees that its handles are gone.
TurnOutlivesHandles(k) ==
  /\ engine = "native"
  /\ queue[k] = <<>> /\ pc[k] = "idle"
  /\ finished' = [finished EXCEPT ![k] = TRUE]
  /\ pc' = [pc EXCEPT ![k] = "gone"]
  /\ UNCHANGED <<engine, queue, busy, intr, child>>

\* recv returns None: a running turn is interrupted, an idle actor returns.
NativeNoHandles(k) ==
  /\ engine = "native"
  /\ queue[k] = <<>>
  /\ \/ /\ pc[k] = "turn" /\ ~intr[k]
        /\ intr' = [intr EXCEPT ![k] = TRUE]
        /\ UNCHANGED <<pc, finished>>
     \/ /\ pc[k] = "idle"
        /\ finished' = [finished EXCEPT ![k] = TRUE]
        /\ pc' = [pc EXCEPT ![k] = "gone"]
        /\ UNCHANGED intr
  /\ UNCHANGED <<engine, queue, busy, child>>

-----------------------------------------------------------------------------
\* The two branches of run_actor's select!, and what follows a branch.
CliCommand(k) == CliUser(k) \/ CliInterrupt(k)
CliOutput(k) == CliResult(k) \/ CliExit(k)
CliRest(k) == CliWrite(k) \/ CliWriteFails(k) \/ CliFinish(k) \/ CliKill(k)

NativeCommand(k) == NativeUser(k) \/ NativeMidTurn(k) \/ NativeIdleInterrupt(k)

ChildStep(k) == ChildAnswers(k) \/ ChildExits(k)

NoHandles(k) == CliNoHandles(k) \/ NativeNoHandles(k)

\* A turn runs, as the keeper reports it.
MidTurn(k) == busy[k] /\ ~finished[k]

ActorTypeOK ==
  /\ engine \in Engines
  /\ queue \in [Keepers -> Seq({"user", "interrupt"})]
  /\ \A k \in Keepers : Len(queue[k]) <= QueueCap
  /\ pc \in [Keepers -> {"unborn", "idle", "writing", "turn", "ending", "killing", "gone"}]
  /\ busy \in [Keepers -> BOOLEAN]
  /\ finished \in [Keepers -> BOOLEAN]
  /\ intr \in [Keepers -> BOOLEAN]
  /\ proc \in [Keepers -> {"none", "alive", "dying", "exited"}]
  /\ asked \in [Keepers -> 0..PipeCap]
  /\ answers \in [Keepers -> 0..PipeCap]
=============================================================================
