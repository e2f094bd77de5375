---------------------------- MODULE ActorsProofs ----------------------------
(* Lemmas about the steps of the actors, for the proofs of Drain and Keeper. *)
EXTENDS Actors, TLAPS

\* Every step an actor or its child can take.
ActorStep(k) ==
  \/ CliCommand(k) \/ CliOutput(k) \/ CliRest(k)
  \/ NativeCommand(k) \/ NativeTurnEnds(k)
  \/ ChildStep(k) \/ NoHandles(k)

\* Receiving a command leaves a shorter channel of commands.
LEMMA ReceivesType ==
  ASSUME ActorTypeOK, NEW k \in Keepers, NEW cmd, Receives(k, cmd)
  PROVE  /\ queue' \in [Keepers -> Seq({"user", "interrupt"})]
         /\ \A j \in Keepers : Len(queue'[j]) <= QueueCap
<1> DEFINE Cmds == {"user", "interrupt"}
<1>1. queue \in [Keepers -> Seq(Cmds)] /\ \A j \in Keepers : Len(queue[j]) <= QueueCap
  BY DEF ActorTypeOK
<1>2. queue[k] # <<>> /\ queue' = [queue EXCEPT ![k] = Tail(@)]
  BY DEF Receives
<1>3. Tail(queue[k]) \in Seq(Cmds) /\ Len(Tail(queue[k])) = Len(queue[k]) - 1
  BY <1>1, <1>2
<1>4. Len(queue[k]) \in Nat
  BY <1>1
<1> QED
  BY <1>1, <1>2, <1>3, <1>4, ActorsAssumption DEF ActorsAssumption

\* Sending a command appends it while there is room, or does nothing.
LEMMA SendType ==
  ASSUME ActorTypeOK, NEW k \in Keepers, NEW cmd \in {"user", "interrupt"}, Send(k, cmd)
  PROVE  ActorTypeOK'
<1> DEFINE Cmds == {"user", "interrupt"}
<1>1. queue \in [Keepers -> Seq(Cmds)] /\ \A j \in Keepers : Len(queue[j]) <= QueueCap
  BY DEF ActorTypeOK
<1>2. /\ queue' \in [Keepers -> Seq(Cmds)]
      /\ \A j \in Keepers : Len(queue'[j]) <= QueueCap
  <2>1. CASE pc[k] = "gone"
    BY <1>1, <2>1 DEF Send
  <2>2. CASE pc[k] # "gone"
    <3>1. Len(queue[k]) < QueueCap /\ queue' = [queue EXCEPT ![k] = Append(@, cmd)]
      BY <2>2 DEF Send
    <3>2. /\ Append(queue[k], cmd) \in Seq(Cmds)
          /\ Len(Append(queue[k], cmd)) = Len(queue[k]) + 1
          /\ Len(queue[k]) \in Nat
      BY <1>1
    <3> QED
      BY <1>1, <3>1, <3>2, ActorsAssumption DEF ActorsAssumption
  <2> QED
    BY <2>1, <2>2
<1>3. UNCHANGED <<engine, pc, busy, finished, intr, child>>
  BY DEF Send
<1> QED
  BY <1>2, <1>3 DEF ActorTypeOK, child

\* An actor's step keeps the types, and the engine.
LEMMA ActorStepType ==
  ASSUME ActorTypeOK, NEW k \in Keepers, ActorStep(k)
  PROVE  ActorTypeOK' /\ engine' = engine
<1> USE ActorsAssumption DEF ActorsAssumption
<1>1. CASE CliUser(k)
  BY <1>1, ReceivesType DEF CliUser, ActorTypeOK, child
<1>2. CASE CliWrite(k)
  BY <1>2 DEF CliWrite, ActorTypeOK
<1>3. CASE CliWriteFails(k)
  BY <1>3 DEF CliWriteFails, ActorTypeOK, child
<1>4. CASE CliInterrupt(k)
  BY <1>4, ReceivesType DEF CliInterrupt, ActorTypeOK
<1>5. CASE CliResult(k)
  BY <1>5 DEF CliResult, ActorTypeOK
<1>6. CASE CliExit(k)
  BY <1>6 DEF CliExit, ActorTypeOK, child
<1>7. CASE CliNoHandles(k)
  BY <1>7 DEF CliNoHandles, ActorTypeOK, child
<1>8. CASE CliFinish(k)
  BY <1>8 DEF CliFinish, ActorTypeOK, child
<1>9. CASE CliKill(k)
  BY <1>9 DEF CliKill, ActorTypeOK
<1>10. CASE ChildAnswers(k)
  BY <1>10 DEF ChildAnswers, ActorTypeOK
<1>11. CASE ChildExits(k)
  BY <1>11 DEF ChildExits, ActorTypeOK
<1>12. CASE NativeUser(k)
  BY <1>12, ReceivesType DEF NativeUser, ActorTypeOK, child
<1>13. CASE NativeTurnEnds(k)
  BY <1>13 DEF NativeTurnEnds, ActorTypeOK, child
<1>14. CASE NativeMidTurn(k)
  <2>1. /\ queue' \in [Keepers -> Seq({"user", "interrupt"})]
        /\ \A j \in Keepers : Len(queue'[j]) <= QueueCap
    BY <1>14, ReceivesType DEF NativeMidTurn
  <2>2. intr' \in [Keepers -> BOOLEAN]
    BY <1>14 DEF NativeMidTurn, ActorTypeOK
  <2> QED
    BY <1>14, <2>1, <2>2 DEF NativeMidTurn, ActorTypeOK, child
<1>15. CASE NativeIdleInterrupt(k)
  BY <1>15, ReceivesType DEF NativeIdleInterrupt, ActorTypeOK, child
<1>16. CASE NativeNoHandles(k)
  BY <1>16 DEF NativeNoHandles, ActorTypeOK, child
<1> QED
  BY <1>1, <1>2, <1>3, <1>4, <1>5, <1>6, <1>7, <1>8, <1>9, <1>10, <1>11, <1>12,
     <1>13, <1>14, <1>15, <1>16
  DEF ActorStep, CliCommand, CliOutput, CliRest, NativeCommand, ChildStep, NoHandles

\* An actor's step neither spawns nor frees a keeper.
LEMMA ActorStepSpawned ==
  ASSUME ActorTypeOK, NEW k \in Keepers, ActorStep(k)
  PROVE  \A j \in Keepers : pc'[j] = "unborn" <=> pc[j] = "unborn"
<1> USE DEF ActorTypeOK
<1>1. CASE CliCommand(k) \/ CliOutput(k)
  BY <1>1 DEF CliCommand, CliOutput, CliUser, CliInterrupt, CliResult, CliExit
<1>2. CASE CliRest(k)
  BY <1>2 DEF CliRest, CliWrite, CliWriteFails, CliFinish, CliKill
<1>3. CASE NativeCommand(k) \/ NativeTurnEnds(k)
  BY <1>3 DEF NativeCommand, NativeUser, NativeMidTurn, NativeIdleInterrupt, NativeTurnEnds
<1>4. CASE ChildStep(k) \/ NoHandles(k)
  BY <1>4 DEF ChildStep, ChildAnswers, ChildExits, NoHandles, CliNoHandles, NativeNoHandles
<1> QED
  BY <1>1, <1>2, <1>3, <1>4 DEF ActorStep

\* An actor's step changes nothing of another keeper.
LEMMA ActorStepLocal ==
  ASSUME ActorTypeOK, NEW k \in Keepers, NEW j \in Keepers, j # k, ActorStep(j)
  PROVE  /\ queue'[k] = queue[k] /\ pc'[k] = pc[k] /\ proc'[k] = proc[k]
         /\ finished'[k] = finished[k]
<1> USE DEF ActorTypeOK
<1>1. CASE CliCommand(j) \/ CliOutput(j)
  BY <1>1 DEF CliCommand, CliOutput, CliUser, CliInterrupt, CliResult, CliExit, Receives, child
<1>2. CASE CliRest(j)
  BY <1>2 DEF CliRest, CliWrite, CliWriteFails, CliFinish, CliKill, child
<1>3. CASE NativeCommand(j) \/ NativeTurnEnds(j)
  BY <1>3 DEF NativeCommand, NativeUser, NativeMidTurn, NativeIdleInterrupt, NativeTurnEnds,
              Receives, child
<1>4. CASE ChildStep(j) \/ NoHandles(j)
  BY <1>4 DEF ChildStep, ChildAnswers, ChildExits, NoHandles, CliNoHandles, NativeNoHandles,
              child
<1> QED
  BY <1>1, <1>2, <1>3, <1>4 DEF ActorStep
=============================================================================
