----------------------------- MODULE DrainProofs -----------------------------
(***************************************************************************)
(* Proofs about Drain, for any number of keepers and connections and any   *)
(* capacities: the types, that a native keeper reports exactly its turns,  *)
(* and that a stop which is not forced waits for every turn that was       *)
(* reported at the stop signal.                                            *)
(***************************************************************************)
EXTENDS Drain, ActorsProofs

\* A handler that sends has a keeper to send to.
TargetOK == \A c \in Conns : handler[c] = "sending" => target[c] \in Keepers

\* The steps of actors and children, in one form.
LEMMA ActorSteps ==
  ASSUME NEW k \in Keepers, Actor(k) \/ TurnEnds(k) \/ Child(k)
  PROVE  /\ ActorStep(k) /\ Running
         /\ UNCHANGED <<draining, handler, target, phase, forced, lifted, poll, left, found>>
         /\ \/ owed' = StillOwed
            \/ UNCHANGED <<owed, busy, finished>>
BY DEF Actor, TurnEnds, Child, ActorStep, ChildStep, ChildAnswers, ChildExits,
       clients, shutdown, count, drainVars

-----------------------------------------------------------------------------
LEMMA TypeInit == Init => TypeOK
<1> SUFFICES ASSUME Init PROVE TypeOK
  OBVIOUS
<1> USE ActorsAssumption, DrainAssumption DEF ActorsAssumption, DrainAssumption
<1>1. ActorTypeOK
  <2>1. /\ queue \in [Keepers -> Seq({"user", "interrupt"})]
        /\ \A k \in Keepers : Len(queue[k]) <= QueueCap
    BY DEF Init, ActorInit
  <2> QED
    BY <2>1 DEF Init, ActorInit, ActorTypeOK
<1> QED
  BY <1>1 DEF Init, TypeOK

LEMMA TypeStep == TypeOK /\ TargetOK /\ [Next]_vars => TypeOK'
<1> SUFFICES ASSUME TypeOK, TargetOK, [Next]_vars PROVE TypeOK'
  OBVIOUS
<1> USE ActorsAssumption, DrainAssumption DEF ActorsAssumption, DrainAssumption
<1>1. ASSUME NEW c \in Conns, NEW k \in Keepers, SendCheck(c, k) PROVE TypeOK'
  BY <1>1 DEF SendCheck, TypeOK, ActorTypeOK, actorVars, shutdown, count
<1>2. ASSUME NEW c \in Conns, NEW k \in Keepers, SendSpawns(c, k) PROVE TypeOK'
  <2>1. ActorTypeOK'
    BY <1>2 DEF SendSpawns, TypeOK, ActorTypeOK
  <2>2. handler' \in [Conns -> {"idle", "sending"}]
    BY <1>2 DEF SendSpawns, TypeOK
  <2>3. target' \in [Conns -> Keepers \cup {NoKeeper}]
    BY <1>2 DEF SendSpawns, TypeOK
  <2> QED
    BY <1>2, <2>1, <2>2, <2>3 DEF SendSpawns, TypeOK, shutdown, count
<1>3. ASSUME NEW c \in Conns, NEW k \in Keepers, SendInterrupt(c, k) PROVE TypeOK'
  BY <1>3, SendType DEF SendInterrupt, TypeOK, drainVars
<1>4. ASSUME NEW c \in Conns, SendPrompt(c) PROVE TypeOK'
  <2>1. target[c] \in Keepers
    BY <1>4 DEF SendPrompt, TargetOK
  <2>2. ActorTypeOK'
    BY <1>4, <2>1, SendType DEF SendPrompt, TypeOK
  <2> QED
    BY <1>4, <2>2 DEF SendPrompt, TypeOK, shutdown, count
<1>5. ASSUME NEW k \in Keepers, Actor(k) \/ TurnEnds(k) \/ Child(k) PROVE TypeOK'
  <2>1. ActorTypeOK'
    BY <1>5, ActorSteps, ActorStepType DEF TypeOK
  <2>2. owed' \in SUBSET Keepers
    BY <1>5, ActorSteps DEF TypeOK, StillOwed
  <2> QED
    BY <1>5, <2>1, <2>2, ActorSteps DEF TypeOK
<1>6. ASSUME NEW k \in Keepers, CountOne(k) PROVE TypeOK'
  <2>1. found' \in BOOLEAN
    BY <1>6 DEF CountOne, TypeOK
  <2> QED
    BY <1>6, <2>1 DEF CountOne, TypeOK, ActorTypeOK, actorVars, clients, shutdown
<1>7. CASE DrainBegin \/ DrainEnd
  <2>1. /\ draining' \in BOOLEAN /\ lifted' \in BOOLEAN
        /\ UNCHANGED <<clients, phase, forced, count, owed>>
    BY <1>7 DEF DrainBegin, DrainEnd, shutdown, TypeOK
  <2>2. UNCHANGED actorVars
    BY <1>7 DEF DrainBegin, DrainEnd
  <2>3. ActorTypeOK'
    BY <2>2 DEF TypeOK, ActorTypeOK, actorVars
  <2> QED
    BY <2>1, <2>3 DEF TypeOK, clients, count
<1>8. CASE OperatorPolls \/ OperatorReads
  <2>1. /\ poll' \in {"none", "operator", "signal", "wait"} /\ left' \in SUBSET Keepers
        /\ found' \in BOOLEAN /\ UNCHANGED <<draining, clients, shutdown, owed>>
    BY <1>8 DEF OperatorPolls, OperatorReads, StartCount, TypeOK
  <2>2. UNCHANGED actorVars
    BY <1>8 DEF OperatorPolls, OperatorReads
  <2>3. ActorTypeOK'
    BY <2>2 DEF TypeOK, ActorTypeOK, actorVars
  <2> QED
    BY <2>1, <2>3 DEF TypeOK, clients, shutdown
<1>9. CASE StopSignal \/ DrainForStop \/ KeepWaiting
  BY <1>9 DEF StopSignal, DrainForStop, KeepWaiting, StartCount, TypeOK, ActorTypeOK,
              actorVars, clients, shutdown
<1>10. CASE NothingInFlight \/ DrainComplete \/ ForceStop
  BY <1>10 DEF NothingInFlight, DrainComplete, ForceStop, TypeOK, ActorTypeOK,
               actorVars, clients
<1>11. CASE UNCHANGED vars
  BY <1>11 DEF vars, drainVars, TypeOK, ActorTypeOK, actorVars
<1> QED
  BY <1>1, <1>2, <1>3, <1>4, <1>5, <1>6, <1>7, <1>8, <1>9, <1>10, <1>11
  DEF Next, Stopped

LEMMA TargetStep == TypeOK /\ TargetOK /\ [Next]_vars => TargetOK'
<1> SUFFICES ASSUME TypeOK, TargetOK, [Next]_vars, NEW d \in Conns, handler'[d] = "sending"
             PROVE  target'[d] \in Keepers
  BY DEF TargetOK
<1>1. /\ handler \in [Conns -> {"idle", "sending"}]
      /\ target \in [Conns -> Keepers \cup {NoKeeper}]
  BY DEF TypeOK
<1>2. CASE UNCHANGED <<handler, target>>
  BY <1>2 DEF TargetOK
<1>3. ASSUME NEW c \in Conns, NEW k \in Keepers,
             SendCheck(c, k) \/ SendSpawns(c, k) \/ SendInterrupt(c, k)
      PROVE  target'[d] \in Keepers
  BY <1>1, <1>3 DEF SendCheck, SendSpawns, SendInterrupt, drainVars, TargetOK
<1>4. ASSUME NEW c \in Conns, SendPrompt(c) PROVE target'[d] \in Keepers
  BY <1>1, <1>4 DEF SendPrompt, TargetOK
<1>5. ASSUME NEW k \in Keepers, Actor(k) \/ TurnEnds(k) \/ Child(k) \/ CountOne(k)
      PROVE  UNCHANGED <<handler, target>>
  BY <1>5, ActorSteps DEF CountOne, clients
<1>6. CASE \/ DrainBegin \/ DrainEnd \/ OperatorPolls \/ OperatorReads \/ StopSignal
           \/ NothingInFlight \/ DrainForStop \/ KeepWaiting \/ DrainComplete \/ ForceStop
           \/ UNCHANGED vars
  BY <1>2, <1>6 DEF DrainBegin, DrainEnd, OperatorPolls, OperatorReads, StopSignal,
     NothingInFlight, DrainForStop, KeepWaiting, DrainComplete, ForceStop, clients, vars,
     drainVars
<1> QED
  BY <1>2, <1>3, <1>4, <1>5, <1>6 DEF Next, Stopped

\* The types of the actors, the flag, the handlers and the count.
THEOREM TypeCorrect == Spec => []TypeOK
<1>1. Init => TypeOK /\ TargetOK
  BY TypeInit DEF Init, TargetOK
<1>2. TypeOK /\ TargetOK /\ [Next]_vars => TypeOK' /\ TargetOK'
  BY TypeStep, TargetStep
<1> QED
  BY <1>1, <1>2, PTL DEF Spec

-----------------------------------------------------------------------------
(* A native keeper is busy exactly while its actor is in a turn.  The      *)
(* states of the CLI actor, which store busy at other places, do not       *)
(* occur.                                                                  *)
NativeInv ==
  engine = "native" =>
    \A k \in Keepers :
      /\ pc[k] \in {"unborn", "idle", "turn", "gone"}
      /\ busy[k] <=> pc[k] = "turn"

LEMMA NativeStep == TypeOK /\ NativeInv /\ [Next]_vars => NativeInv'
<1> SUFFICES ASSUME TypeOK, NativeInv, [Next]_vars,
                    engine' = "native", NEW j \in Keepers
             PROVE  /\ pc'[j] \in {"unborn", "idle", "turn", "gone"}
                    /\ busy'[j] <=> pc'[j] = "turn"
  BY DEF NativeInv
<1>1. /\ pc \in [Keepers -> {"unborn", "idle", "writing", "turn", "ending", "killing", "gone"}]
      /\ busy \in [Keepers -> BOOLEAN]
  BY DEF TypeOK, ActorTypeOK
<1>2. CASE UNCHANGED <<engine, pc, busy>>
  BY <1>2 DEF NativeInv
<1>3. ASSUME NEW k \in Keepers, ActorStep(k)
      PROVE  /\ pc'[j] \in {"unborn", "idle", "turn", "gone"}
             /\ busy'[j] <=> pc'[j] = "turn"
  <2>1. engine = "native"
    BY <1>3, ActorStepType DEF TypeOK
  <2>2. \A i \in Keepers : /\ pc[i] \in {"unborn", "idle", "turn", "gone"}
                           /\ busy[i] <=> pc[i] = "turn"
    BY <2>1 DEF NativeInv
  <2>3. ~CliCommand(k) /\ ~CliOutput(k) /\ ~CliRest(k) /\ ~CliNoHandles(k)
    BY <2>1, <2>2 DEF CliCommand, CliOutput, CliRest, CliUser, CliInterrupt, CliResult,
                      CliExit, CliWrite, CliWriteFails, CliFinish, CliKill, CliNoHandles
  <2>4. CASE NativeUser(k)
    BY <1>1, <2>2, <2>4 DEF NativeUser
  <2>5. CASE NativeTurnEnds(k)
    BY <1>1, <2>2, <2>5 DEF NativeTurnEnds
  <2>6. CASE NativeNoHandles(k)
    BY <1>1, <2>2, <2>6 DEF NativeNoHandles
  <2>7. CASE NativeMidTurn(k) \/ NativeIdleInterrupt(k) \/ ChildStep(k)
    BY <2>2, <2>7 DEF NativeMidTurn, NativeIdleInterrupt, ChildStep, ChildAnswers, ChildExits
  <2> QED
    BY <1>3, <2>3, <2>4, <2>5, <2>6, <2>7 DEF ActorStep, NativeCommand, NoHandles
<1>4. ASSUME NEW c \in Conns, NEW k \in Keepers, SendSpawns(c, k)
      PROVE  /\ pc'[j] \in {"unborn", "idle", "turn", "gone"}
             /\ busy'[j] <=> pc'[j] = "turn"
  BY <1>1, <1>4 DEF SendSpawns, NativeInv
<1>5. ASSUME NEW c \in Conns, NEW k \in Keepers, SendCheck(c, k) \/ SendInterrupt(c, k)
      PROVE  UNCHANGED <<engine, pc, busy>>
  BY <1>5 DEF SendCheck, SendInterrupt, Send, actorVars
<1>6. ASSUME NEW c \in Conns, SendPrompt(c) PROVE UNCHANGED <<engine, pc, busy>>
  BY <1>6 DEF SendPrompt, Send
<1>7. ASSUME NEW k \in Keepers, CountOne(k) PROVE UNCHANGED <<engine, pc, busy>>
  BY <1>7 DEF CountOne, actorVars
<1>8. CASE \/ DrainBegin \/ DrainEnd \/ OperatorPolls \/ OperatorReads \/ StopSignal
           \/ NothingInFlight \/ DrainForStop \/ KeepWaiting \/ DrainComplete \/ ForceStop
           \/ UNCHANGED vars
  BY <1>2, <1>8 DEF DrainBegin, DrainEnd, OperatorPolls, OperatorReads, StopSignal,
     NothingInFlight, DrainForStop, KeepWaiting, DrainComplete, ForceStop, actorVars, vars
<1>9. ASSUME NEW k \in Keepers, Actor(k) \/ TurnEnds(k) \/ Child(k) PROVE ActorStep(k)
  BY <1>9, ActorSteps
<1> QED
  BY <1>2, <1>3, <1>4, <1>5, <1>6, <1>7, <1>8, <1>9 DEF Next, Stopped

\* A native keeper reports a turn exactly while run_turn runs.
THEOREM NativeBusyIsTheTurn == Spec => []NativeBusyIsTurn
<1>1. Init => NativeInv
  BY DEF Init, ActorInit, NativeInv
<1>2. TypeOK /\ NativeInv /\ [Next]_vars => NativeInv'
  BY NativeStep
<1>3. NativeInv => NativeBusyIsTurn
  BY DEF NativeInv, NativeBusyIsTurn
<1> QED
  BY <1>1, <1>2, <1>3, TypeCorrect, PTL DEF Spec

-----------------------------------------------------------------------------
(* The stop.  A keeper that is owed its turn has been mid-turn ever since  *)
(* the stop signal, so a count that has passed it has found a turn.        *)
OwedInv ==
  /\ \A k \in owed : k \in Keepers /\ MidTurn(k)
  /\ phase = "up" => owed = {} /\ poll \notin {"signal", "wait"}
  /\ phase = "stopping" => \A k \in owed : k \in left \/ found
  /\ phase = "stopped" => poll = "none" /\ (~forced => owed = {})

LEMMA OwedStep == TypeOK /\ OwedInv /\ [Next]_vars => OwedInv'
<1> SUFFICES ASSUME TypeOK, OwedInv, [Next]_vars PROVE OwedInv'
  OBVIOUS
<1>1. /\ busy \in [Keepers -> BOOLEAN] /\ finished \in [Keepers -> BOOLEAN]
      /\ phase \in {"up", "stopping", "stopped"} /\ owed \subseteq Keepers
  BY DEF TypeOK, ActorTypeOK
<1>2. ASSUME UNCHANGED <<busy, finished, phase, forced, poll, left, found, owed>>
      PROVE  OwedInv'
  BY <1>2 DEF OwedInv, MidTurn
<1>3. ASSUME NEW c \in Conns, NEW k \in Keepers, SendCheck(c, k) \/ SendInterrupt(c, k)
      PROVE  OwedInv'
  BY <1>2, <1>3 DEF SendCheck, SendInterrupt, Send, actorVars, shutdown, count, drainVars
<1>4. ASSUME NEW c \in Conns, NEW k \in Keepers, SendSpawns(c, k) PROVE OwedInv'
  <2>1. finished' = [finished EXCEPT ![k] = FALSE] /\ UNCHANGED busy
    BY <1>4 DEF SendSpawns
  <2>2. \A i \in Keepers : MidTurn(i) => MidTurn(i)'
    BY <1>1, <2>1 DEF MidTurn
  <2> QED
    BY <1>1, <1>4, <2>2 DEF SendSpawns, OwedInv, shutdown, count
<1>5. ASSUME NEW c \in Conns, SendPrompt(c) PROVE OwedInv'
  BY <1>2, <1>5 DEF SendPrompt, Send, shutdown, count
<1>6. ASSUME NEW k \in Keepers, Actor(k) \/ TurnEnds(k) \/ Child(k) PROVE OwedInv'
  <2>1. CASE owed' = StillOwed
    BY <1>1, <1>6, <2>1, ActorSteps DEF OwedInv, StillOwed
  <2>2. CASE UNCHANGED <<owed, busy, finished>>
    BY <1>2, <1>6, <2>2, ActorSteps
  <2> QED
    BY <1>6, <2>1, <2>2, ActorSteps
<1>7. ASSUME NEW k \in Keepers, CountOne(k) PROVE OwedInv'
  <2>1. /\ left' = left \ {k} /\ found' = (found \/ MidTurn(k))
        /\ UNCHANGED <<busy, finished, phase, forced, poll, owed>>
    BY <1>7 DEF CountOne, actorVars, shutdown
  <2> QED
    BY <1>1, <2>1 DEF OwedInv, MidTurn
<1>8. CASE DrainBegin \/ DrainEnd
  BY <1>2, <1>8 DEF DrainBegin, DrainEnd, actorVars, shutdown, count
<1>9. CASE OperatorPolls \/ OperatorReads
  BY <1>9 DEF OperatorPolls, OperatorReads, StartCount, OwedInv, MidTurn, actorVars, shutdown
<1>10. CASE StopSignal
  BY <1>10 DEF StopSignal, StartCount, OwedInv, MidTurn, actorVars
<1>11. CASE DrainForStop \/ KeepWaiting
  BY <1>1, <1>11 DEF DrainForStop, KeepWaiting, StartCount, OwedInv, MidTurn, actorVars, shutdown
<1>12. CASE NothingInFlight \/ DrainComplete
  BY <1>1, <1>12 DEF NothingInFlight, DrainComplete, OwedInv, MidTurn, actorVars
<1>13. CASE ForceStop
  BY <1>13 DEF ForceStop, OwedInv, MidTurn, actorVars
<1>14. CASE UNCHANGED vars
  BY <1>2, <1>14 DEF vars, drainVars, actorVars
<1> QED
  BY <1>3, <1>4, <1>5, <1>6, <1>7, <1>8, <1>9, <1>10, <1>11, <1>12, <1>13, <1>14
  DEF Next, Stopped

\* An unforced stop waits until each turn that busy reported at the stop signal has been
\* reported as ended, whatever begins and ends while the keepers are counted one by one,
\* and although the drain may be lifted meanwhile.
THEOREM StopWaits == Spec => []StopWaitsForTurns
<1>1. Init => OwedInv
  BY DEF Init, OwedInv
<1>2. TypeOK /\ OwedInv /\ [Next]_vars => OwedInv'
  BY OwedStep
<1>3. OwedInv => StopWaitsForTurns
  BY DEF OwedInv, StopWaitsForTurns
<1> QED
  BY <1>1, <1>2, <1>3, TypeCorrect, PTL DEF Spec
=============================================================================
