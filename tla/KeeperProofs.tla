---------------------------- MODULE KeeperProofs ----------------------------
(***************************************************************************)
(* Proofs about Keeper, for any number of keepers and connections and any  *)
(* capacities: the types, that the count of viewers is the number of       *)
(* guards, that a keeper without viewers has its idle clock running, and   *)
(* that a CLI keeper outside the map is on its way out.                    *)
(***************************************************************************)
EXTENDS Keeper, ActorsProofs, FiniteSetTheorems

\* The steps of a socket task that is attaching, and of one that starts a clock.
Attaching == {"attaching", "counted", "attached", "dropping", "markingOld"}
Marking == {"marking", "markingOld"}

\* What a socket task refers to at each of its steps.
ConnInv ==
  \A c \in Conns :
    /\ new[c] \in Keepers <=> step[c] \in Attaching
    /\ step[c] \in Marking => guard[c] \in Keepers
    /\ step[c] \in {"attached", "closed"} => guard[c] = NoKeeper
    /\ step[c] = "sending" => at[c] \in Keepers

\* What the reaper and a deletion refer to; the reaper holds the map's lock while it
\* looks.
TaskInv ==
  /\ reaper # "idle" => victim \in Keepers
  /\ remover # "idle" => doomed \in Keepers
  /\ reaper = "looking" => victim = map

\* The two halves of the count: the guards, and the guards that are being made.
Viewers(k) == {c \in Conns : guard[c] = k /\ step[c] \notin Marking}
Joining(k) == {c \in Conns : new[c] = k /\ step[c] # "attaching"}

CountInv == \A k \in Keepers : subs[k] = Cardinality(Viewers(k)) + Cardinality(Joining(k))

-----------------------------------------------------------------------------
\* The steps of actors and children, in one form.
LEMMA ActorSteps ==
  ASSUME NEW k \in Keepers, \/ Command(k) \/ Output(k) \/ Rest(k) \/ TurnEnds(k) \/ Child(k)
                            \/ LastHandleDropped(k)
  PROVE  ActorStep(k) /\ UNCHANGED keeperVars
BY DEF Command, Output, Rest, TurnEnds, Child, LastHandleDropped, ActorStep, ChildStep

LEMMA CountIsViewersCounted == ViewersCounted <=> CountInv
BY DEF ViewersCounted, CountInv, Viewers, Joining, Marking

\* The sets that are counted are finite.
LEMMA CountedFinite ==
  ASSUME NEW k \in Keepers
  PROVE  /\ IsFiniteSet(Viewers(k)) /\ Cardinality(Viewers(k)) \in Nat
         /\ IsFiniteSet(Joining(k)) /\ Cardinality(Joining(k)) \in Nat
BY KeeperAssumption, FS_Subset, FS_CardinalityType DEF Viewers, Joining

\* A keeper that is viewed, or about to be, has a count of at least one.
LEMMA ViewedIsCounted ==
  ASSUME CountInv, NEW k \in Keepers, NEW c \in Conns, c \in Viewers(k) \cup Joining(k)
  PROVE  subs[k] >= 1
<1>1. /\ IsFiniteSet(Viewers(k)) /\ Cardinality(Viewers(k)) \in Nat
      /\ IsFiniteSet(Joining(k)) /\ Cardinality(Joining(k)) \in Nat
  BY CountedFinite
<1>2. Cardinality(Viewers(k)) # 0 \/ Cardinality(Joining(k)) # 0
  BY <1>1, FS_EmptySet
<1> QED
  BY <1>1, <1>2 DEF CountInv

-----------------------------------------------------------------------------
LEMMA TypeInit == Init => TypeOK
<1> SUFFICES ASSUME Init PROVE TypeOK
  OBVIOUS
<1> USE ActorsAssumption, KeeperAssumption DEF ActorsAssumption, KeeperAssumption
<1>1. ActorTypeOK
  <2>1. /\ queue \in [Keepers -> Seq({"user", "interrupt"})]
        /\ \A k \in Keepers : Len(queue[k]) <= QueueCap
    BY DEF Init, ActorInit
  <2> QED
    BY <2>1 DEF Init, ActorInit, ActorTypeOK
<1> QED
  BY <1>1 DEF Init, TypeOK

LEMMA SpawnType ==
  ASSUME ActorTypeOK, NEW k \in Keepers, SpawnKeeper(k) \/ FreeKeeper(k)
  PROVE  ActorTypeOK'
<1>1. CASE SpawnKeeper(k)
  BY <1>1 DEF SpawnKeeper, ActorTypeOK
<1>2. CASE FreeKeeper(k)
  BY <1>2, ActorsAssumption DEF ActorsAssumption, FreeKeeper, ActorTypeOK
<1> QED
  BY <1>1, <1>2

\* The types of what the socket tasks keep.
ViewType ==
  /\ at \in [Conns -> Keepers \cup {NoKeeper}]
  /\ guard \in [Conns -> Keepers \cup {NoKeeper}]
  /\ new \in [Conns -> Keepers \cup {NoKeeper}]
  /\ step \in [Conns -> {"idle", "attaching", "counted", "attached", "dropping", "sending",
                         "markingOld", "closing", "marking", "closed"}]
  /\ prompt \subseteq Conns

ClockType ==
  /\ subs \in [Keepers -> Nat]
  /\ idle \in [Keepers -> {"none", "fresh", "expired"}]
  /\ unseen \in [Keepers -> {"viewed", "fresh", "expired"}]

TaskType ==
  /\ map \in Keepers \cup {NoKeeper}
  /\ reaper \in {"idle", "looking", "killing"}
  /\ remover \in {"idle", "interrupting", "waiting"}
  /\ {victim, doomed} \subseteq Keepers \cup {NoKeeper}
  /\ removed \subseteq Keepers

\* TypeOK is these parts together.
LEMMA TypeParts ==
  /\ TypeOK <=> ActorTypeOK /\ ViewType /\ ClockType /\ TaskType
  /\ TypeOK' <=> ActorTypeOK' /\ ViewType' /\ ClockType' /\ TaskType'
BY DEF TypeOK, ViewType, ClockType, TaskType

\* The steps of a connection that touch the actors, the tasks or the clock.
LEMMA ConnFrame ==
  ASSUME NEW c \in Conns, ConnStep(c)
  PROVE  /\ UNCHANGED <<reaper, victim, remover, doomed, removed>>
         /\ UNCHANGED map \/ \E k \in Keepers : SendSpawns(c, k)
         /\ UNCHANGED actorVars \/ SendPrompt(c) \/ SendInterrupt(c)
              \/ \E k \in Keepers : SendSpawns(c, k)
         /\ \/ UNCHANGED <<subs, idle, unseen>>
            \/ CountViewer(c) \/ StopClock(c) \/ UncountViewer(c) \/ StartClock(c)
            \/ \E k \in Keepers : SendSpawns(c, k)
BY DEF ConnStep, AttachMsg, SendFinds, SendSpawns, AttachFails, CountViewer, StopClock,
       Attached, CloseSocket, UncountViewer, StartClock, SocketGone, SendLive, SendPrompt,
       SendInterrupt, keeperVars, reaping, removing, clock

LEMMA ConnActorType ==
  ASSUME TypeOK, ConnInv, NEW c \in Conns, ConnStep(c)
  PROVE  ActorTypeOK'
<1>0. ActorTypeOK /\ ViewType
  BY TypeParts
<1>1. CASE UNCHANGED actorVars
  BY <1>0, <1>1 DEF actorVars, ActorTypeOK
<1>2. CASE SendPrompt(c)
  BY <1>0, <1>2, SendType DEF SendPrompt, ConnInv
<1>3. CASE SendInterrupt(c)
  BY <1>0, <1>3, SendType DEF SendInterrupt, ViewType
<1>4. ASSUME NEW k \in Keepers, SendSpawns(c, k) PROVE ActorTypeOK'
  BY <1>0, <1>4, SpawnType DEF SendSpawns
<1> QED
  BY <1>1, <1>2, <1>3, <1>4, ConnFrame

LEMMA ConnViewType ==
  ASSUME TypeOK, NEW c \in Conns, ConnStep(c)
  PROVE  ViewType'
<1>0. ViewType /\ map \in Keepers \cup {NoKeeper}
  BY TypeParts DEF TaskType
<1> USE <1>0 DEF ViewType
<1>1. CASE AttachMsg(c)
  BY <1>1 DEF AttachMsg
<1>2. CASE SendFinds(c)
  BY <1>2 DEF SendFinds
<1>3. ASSUME NEW k \in Keepers, SendSpawns(c, k) PROVE ViewType'
  BY <1>3 DEF SendSpawns
<1>4. CASE AttachFails(c)
  BY <1>4 DEF AttachFails
<1>5. CASE CountViewer(c) \/ StopClock(c)
  BY <1>5 DEF CountViewer, StopClock
<1>6. CASE Attached(c)
  BY <1>6 DEF Attached
<1>7. CASE UncountViewer(c)
  BY <1>7 DEF UncountViewer, AfterDrop
<1>8. CASE StartClock(c)
  BY <1>8 DEF StartClock, AfterDrop
<1>9. CASE CloseSocket(c) \/ SocketGone(c) \/ SendLive(c) \/ SendPrompt(c)
  BY <1>9 DEF CloseSocket, SocketGone, SendLive, SendPrompt
<1>10. CASE SendInterrupt(c)
  BY <1>10 DEF SendInterrupt, keeperVars, viewing
<1> QED
  BY <1>1, <1>2, <1>3, <1>4, <1>5, <1>6, <1>7, <1>8, <1>9, <1>10 DEF ConnStep

LEMMA ConnClockType ==
  ASSUME TypeOK, ConnInv, CountInv, NEW c \in Conns, ConnStep(c)
  PROVE  ClockType'
<1>0. ClockType /\ ViewType
  BY TypeParts
<1>1. CASE UNCHANGED <<subs, idle, unseen>>
  BY <1>0, <1>1 DEF ClockType
<1>2. CASE CountViewer(c)
  <2>1. new[c] \in Keepers
    BY <1>2 DEF CountViewer, ConnInv, Attaching
  <2> QED
    BY <1>0, <1>2, <2>1 DEF CountViewer, ClockType
<1>3. CASE StopClock(c)
  BY <1>0, <1>3 DEF StopClock, ClockType
<1>4. CASE UncountViewer(c)
  <2>1. guard[c] \in Keepers /\ c \in Viewers(guard[c])
    BY <1>0, <1>4 DEF UncountViewer, ViewType, Viewers, Marking
  <2>2. subs[guard[c]] >= 1
    BY <2>1, ViewedIsCounted
  <2>3. subs' \in [Keepers -> Nat]
    BY <1>0, <1>4, <2>1, <2>2 DEF UncountViewer, ClockType
  <2> QED
    BY <1>0, <1>4, <2>3 DEF UncountViewer, ClockType
<1>5. CASE StartClock(c)
  BY <1>0, <1>5 DEF StartClock, ClockType
<1>6. ASSUME NEW k \in Keepers, SendSpawns(c, k) PROVE ClockType'
  BY <1>0, <1>6 DEF SendSpawns, ClockType
<1> QED
  BY <1>1, <1>2, <1>3, <1>4, <1>5, <1>6, ConnFrame

LEMMA ConnTypeStep ==
  ASSUME TypeOK, ConnInv, CountInv, NEW c \in Conns, ConnStep(c)
  PROVE  TypeOK'
<1>1. TaskType'
  BY ConnFrame, TypeParts DEF TaskType, SendSpawns
<1> QED
  BY <1>1, ConnActorType, ConnViewType, ConnClockType, TypeParts

\* Steps of other tasks: only Freed and Age touch what the socket tasks and the
\* clock keep.
LEMMA TypeStep == TypeOK /\ ConnInv /\ CountInv /\ TaskInv /\ [Next]_vars => TypeOK'
<1> SUFFICES ASSUME TypeOK, ConnInv, CountInv, TaskInv, [Next]_vars PROVE TypeOK'
  OBVIOUS
<1>0. ActorTypeOK /\ ViewType /\ ClockType /\ TaskType
  BY TypeParts
<1>1. ASSUME NEW c \in Conns, ConnStep(c) PROVE TypeOK'
  BY <1>1, ConnTypeStep
<1>2. (UNCHANGED actorVars => ActorTypeOK') /\ (UNCHANGED viewing => ViewType')
  BY <1>0 DEF actorVars, ActorTypeOK, viewing, ViewType
<1>3. (UNCHANGED clock => ClockType')
      /\ (UNCHANGED <<map, reaping, removing>> => TaskType')
  BY <1>0 DEF clock, ClockType, reaping, removing, TaskType
<1>4. ASSUME NEW k \in Keepers, Age(k) PROVE TypeOK'
  <2>1. ClockType'
    BY <1>0, <1>4 DEF Age, ClockType
  <2> QED
    BY <1>2, <1>3, <1>4, <2>1, TypeParts DEF Age
<1>5. ASSUME NEW k \in Keepers, \/ Command(k) \/ Output(k) \/ Rest(k) \/ TurnEnds(k) \/ Child(k)
                                \/ LastHandleDropped(k)
      PROVE  TypeOK'
  <2>1. ActorTypeOK' /\ UNCHANGED keeperVars
    BY <1>0, <1>5, ActorSteps, ActorStepType
  <2> QED
    BY <1>2, <1>3, <2>1, TypeParts DEF keeperVars
<1>6. ASSUME NEW k \in Keepers, Freed(k) PROVE TypeOK'
  <2>1. ActorTypeOK'
    BY <1>0, <1>6, SpawnType DEF Freed
  <2>2. ClockType' /\ TaskType'
    BY <1>0, <1>6 DEF Freed, reaping, ClockType, TaskType
  <2> QED
    BY <1>2, <1>6, <2>1, <2>2, TypeParts DEF Freed
<1>7. CASE ReaperKills \/ RemoveInterrupts
  <2>1. ActorTypeOK'
    BY <1>0, <1>7, SendType DEF ReaperKills, RemoveInterrupts, TaskInv
  <2>2. TaskType'
    BY <1>0, <1>7 DEF ReaperKills, RemoveInterrupts, reaping, removing, TaskType
  <2> QED
    BY <1>2, <1>3, <1>7, <2>1, <2>2, TypeParts DEF ReaperKills, RemoveInterrupts
<1>8. CASE ReaperLooks \/ ReaperForgets \/ ReaperKeeps
  <2>1. TaskType'
    BY <1>0, <1>8 DEF ReaperLooks, ReaperForgets, ReaperKeeps, removing, TaskType
  <2> QED
    BY <1>2, <1>3, <1>8, <2>1, TypeParts DEF ReaperLooks, ReaperForgets, ReaperKeeps
<1>9. CASE RemoveTakes \/ RemoveReturns
  <2>1. TaskType'
    BY <1>0, <1>9 DEF RemoveTakes, RemoveReturns, TaskInv, reaping, TaskType
  <2> QED
    BY <1>2, <1>3, <1>9, <2>1, TypeParts DEF RemoveTakes, RemoveReturns
<1>10. CASE UNCHANGED vars
  BY <1>2, <1>3, <1>10, TypeParts DEF vars, keeperVars
<1> QED
  BY <1>1, <1>4, <1>5, <1>6, <1>7, <1>8, <1>9, <1>10 DEF Next, KeeperStep

-----------------------------------------------------------------------------
(* What the socket tasks, the reaper and a deletion refer to.              *)

LEMMA ConnInvStep == TypeOK /\ ConnInv /\ [Next]_vars => ConnInv'
<1> SUFFICES ASSUME TypeOK, ConnInv, [Next]_vars PROVE ConnInv'
  OBVIOUS
<1>0. ViewType /\ map \in Keepers \cup {NoKeeper}
  BY TypeParts DEF TaskType
<1>1. CASE UNCHANGED viewing
  BY <1>1 DEF viewing, ConnInv
<1>2. ASSUME NEW c \in Conns, ConnStep(c) PROVE ConnInv'
  <2>0. ViewType /\ map \in Keepers \cup {NoKeeper} /\ NoKeeper \notin Keepers
    BY <1>0, KeeperAssumption DEF KeeperAssumption
  <2>1. CASE AttachMsg(c)
    BY <2>1, <2>0 DEF AttachMsg, Live, ConnInv, ViewType, Attaching, Marking
  <2>2. CASE SendFinds(c)
    BY <2>2, <2>0 DEF SendFinds, Live, ConnInv, ViewType, Attaching, Marking
  <2>3. ASSUME NEW k \in Keepers, SendSpawns(c, k) PROVE ConnInv'
    BY <2>3, <2>0 DEF SendSpawns, ConnInv, ViewType, Attaching, Marking
  <2>4. CASE AttachFails(c)
    BY <2>4, <2>0 DEF AttachFails, ConnInv, ViewType, Attaching, Marking
  <2>5. CASE CountViewer(c)
    BY <2>5, <2>0 DEF CountViewer, ConnInv, ViewType, Attaching, Marking
  <2>6. CASE StopClock(c)
    BY <2>6, <2>0 DEF StopClock, ConnInv, ViewType, Attaching, Marking
  <2>7. CASE Attached(c)
    BY <2>7, <2>0 DEF Attached, ConnInv, ViewType, Attaching, Marking
  <2>8. CASE UncountViewer(c)
    BY <2>8, <2>0 DEF UncountViewer, AfterDrop, ConnInv, ViewType, Attaching, Marking
  <2>9. CASE StartClock(c)
    BY <2>9, <2>0 DEF StartClock, AfterDrop, ConnInv, ViewType, Attaching, Marking
  <2>10. CASE CloseSocket(c) \/ SocketGone(c)
    BY <2>10, <2>0 DEF CloseSocket, SocketGone, ConnInv, ViewType, Attaching, Marking
  <2>11. CASE SendLive(c) \/ SendPrompt(c)
    BY <2>11, <2>0 DEF SendLive, SendPrompt, Live, ConnInv, ViewType, Attaching, Marking
  <2>12. CASE SendInterrupt(c)
    BY <2>12, <1>1 DEF SendInterrupt, keeperVars
  <2> QED
    BY <1>2, <2>1, <2>2, <2>3, <2>4, <2>5, <2>6, <2>7, <2>8, <2>9, <2>10, <2>11, <2>12
    DEF ConnStep
<1>3. ASSUME NEW k \in Keepers, KeeperStep(k) PROVE UNCHANGED viewing
  BY <1>3, ActorSteps DEF KeeperStep, Age, Freed, keeperVars
<1>4. CASE \/ ReaperLooks \/ ReaperForgets \/ ReaperKeeps \/ ReaperKills
           \/ RemoveTakes \/ RemoveInterrupts \/ RemoveReturns \/ UNCHANGED vars
  BY <1>1, <1>4 DEF ReaperLooks, ReaperForgets, ReaperKeeps, ReaperKills, RemoveTakes,
     RemoveInterrupts, RemoveReturns, vars, keeperVars
<1> QED
  BY <1>1, <1>2, <1>3, <1>4 DEF Next

LEMMA TaskInvStep == TypeOK /\ TaskInv /\ [Next]_vars => TaskInv'
<1> SUFFICES ASSUME TypeOK, TaskInv, [Next]_vars PROVE TaskInv'
  OBVIOUS
<1>0. TaskType
  BY TypeParts
<1> USE DEF TaskInv
<1>1. CASE UNCHANGED <<map, reaping, removing>>
  BY <1>1 DEF reaping, removing
<1>2. ASSUME NEW c \in Conns, ConnStep(c) PROVE TaskInv'
  BY <1>2, ConnFrame DEF SendSpawns, MapFree
<1>3. ASSUME NEW k \in Keepers, KeeperStep(k) PROVE TaskInv'
  BY <1>1, <1>3, ActorSteps DEF KeeperStep, Age, Freed, keeperVars, reaping
<1>4. CASE ReaperLooks \/ ReaperForgets \/ ReaperKeeps \/ ReaperKills
  BY <1>0, <1>4 DEF ReaperLooks, ReaperForgets, ReaperKeeps, ReaperKills, TaskType, removing
<1>5. CASE RemoveTakes \/ RemoveInterrupts \/ RemoveReturns
  BY <1>0, <1>5 DEF RemoveTakes, RemoveInterrupts, RemoveReturns, TaskType, MapFree, reaping
<1>6. CASE UNCHANGED vars
  BY <1>1, <1>6 DEF vars, keeperVars
<1> QED
  BY <1>2, <1>3, <1>4, <1>5, <1>6 DEF Next

-----------------------------------------------------------------------------
(* The count of viewers.                                                   *)

\* Nobody enters or leaves.
LEMMA CountSame ==
  ASSUME CountInv, subs' = subs,
         \A k \in Keepers : Viewers(k)' = Viewers(k) /\ Joining(k)' = Joining(k)
  PROVE  CountInv'
BY DEF CountInv

LEMMA CountConnStep ==
  ASSUME TypeOK, ConnInv, CountInv, NEW c \in Conns, ConnStep(c)
  PROVE  CountInv'
<1>0. ViewType /\ ClockType /\ map \in Keepers \cup {NoKeeper}
  BY TypeParts DEF TaskType
<1>1. CASE CountViewer(c)
  <2>0. PICK j \in Keepers : j = new[c]
    BY <1>1 DEF CountViewer, ConnInv, Attaching
  <2>1. c \notin Joining(j)
    BY <1>1 DEF CountViewer, Joining
  <2>2. /\ Joining(j)' = Joining(j) \cup {c}
        /\ \A k \in Keepers \ {j} : Joining(k)' = Joining(k)
        /\ \A k \in Keepers : Viewers(k)' = Viewers(k)
    BY <1>0, <1>1, <2>0 DEF CountViewer, ViewType, Joining, Viewers, Marking
  <2>3. Cardinality(Joining(j)') = Cardinality(Joining(j)) + 1
    BY <2>1, <2>2, CountedFinite, FS_AddElement
  <2>4. subs' = [subs EXCEPT ![j] = @ + 1]
    BY <1>1, <2>0 DEF CountViewer
  <2>5. \A k \in Keepers : Cardinality(Viewers(k)) \in Nat /\ Cardinality(Joining(k)) \in Nat
    BY CountedFinite
  <2>6. ASSUME NEW k \in Keepers PROVE (subs[k] = Cardinality(Viewers(k)) + Cardinality(Joining(k)))'
    <3>1. subs[k] = Cardinality(Viewers(k)) + Cardinality(Joining(k))
      BY DEF CountInv
    <3>2. CASE k = j
      <4>1. Cardinality(Joining(k)') = Cardinality(Joining(k)) + 1 /\ Viewers(k)' = Viewers(k)
        BY <2>2, <2>3, <3>2
      <4> QED
        BY <1>0, <2>4, <2>5, <3>1, <3>2, <4>1 DEF ClockType
    <3>3. CASE k # j
      <4>1. Joining(k)' = Joining(k) /\ Viewers(k)' = Viewers(k)
        BY <2>2, <3>3
      <4> QED
        BY <1>0, <2>4, <3>1, <3>3, <4>1 DEF ClockType
    <3> QED
      BY <3>2, <3>3
  <2> QED
    BY <2>6 DEF CountInv
<1>2. CASE Attached(c)
  <2>0. PICK j \in Keepers : j = new[c]
    BY <1>2 DEF Attached, ConnInv, Attaching
  <2>1. c \in Joining(j) /\ c \notin Viewers(j) /\ guard[c] = NoKeeper
    BY <1>2, <2>0, KeeperAssumption
    DEF KeeperAssumption, Attached, ConnInv, Joining, Viewers
  <2>2. /\ Joining(j)' = Joining(j) \ {c}
        /\ Viewers(j)' = Viewers(j) \cup {c}
        /\ \A k \in Keepers \ {j} : Joining(k)' = Joining(k) /\ Viewers(k)' = Viewers(k)
    BY <1>0, <1>2, <2>0, <2>1, KeeperAssumption
    DEF KeeperAssumption, Attached, ViewType, Joining, Viewers, Marking
  <2>3. Cardinality(Joining(j)') = Cardinality(Joining(j)) - 1
    BY <2>1, <2>2, CountedFinite, FS_RemoveElement
  <2>4. Cardinality(Viewers(j)') = Cardinality(Viewers(j)) + 1
    BY <2>1, <2>2, CountedFinite, FS_AddElement
  <2>5. subs' = subs
    BY <1>2 DEF Attached, clock
  <2>6. \A k \in Keepers : Cardinality(Viewers(k)) \in Nat /\ Cardinality(Joining(k)) \in Nat
    BY CountedFinite
  <2>7. ASSUME NEW k \in Keepers PROVE (subs[k] = Cardinality(Viewers(k)) + Cardinality(Joining(k)))'
    <3>1. subs[k] = Cardinality(Viewers(k)) + Cardinality(Joining(k))
      BY DEF CountInv
    <3>2. CASE k = j
      <4>1. /\ Cardinality(Joining(k)') = Cardinality(Joining(k)) - 1
            /\ Cardinality(Viewers(k)') = Cardinality(Viewers(k)) + 1
        BY <2>3, <2>4, <3>2
      <4> QED
        BY <2>5, <2>6, <3>1, <4>1
    <3>3. CASE k # j
      <4>1. Joining(k)' = Joining(k) /\ Viewers(k)' = Viewers(k)
        BY <2>2, <3>3
      <4> QED
        BY <2>5, <3>1, <3>3, <4>1
    <3> QED
      BY <3>2, <3>3
  <2> QED
    BY <2>7 DEF CountInv
<1>3. CASE UncountViewer(c)
  <2>0. PICK j \in Keepers : j = guard[c]
    BY <1>0, <1>3 DEF UncountViewer, ViewType
  <2>1. c \in Viewers(j)
    BY <1>3, <2>0 DEF UncountViewer, Viewers, Marking
  <2>2. /\ Viewers(j)' = Viewers(j) \ {c}
        /\ \A k \in Keepers \ {j} : Viewers(k)' = Viewers(k)
        /\ \A k \in Keepers : Joining(k)' = Joining(k)
    BY <1>0, <1>3, <2>0, <2>1, KeeperAssumption
    DEF KeeperAssumption, UncountViewer, AfterDrop, ViewType, Joining, Viewers, Marking
  <2>3. Cardinality(Viewers(j)') = Cardinality(Viewers(j)) - 1
    BY <2>1, <2>2, CountedFinite, FS_RemoveElement
  <2>4. subs' = [subs EXCEPT ![j] = @ - 1]
    BY <1>3, <2>0 DEF UncountViewer
  <2>5. \A k \in Keepers : Cardinality(Viewers(k)) \in Nat /\ Cardinality(Joining(k)) \in Nat
    BY CountedFinite
  <2>6. ASSUME NEW k \in Keepers PROVE (subs[k] = Cardinality(Viewers(k)) + Cardinality(Joining(k)))'
    <3>1. subs[k] = Cardinality(Viewers(k)) + Cardinality(Joining(k))
      BY DEF CountInv
    <3>2. CASE k = j
      BY <1>0, <2>2, <2>3, <2>4, <2>5, <3>1, <3>2 DEF ClockType
    <3>3. CASE k # j
      <4>1. Joining(k)' = Joining(k) /\ Viewers(k)' = Viewers(k)
        BY <2>2, <3>3
      <4> QED
        BY <1>0, <2>4, <3>1, <3>3, <4>1 DEF ClockType
    <3> QED
      BY <3>2, <3>3
  <2> QED
    BY <2>6 DEF CountInv
<1>4. CASE \/ AttachMsg(c) \/ SendFinds(c) \/ (\E k \in Keepers : SendSpawns(c, k))
           \/ AttachFails(c)
  <2>1. /\ subs' = subs /\ guard' = guard
        /\ step[c] \in {"idle", "attaching"}
        /\ step' \in {[step EXCEPT ![c] = "attaching"], [step EXCEPT ![c] = "idle"]}
        /\ \A d \in Conns \ {c} : new'[d] = new[d]
    BY <1>0, <1>4 DEF AttachMsg, SendFinds, SendSpawns, AttachFails, ViewType, Attaching, clock
  <2>2. \A k \in Keepers : c \notin Joining(k) /\ c \notin Joining(k)'
    BY <1>0, <1>4, KeeperAssumption
    DEF KeeperAssumption, ConnInv, Attaching, Joining, ViewType, AttachMsg, SendFinds, SendSpawns,
        AttachFails
  <2>3. \A k \in Keepers : Viewers(k)' = Viewers(k)
    BY <1>0, <1>4, <2>1
    DEF Viewers, Marking, ViewType, AttachMsg, SendFinds, SendSpawns, AttachFails
  <2>4. \A k \in Keepers : Joining(k)' = Joining(k)
    BY <1>0, <2>1, <2>2 DEF Joining, ViewType
  <2> QED
    BY <2>1, <2>3, <2>4, CountSame
<1>5. CASE StopClock(c) \/ CloseSocket(c) \/ SocketGone(c) \/ SendLive(c) \/ SendPrompt(c)
  <2>1. /\ subs' = subs /\ guard' = guard /\ new' = new
        /\ step[c] \notin Marking /\ step'[c] \notin Marking
        /\ step[c] \in Attaching \ {"attaching"} <=> step'[c] \in Attaching \ {"attaching"}
        /\ \A d \in Conns \ {c} : step'[d] = step[d]
    BY <1>0, <1>5 DEF StopClock, CloseSocket, SocketGone, SendLive, SendPrompt, Marking,
       Attaching, ViewType, clock
  <2>2. \A k \in Keepers : Viewers(k)' = Viewers(k)
    BY <2>1 DEF Viewers
  <2>3. step[c] # "attaching" /\ step'[c] # "attaching"
    BY <1>0, <1>5 DEF StopClock, CloseSocket, SocketGone, SendLive, SendPrompt, ViewType
  <2>4. \A k \in Keepers : Joining(k)' = Joining(k)
    BY <2>1, <2>3 DEF Joining
  <2> QED
    BY <2>1, <2>2, <2>4, CountSame
<1>6. CASE StartClock(c)
  <2>1. /\ subs' = subs /\ new' = new
        /\ step[c] \in Marking /\ step'[c] \in {"attached", "closed"} /\ guard'[c] = NoKeeper
        /\ \A d \in Conns \ {c} : step'[d] = step[d] /\ guard'[d] = guard[d]
    BY <1>0, <1>6 DEF StartClock, AfterDrop, Marking, ViewType
  <2>2. \A k \in Keepers : Viewers(k)' = Viewers(k)
    BY <2>1, KeeperAssumption DEF KeeperAssumption, Viewers
  <2>3. \A k \in Keepers : Joining(k)' = Joining(k)
    BY <2>1 DEF Joining, Marking
  <2> QED
    BY <2>1, <2>2, <2>3, CountSame
<1>7. CASE SendInterrupt(c)
  BY <1>7 DEF SendInterrupt, keeperVars, viewing, clock, CountInv, Viewers, Joining
<1> QED
  BY <1>1, <1>2, <1>3, <1>4, <1>5, <1>6, <1>7 DEF ConnStep

LEMMA CountStep == TypeOK /\ ConnInv /\ CountInv /\ [Next]_vars => CountInv'
<1> SUFFICES ASSUME TypeOK, ConnInv, CountInv, [Next]_vars PROVE CountInv'
  OBVIOUS
<1>1. CASE UNCHANGED viewing /\ subs' = subs
  BY <1>1 DEF viewing, CountInv, Viewers, Joining
<1>2. ASSUME NEW c \in Conns, ConnStep(c) PROVE CountInv'
  BY <1>2, CountConnStep
<1>3. ASSUME NEW k \in Keepers, KeeperStep(k) PROVE UNCHANGED viewing /\ subs' = subs
  BY <1>3, ActorSteps DEF KeeperStep, Age, Freed, keeperVars, clock
<1>4. CASE \/ ReaperLooks \/ ReaperForgets \/ ReaperKeeps \/ ReaperKills
           \/ RemoveTakes \/ RemoveInterrupts \/ RemoveReturns \/ UNCHANGED vars
  BY <1>1, <1>4 DEF ReaperLooks, ReaperForgets, ReaperKeeps, ReaperKills, RemoveTakes,
     RemoveInterrupts, RemoveReturns, vars, keeperVars, clock
<1> QED
  BY <1>1, <1>2, <1>3, <1>4 DEF Next

IInv == TypeOK /\ ConnInv /\ TaskInv /\ CountInv

LEMMA InductiveInvariant == Spec => []IInv
<1>1. ASSUME Init PROVE ConnInv /\ TaskInv
  BY <1>1, KeeperAssumption DEF KeeperAssumption, Init, ConnInv, TaskInv, Attaching, Marking
<1>2. ASSUME Init PROVE CountInv
  <2>1. \A k \in Keepers : Viewers(k) = {} /\ Joining(k) = {}
    BY <1>2, KeeperAssumption DEF KeeperAssumption, Init, Viewers, Joining
  <2> QED
    BY <1>2, <2>1, FS_EmptySet DEF Init, CountInv
<1>3. Init => IInv
  BY <1>1, <1>2, TypeInit DEF IInv
<1>4. IInv /\ [Next]_vars => IInv'
  BY TypeStep, ConnInvStep, TaskInvStep, CountStep DEF IInv
<1> QED
  BY <1>3, <1>4, PTL DEF Spec

\* The types of everything a chat's keepers, connections and tasks keep.
THEOREM TypeCorrect == Spec => []TypeOK
BY InductiveInvariant, PTL DEF IInv

\* The count of viewers is the number of guards, whatever fails half-way and whatever
\* keeper replaces another.
THEOREM CountIsRight == Spec => []ViewersCounted
<1>1. IInv => ViewersCounted
  BY CountIsViewersCounted DEF IInv
<1> QED
  BY <1>1, InductiveInvariant, PTL

-----------------------------------------------------------------------------
(* The idle clock.                                                         *)

\* What the idle clock's invariant says of one keeper.
ClockRuns(k) ==
  Spawned(k) /\ subs[k] = 0 /\ idle[k] = "none"
  => \E c \in Conns : guard[c] = k /\ step[c] \in Marking

LEMMA IdleConnStep ==
  ASSUME IInv, IdleClock, NEW c \in Conns, ConnStep(c), NEW k \in Keepers
  PROVE  ClockRuns(k)'
<1>0. ViewType /\ ClockType /\ ConnInv /\ CountInv
  BY TypeParts DEF IInv
<1>1. ClockRuns(k)
  BY DEF IdleClock, ClockRuns, Marking
<1>2. CASE CountViewer(c)
  <2>1. CASE new[c] = k
    BY <1>0, <1>2, <2>1 DEF CountViewer, ClockType, ClockRuns
  <2>2. CASE new[c] # k
    BY <1>0, <1>1, <1>2, <2>2
    DEF CountViewer, actorVars, ClockType, ViewType, ClockRuns, Marking, Spawned
  <2> QED
    BY <2>1, <2>2
<1>3. CASE StopClock(c)
  <2>1. CASE new[c] = k
    <3>1. c \in Joining(k)
      BY <1>3, <2>1 DEF StopClock, Joining
    <3>2. subs'[k] >= 1
      BY <1>0, <1>3, <3>1, ViewedIsCounted DEF StopClock
    <3> QED
      BY <1>0, <1>3, <3>2 DEF StopClock, ClockType, ClockRuns
  <2>2. CASE new[c] # k
    BY <1>0, <1>1, <1>3, <2>2
    DEF StopClock, actorVars, ClockType, ViewType, ClockRuns, Marking, Spawned
  <2> QED
    BY <2>1, <2>2
<1>4. CASE UncountViewer(c)
  <2>1. CASE guard[c] = k
    <3>1. c \in Viewers(k)
      BY <1>4, <2>1 DEF UncountViewer, Viewers, Marking
    <3>2. subs[k] >= 1 /\ subs[k] \in Nat
      BY <1>0, <3>1, ViewedIsCounted DEF ClockType
    <3>3. CASE subs[k] = 1
      <4>1. guard'[c] = k /\ step'[c] \in Marking
        BY <1>0, <1>4, <2>1, <3>3 DEF UncountViewer, ViewType, Marking
      <4> QED
        BY <4>1 DEF ClockRuns
    <3>4. CASE subs[k] # 1
      BY <1>0, <1>4, <2>1, <3>2, <3>4 DEF UncountViewer, ClockType, ClockRuns
    <3> QED
      BY <3>3, <3>4
  <2>2. CASE guard[c] # k
    <3>1. subs'[k] = subs[k] /\ idle'[k] = idle[k] /\ pc' = pc
      BY <1>0, <1>4, <2>2 DEF UncountViewer, ClockType, actorVars
    <3>2. \A d \in Conns : guard[d] = k => guard'[d] = k /\ step'[d] = step[d]
      BY <1>0, <1>4, <2>2 DEF UncountViewer, ViewType
    <3> QED
      BY <1>1, <3>1, <3>2 DEF ClockRuns, Spawned
  <2> QED
    BY <2>1, <2>2
<1>5. CASE StartClock(c)
  <2>1. CASE guard[c] = k
    BY <1>0, <1>5, <2>1 DEF StartClock, ClockType, ClockRuns
  <2>2. CASE guard[c] # k
    <3>1. subs'[k] = subs[k] /\ idle'[k] = idle[k] /\ pc' = pc
      BY <1>0, <1>5, <2>2 DEF StartClock, ClockType, actorVars
    <3>2. \A d \in Conns : guard[d] = k => guard'[d] = k /\ step'[d] = step[d]
      BY <1>0, <1>5, <2>2 DEF StartClock, ViewType
    <3> QED
      BY <1>1, <3>1, <3>2 DEF ClockRuns, Spawned
  <2> QED
    BY <2>1, <2>2
<1>6. ASSUME NEW j \in Keepers, SendSpawns(c, j) PROVE ClockRuns(k)'
  <2>1. CASE j = k
    BY <1>0, <1>6, <2>1 DEF SendSpawns, ClockType, ClockRuns
  <2>2. CASE j # k
    <3>1. subs'[k] = subs[k] /\ idle'[k] = idle[k] /\ (Spawned(k)' => Spawned(k))
      BY <1>0, <1>6, <2>2 DEF SendSpawns, SpawnKeeper, ClockType, Spawned
    <3>2. \A d \in Conns : guard[d] = k /\ step[d] \in Marking
                           => guard'[d] = k /\ step'[d] = step[d]
      BY <1>0, <1>6 DEF SendSpawns, ViewType, Marking
    <3> QED
      BY <1>1, <3>1, <3>2 DEF ClockRuns
  <2> QED
    BY <2>1, <2>2
<1>7. CASE \/ AttachMsg(c) \/ SendFinds(c) \/ AttachFails(c) \/ Attached(c)
           \/ CloseSocket(c) \/ SocketGone(c) \/ SendLive(c) \/ SendPrompt(c)
  <2>1. subs' = subs /\ idle' = idle /\ pc' = pc
    BY <1>7 DEF AttachMsg, SendFinds, AttachFails, Attached, CloseSocket, SocketGone,
       SendLive, SendPrompt, Send, clock, actorVars
  <2>2. \A d \in Conns : guard[d] = k /\ step[d] \in Marking
                         => guard'[d] = k /\ step'[d] = step[d]
    BY <1>0, <1>7 DEF AttachMsg, SendFinds, AttachFails, Attached, CloseSocket, SocketGone,
       SendLive, SendPrompt, ViewType, Marking
  <2> QED
    BY <1>1, <2>1, <2>2 DEF ClockRuns, Spawned
<1>8. CASE SendInterrupt(c)
  BY <1>1, <1>8 DEF SendInterrupt, Send, keeperVars, viewing, clock, ClockRuns, Spawned
<1> QED
  BY <1>2, <1>3, <1>4, <1>5, <1>6, <1>7, <1>8 DEF ConnStep

LEMMA IdleStep == IInv /\ IdleClock /\ [Next]_vars => IdleClock'
<1> SUFFICES ASSUME IInv, IdleClock, [Next]_vars, NEW k \in Keepers
             PROVE  ClockRuns(k)'
  BY DEF IdleClock, ClockRuns, Marking
<1>0. ActorTypeOK /\ ClockType
  BY TypeParts DEF IInv
<1>1. ClockRuns(k)
  BY DEF IdleClock, ClockRuns, Marking
<1>2. ASSUME NEW c \in Conns, ConnStep(c) PROVE ClockRuns(k)'
  BY <1>2, IdleConnStep
<1>3. ASSUME NEW j \in Keepers, \/ Command(j) \/ Output(j) \/ Rest(j) \/ TurnEnds(j) \/ Child(j)
                                \/ LastHandleDropped(j)
      PROVE  ClockRuns(k)'
  <2>1. UNCHANGED keeperVars /\ (pc'[k] = "unborn" <=> pc[k] = "unborn")
    BY <1>0, <1>3, ActorSteps, ActorStepSpawned
  <2> QED
    BY <1>1, <2>1 DEF keeperVars, viewing, clock, ClockRuns, Spawned
<1>4. ASSUME NEW j \in Keepers, Age(j) PROVE ClockRuns(k)'
  BY <1>0, <1>1, <1>4 DEF Age, ClockType, viewing, actorVars, ClockRuns, Spawned
<1>5. ASSUME NEW j \in Keepers, Freed(j) PROVE ClockRuns(k)'
  BY <1>0, <1>1, <1>5
  DEF Freed, FreeKeeper, ActorTypeOK, ClockType, viewing, ClockRuns, Spawned
<1>6. CASE \/ ReaperLooks \/ ReaperForgets \/ ReaperKeeps \/ ReaperKills
           \/ RemoveTakes \/ RemoveInterrupts \/ RemoveReturns \/ UNCHANGED vars
  <2>1. pc' = pc /\ UNCHANGED <<viewing, clock>>
    BY <1>6 DEF ReaperLooks, ReaperForgets, ReaperKeeps, ReaperKills, RemoveTakes,
       RemoveInterrupts, RemoveReturns, Send, vars, keeperVars, actorVars
  <2> QED
    BY <1>1, <2>1 DEF viewing, clock, ClockRuns, Spawned
<1> QED
  BY <1>2, <1>3, <1>4, <1>5, <1>6 DEF Next, KeeperStep

\* A keeper without viewers has its clock running, or a guard that is about to start
\* it: no order of attaches and drops hides a keeper from the reaper.
THEOREM ClockIsRunning == Spec => []IdleClock
<1>1. Init => IdleClock
  BY DEF Init, ActorInit, IdleClock, Spawned
<1>2. IInv /\ IdleClock /\ [Next]_vars => IdleClock'
  BY IdleStep
<1> QED
  BY <1>1, <1>2, InductiveInvariant, PTL DEF Spec

-----------------------------------------------------------------------------
(* CLI: no child is left behind by the map.                                *)

\* An interrupt waits in a channel.
Interrupted(q) == \E i \in 1..Len(q) : q[i] = "interrupt"

\* A keeper's child is being ended, or will be by what its actor has to do.
Ending(k) ==
  \/ Interrupted(queue[k])
  \/ pc[k] \in {"ending", "killing"}
  \/ proc[k] \in {"dying", "exited"}

\* Where the CLI actor is tells what its child can be.
ChildInv(k) ==
  /\ pc[k] # "turn"
  /\ pc[k] # "unborn" => proc[k] # "none"
  /\ pc[k] = "gone" => proc[k] \in {"dying", "exited"}
  /\ finished[k] => pc[k] \in {"killing", "gone"}

OrphanInv(k) ==
  engine = "cli" =>
    /\ ChildInv(k)
    /\ Spawned(k) /\ map # k =>
         \/ reaper = "killing" /\ victim = k
         \/ remover = "interrupting" /\ doomed = k
         \/ Ending(k)

\* Receiving a prompt leaves the interrupts in the channel.
LEMMA TailInterrupted ==
  ASSUME NEW S, NEW q \in Seq(S), q # <<>>, Head(q) # "interrupt", Interrupted(q)
  PROVE  Interrupted(Tail(q))
<1>1. PICK i \in 1..Len(q) : q[i] = "interrupt"
  BY DEF Interrupted
<1>2. i # 1
  BY <1>1
<1>3. i - 1 \in 1..Len(Tail(q)) /\ Tail(q)[i - 1] = q[i]
  BY <1>1, <1>2
<1> QED
  BY <1>1, <1>3 DEF Interrupted

\* Sending leaves the interrupts in the channel, and adds its own.
LEMMA AppendInterrupted ==
  ASSUME NEW S, NEW q \in Seq(S), NEW cmd \in S, Interrupted(q) \/ cmd = "interrupt"
  PROVE  Interrupted(Append(q, cmd))
<1>1. CASE Interrupted(q)
  <2>1. PICK i \in 1..Len(q) : q[i] = "interrupt"
    BY <1>1 DEF Interrupted
  <2>2. i \in 1..Len(Append(q, cmd)) /\ Append(q, cmd)[i] = q[i]
    BY <2>1
  <2> QED
    BY <2>1, <2>2 DEF Interrupted
<1>2. CASE cmd = "interrupt"
  <2>1. Len(q) + 1 \in 1..Len(Append(q, cmd)) /\ Append(q, cmd)[Len(q) + 1] = cmd
    OBVIOUS
  <2> QED
    BY <1>2, <2>1 DEF Interrupted
<1> QED
  BY <1>1, <1>2

\* A command that is sent keeps a keeper ending; an interrupt makes it end.
LEMMA SendEnds ==
  ASSUME ActorTypeOK, NEW j \in Keepers, NEW cmd \in {"user", "interrupt"}, Send(j, cmd),
         NEW k \in Keepers, ChildInv(k)
  PROVE  /\ ChildInv(k)' /\ engine' = engine /\ (Spawned(k)' <=> Spawned(k))
         /\ Ending(k) => Ending(k)'
         /\ j = k /\ cmd = "interrupt" => Ending(k)'
<1>1. UNCHANGED <<engine, pc, finished, proc>>
  BY DEF Send, child
<1>2. ChildInv(k)' /\ engine' = engine /\ (Spawned(k)' <=> Spawned(k))
  BY <1>1 DEF ChildInv, Spawned
<1>3. CASE j # k \/ pc[j] = "gone"
  <2>1. queue'[k] = queue[k]
    BY <1>3 DEF Send, ActorTypeOK
  <2> QED
    BY <1>1, <1>2, <1>3, <2>1 DEF Ending, ChildInv, Interrupted
<1>4. CASE j = k /\ pc[j] # "gone"
  <2>1. queue'[k] = Append(queue[k], cmd) /\ queue[k] \in Seq({"user", "interrupt"})
    BY <1>4 DEF Send, ActorTypeOK
  <2>2. Interrupted(queue[k]) \/ cmd = "interrupt" => Interrupted(queue'[k])
    BY <2>1, AppendInterrupted
  <2> QED
    BY <1>1, <1>2, <2>2 DEF Ending, Interrupted
<1> QED
  BY <1>3, <1>4

\* Whatever an actor or its child does, a keeper that is ending goes on to.
LEMMA ActorEnds ==
  ASSUME ActorTypeOK, engine = "cli", NEW j \in Keepers, ActorStep(j),
         NEW k \in Keepers, ChildInv(k)
  PROVE  /\ ChildInv(k)'
         /\ Ending(k) => Ending(k)'
<1>1. CASE j # k
  <2>1. queue'[k] = queue[k] /\ pc'[k] = pc[k] /\ proc'[k] = proc[k] /\ finished'[k] = finished[k]
    BY <1>1, ActorStepLocal
  <2> QED
    BY <2>1 DEF ChildInv, Ending, Interrupted
<1>2. CASE j = k /\ CliUser(k)
  <2>1. /\ queue[k] \in Seq({"user", "interrupt"}) /\ queue[k] # <<>>
        /\ Head(queue[k]) = "user" /\ queue'[k] = Tail(queue[k])
    BY <1>2 DEF CliUser, Receives, ActorTypeOK
  <2>2. Interrupted(queue[k]) => Interrupted(queue'[k])
    BY <2>1, TailInterrupted
  <2> QED
    BY <1>2, <2>2 DEF CliUser, child, ActorTypeOK, ChildInv, Ending, Interrupted
<1>3. CASE j = k /\ CliInterrupt(k)
  BY <1>3 DEF CliInterrupt, ActorTypeOK, ChildInv, Ending
<1>4. CASE j = k /\ CliOutput(k)
  BY <1>4 DEF CliOutput, CliResult, CliExit, child, ActorTypeOK, ChildInv, Ending, Interrupted
<1>5. CASE j = k /\ (CliWrite(k) \/ CliWriteFails(k) \/ CliFinish(k))
  BY <1>5 DEF CliWrite, CliWriteFails, CliFinish, child, ActorTypeOK, ChildInv, Ending,
              Interrupted
<1>6. CASE j = k /\ CliKill(k)
  BY <1>6 DEF CliKill, ActorTypeOK, ChildInv, Ending
<1>7. CASE j = k /\ ChildStep(k)
  BY <1>7 DEF ChildStep, ChildAnswers, ChildExits, ActorTypeOK, ChildInv, Ending, Interrupted
<1>8. CASE j = k /\ CliNoHandles(k)
  BY <1>8 DEF CliNoHandles, child, ActorTypeOK, ChildInv, Ending, Interrupted
<1>9. CASE j = k /\ (NativeTurnEnds(k) \/ NativeMidTurn(k))
  BY <1>9 DEF NativeTurnEnds, NativeMidTurn, ChildInv
<1> QED
  BY <1>1, <1>2, <1>3, <1>4, <1>5, <1>6, <1>7, <1>8, <1>9
  DEF ActorStep, CliCommand, CliRest, NativeCommand, NativeUser, NativeIdleInterrupt,
      NoHandles, NativeNoHandles

LEMMA OrphanConnStep ==
  ASSUME IInv, NEW c \in Conns, ConnStep(c), NEW k \in Keepers, OrphanInv(k), engine' = "cli"
  PROVE  OrphanInv(k)'
<1>0. ActorTypeOK /\ ViewType /\ ConnInv
  BY TypeParts DEF IInv
<1>1. UNCHANGED <<reaper, victim, remover, doomed>>
  BY ConnFrame
<1>2. CASE UNCHANGED <<actorVars, map>>
  BY <1>1, <1>2 DEF actorVars, OrphanInv, ChildInv, Ending, Interrupted, Spawned
<1>3. CASE map' = map /\ (SendPrompt(c) \/ SendInterrupt(c))
  <2>1. at[c] \in Keepers /\ (Send(at[c], "user") \/ Send(at[c], "interrupt"))
    BY <1>0, <1>3 DEF SendPrompt, SendInterrupt, ConnInv, ViewType
  <2>2. engine = "cli"
    BY <2>1 DEF Send
  <2>3. /\ ChildInv(k)' /\ (Spawned(k)' <=> Spawned(k))
        /\ Ending(k) => Ending(k)'
    BY <1>0, <2>1, <2>2, SendEnds DEF OrphanInv
  <2> QED
    BY <1>1, <1>3, <2>2, <2>3 DEF OrphanInv
<1>4. ASSUME NEW j \in Keepers, SendSpawns(c, j) PROVE OrphanInv(k)'
  <2>1. engine = "cli" /\ SpawnKeeper(j) /\ map' = j /\ ~Live(map)
    BY <1>4 DEF SendSpawns, SpawnKeeper
  <2>2. CASE k = j
    BY <1>0, <2>1, <2>2 DEF SpawnKeeper, ActorTypeOK, OrphanInv, ChildInv, Ending, Interrupted
  <2>3. CASE k # j
    <3>1. /\ queue'[k] = queue[k] /\ pc'[k] = pc[k] /\ proc'[k] = proc[k]
          /\ finished'[k] = finished[k]
      BY <1>0, <2>1, <2>3 DEF SpawnKeeper, ActorTypeOK
    <3>2. ChildInv(k) /\ ChildInv(k)' /\ (Spawned(k)' <=> Spawned(k)) /\ (Ending(k)' <=> Ending(k))
      BY <2>1, <3>1 DEF OrphanInv, ChildInv, Spawned, Ending, Interrupted
    <3>3. CASE map = k
      <4>1. pc[k] \in {"killing", "gone"}
        BY <2>1, <3>2, <3>3, KeeperAssumption DEF KeeperAssumption, Live, ChildInv
      <4> QED
        BY <3>2, <4>1 DEF OrphanInv, ChildInv, Ending
    <3>4. CASE map # k
      BY <1>1, <2>1, <3>2, <3>4 DEF OrphanInv
    <3> QED
      BY <3>3, <3>4
  <2> QED
    BY <2>2, <2>3
<1> QED
  BY <1>2, <1>3, <1>4, ConnFrame DEF SendPrompt, SendInterrupt, keeperVars

LEMMA OrphanStep ==
  ASSUME IInv, \A k \in Keepers : OrphanInv(k), [Next]_vars, NEW k \in Keepers
  PROVE  OrphanInv(k)'
<1> SUFFICES ASSUME engine' = "cli" PROVE OrphanInv(k)'
  BY DEF OrphanInv
<1>0. ActorTypeOK /\ TaskType /\ TaskInv
  BY TypeParts DEF IInv
<1>1. ASSUME NEW c \in Conns, ConnStep(c) PROVE OrphanInv(k)'
  BY <1>1, OrphanConnStep
<1>2. CASE UNCHANGED <<actorVars, map, reaping, removing>>
  BY <1>2 DEF actorVars, reaping, removing, OrphanInv, ChildInv, Ending, Interrupted, Spawned
<1>3. ASSUME NEW j \in Keepers, Age(j) PROVE OrphanInv(k)'
  BY <1>2, <1>3 DEF Age
<1>4. ASSUME NEW j \in Keepers, \/ Command(j) \/ Output(j) \/ Rest(j) \/ TurnEnds(j) \/ Child(j)
                                \/ LastHandleDropped(j)
      PROVE  OrphanInv(k)'
  <2>1. ActorStep(j) /\ UNCHANGED keeperVars
    BY <1>4, ActorSteps
  <2>2. engine = "cli" /\ (Spawned(k)' <=> Spawned(k))
    BY <1>0, <2>1, ActorStepType, ActorStepSpawned DEF Spawned
  <2>3. ChildInv(k)' /\ (Ending(k) => Ending(k)')
    BY <1>0, <2>1, <2>2, ActorEnds DEF OrphanInv
  <2> QED
    BY <2>1, <2>2, <2>3 DEF OrphanInv, keeperVars, reaping, removing
<1>5. ASSUME NEW j \in Keepers, Freed(j) PROVE OrphanInv(k)'
  <2>1. CASE j = k
    BY <1>0, <1>5, <2>1 DEF Freed, FreeKeeper, ActorTypeOK, OrphanInv, ChildInv, Spawned
  <2>2. CASE j # k
    <3>1. /\ queue' = queue /\ pc'[k] = pc[k] /\ proc'[k] = proc[k] /\ engine' = engine
          /\ finished'[k] = finished[k]
      BY <1>0, <1>5, <2>2 DEF Freed, FreeKeeper, ActorTypeOK
    <3> QED
      BY <1>5, <3>1 DEF Freed, reaping, OrphanInv, ChildInv, Ending, Interrupted, Spawned
  <2> QED
    BY <2>1, <2>2
<1>6. ASSUME NEW j \in Keepers, Send(j, "interrupt"), map' = map,
             \A i \in Keepers \ {j} :
               /\ (reaper = "killing" /\ victim = i) => (reaper' = "killing" /\ victim' = i)
               /\ (remover = "interrupting" /\ doomed = i)
                  => (remover' = "interrupting" /\ doomed' = i)
      PROVE  OrphanInv(k)'
  <2>1. engine = "cli"
    BY <1>6 DEF Send
  <2>2. /\ ChildInv(k)' /\ (Spawned(k)' <=> Spawned(k))
        /\ Ending(k) \/ j = k => Ending(k)'
    BY <1>0, <1>6, <2>1, SendEnds DEF OrphanInv
  <2>3. CASE j = k
    BY <2>2, <2>3 DEF OrphanInv
  <2>4. CASE j # k
    BY <1>6, <2>1, <2>2, <2>4 DEF OrphanInv
  <2> QED
    BY <2>3, <2>4
<1>7. CASE ReaperKills
  BY <1>0, <1>6, <1>7 DEF ReaperKills, TaskInv, removing
<1>8. CASE RemoveInterrupts
  BY <1>0, <1>6, <1>8 DEF RemoveInterrupts, TaskInv, reaping
<1>9. CASE ReaperLooks \/ ReaperForgets \/ ReaperKeeps \/ RemoveTakes \/ RemoveReturns
  <2>1. UNCHANGED actorVars
    BY <1>9 DEF ReaperLooks, ReaperForgets, ReaperKeeps, RemoveTakes, RemoveReturns
  <2>2. /\ map # k /\ reaper = "killing" /\ victim = k => reaper' = "killing" /\ victim' = k
        /\ map # k /\ remover = "interrupting" /\ doomed = k
           => remover' = "interrupting" /\ doomed' = k
        /\ map' # k => \/ map # k
                       \/ reaper' = "killing" /\ victim' = k
                       \/ remover' = "interrupting" /\ doomed' = k
    BY <1>0, <1>9 DEF ReaperLooks, ReaperForgets, ReaperKeeps, RemoveTakes, RemoveReturns,
       TaskInv, reaping, removing
  <2>3. (ChildInv(k)' <=> ChildInv(k)) /\ (Spawned(k)' <=> Spawned(k)) /\ (Ending(k)' <=> Ending(k))
        /\ engine = "cli"
    BY <2>1 DEF actorVars, ChildInv, Spawned, Ending, Interrupted
  <2> QED
    BY <2>2, <2>3 DEF OrphanInv
<1>10. CASE UNCHANGED vars
  BY <1>2, <1>10 DEF vars, keeperVars
<1> QED
  BY <1>1, <1>3, <1>4, <1>5, <1>7, <1>8, <1>9, <1>10 DEF Next, KeeperStep

\* A CLI keeper that the map has forgotten is about to be interrupted, or is on its way
\* out, so that no two children work on one transcript for longer than it takes the
\* first to die.
THEOREM NoOrphan == Spec => []NoOrphanProcess
<1> DEFINE Inv == \A k \in Keepers : OrphanInv(k)
<1>1. Init => Inv
  BY DEF Init, ActorInit, OrphanInv, ChildInv, Spawned
<1>2. IInv /\ Inv /\ [Next]_vars => Inv'
  BY OrphanStep
<1>3. Inv => NoOrphanProcess
  BY DEF OrphanInv, Ending, Interrupted, NoOrphanProcess
<1> HIDE DEF Inv
<1> QED
  BY <1>1, <1>2, <1>3, InductiveInvariant, PTL DEF Spec
=============================================================================
