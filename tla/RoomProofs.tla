----------------------------- MODULE RoomProofs -----------------------------
(***************************************************************************)
(* Proofs about the room: its types, that the wheel of a running session   *)
(* is held by a member that is present, that a client that believes it     *)
(* drives does drive, that the wheel is never seized from an active member *)
(* and that a prompt is enqueued only by the driver, and that the rooms    *)
(* implement RoomSpec, for any number of connections, seats, places in the *)
(* channel and keepers.                                                    *)
(***************************************************************************)
EXTENDS Room, FiniteSetTheorems, TLAPS

\* A handler that is in the middle of a message has a keeper.
HandlerHasKeeper == \A c \in Conns : pc[c] # "idle" => at[c] # 0

\* Nobody is in the room of a keeper that was not spawned yet.
AheadEmpty == \A k \in Keepers : k > gen => members[k] = {}

\* The driver of a room is one of its members.
DriverIsMember == \A k \in Keepers : driver[k] # NoConn => driver[k] \in members[k]

\* The members of a room whose keeper runs are attached to it.
LiveMembersAttached ==
  \A k \in Keepers : ~Finished(k) => members[k] \subseteq Attached(k)

SeatsRespected == \A k \in Keepers : Cardinality(members[k]) <= RoomCap

\* A sender that sleeps fell asleep after its role check.
SleepSeen ==
  \A c \in Conns : pc[c] = "sending" /\ c \in asleep[at[c]] => c \in slept

\* A sender drives, or fell asleep after its role check.
SenderDrives ==
  enforced => \A c \in Conns : pc[c] = "sending" => IsDriver(c) \/ c \in slept

IInv ==
  /\ TypeOK
  /\ HandlerHasKeeper
  /\ AheadEmpty
  /\ DriverIsMember
  /\ LiveMembersAttached
  /\ SeatsRespected
  /\ BelievedDriverDrives
  /\ SleepSeen
  /\ SenderDrives

-----------------------------------------------------------------------------
LEMMA InitIInv == Init => IInv
<1>. SUFFICES ASSUME Init PROVE IInv
  OBVIOUS
<1>1. TypeOK
  BY RoomAssumption DEF Init, TypeOK, Keepers, PCs
<1>2. HandlerHasKeeper /\ AheadEmpty /\ DriverIsMember /\ LiveMembersAttached
  BY DEF Init, HandlerHasKeeper, AheadEmpty, DriverIsMember, LiveMembersAttached
<1>3. SeatsRespected
  BY FS_EmptySet, RoomAssumption DEF Init, SeatsRespected
<1>4. BelievedDriverDrives /\ SleepSeen /\ SenderDrives
  BY DEF Init, BelievedDriverDrives, SleepSeen, SenderDrives
<1>5. QED
  BY <1>1, <1>2, <1>3, <1>4 DEF IInv

\* A handler's keeper was spawned: an index into the rooms.
LEMMA AtIsKeeper ==
  ASSUME TypeOK, NEW c \in Conns, at[c] # 0
  PROVE  at[c] \in Keepers /\ at[c] <= gen
BY RoomAssumption DEF TypeOK, Keepers

LEMMA AttachKeepsIInv ==
  ASSUME IInv, NEW c \in Conns, Attach(c)
  PROVE  IInv'
<1>. USE DEF IInv, TypeOK, Attach, keeper, room
<1>1. TypeOK'
  BY DEF PCs, Keepers
<1>2. HandlerHasKeeper' /\ AheadEmpty' /\ DriverIsMember' /\ SeatsRespected'
  BY DEF HandlerHasKeeper, AheadEmpty, DriverIsMember, SeatsRespected, Keepers
<1>3. LiveMembersAttached'
  BY DEF LiveMembersAttached, Attached, Finished, Keepers
<1>4. BelievedDriverDrives'
  BY DEF BelievedDriverDrives
<1>5. SleepSeen' /\ SenderDrives'
  BY DEF SleepSeen, SenderDrives, IsDriver
<1>6. QED
  BY <1>1, <1>2, <1>3, <1>4, <1>5

LEMMA OpenKeepsIInv ==
  ASSUME IInv, NEW c \in Conns, OpenBySend(c)
  PROVE  IInv'
<1>. USE DEF IInv, TypeOK, OpenBySend, keeper, room
<1>0. /\ gen \in Keepers /\ gen' \in Keepers /\ gen <= gen' /\ gen' # 0
      /\ \A k \in Keepers : k \in Nat \ {0}
      /\ gen' > gen => gen' = gen + 1 /\ ~alive
  BY RoomAssumption DEF Keepers
<1>1. TypeOK'
  <2>1. at' \in [Conns -> 0..gen']
    BY <1>0
  <2>2. QED
    BY <1>0, <2>1 DEF PCs
<1>2. HandlerHasKeeper' /\ AheadEmpty' /\ DriverIsMember' /\ SeatsRespected'
  BY <1>0 DEF HandlerHasKeeper, AheadEmpty, DriverIsMember, SeatsRespected, Keepers
<1>3. LiveMembersAttached'
  <2>1. ASSUME NEW k \in Keepers, ~Finished(k)', NEW d \in members'[k]
        PROVE  d \in Attached(k)'
    <3>1. ~Finished(k)
      BY <1>0, <2>1 DEF Finished, AheadEmpty, Keepers
    <3>2. d \in Attached(k)
      BY <2>1, <3>1 DEF LiveMembersAttached
    <3>3. d # c
      BY <3>1, <3>2 DEF Attached, Keepers
    <3>4. QED
      BY <3>2, <3>3 DEF Attached
  <2>2. QED
    BY <2>1 DEF LiveMembersAttached
<1>4. BelievedDriverDrives'
  BY DEF BelievedDriverDrives
<1>5. SleepSeen' /\ SenderDrives'
  BY DEF SleepSeen, SenderDrives, IsDriver
<1>6. QED
  BY <1>1, <1>2, <1>3, <1>4, <1>5

LEMMA AttachFailsKeepsIInv ==
  ASSUME IInv, NEW c \in Conns, AttachFails(c)
  PROVE  IInv'
<1>. USE DEF IInv, TypeOK, AttachFails, keeper, room
<1>1. TypeOK'
  BY DEF PCs, Keepers
<1>2. HandlerHasKeeper' /\ AheadEmpty' /\ DriverIsMember' /\ SeatsRespected'
  BY DEF HandlerHasKeeper, AheadEmpty, DriverIsMember, SeatsRespected
<1>3. LiveMembersAttached'
  BY DEF LiveMembersAttached, Attached, Finished
<1>4. BelievedDriverDrives'
  BY DEF BelievedDriverDrives
<1>5. SleepSeen' /\ SenderDrives'
  BY DEF SleepSeen, SenderDrives, IsDriver
<1>6. QED
  BY <1>1, <1>2, <1>3, <1>4, <1>5

LEMMA JoinKeepsIInv ==
  ASSUME IInv, NEW c \in Conns, JoinRoom(c)
  PROVE  IInv'
<1>. DEFINE k == at[c]
            seated == c \in members[k] \/ Cardinality(members[k]) < RoomCap
<1>0. /\ k \in Keepers /\ k <= gen
      /\ members' = [members EXCEPT ![k] = IF seated THEN @ \cup {c} ELSE @]
      /\ asleep' = [asleep EXCEPT ![k] = IF seated THEN @ \ {c} ELSE @]
      /\ driver' = [driver EXCEPT ![k] = IF seated /\ @ = NoConn THEN c ELSE @]
      /\ told' = [told EXCEPT ![c] = IF driver'[k] = c THEN "driver" ELSE "observer"]
      /\ pc' = [pc EXCEPT ![c] = IF @ = "opening" THEN "checking" ELSE "idle"]
      /\ pc[c] \in {"attaching", "opening"}
      /\ enforced' = enforced /\ gen' = gen /\ alive' = alive /\ at' = at
      /\ queue' = queue /\ slept' = slept
  BY AtIsKeeper DEF IInv, HandlerHasKeeper, JoinRoom, keeper
<1>. HIDE DEF k, seated
<1>1. TypeOK'
  <2>1. TypeOK /\ gen \in Nat
    BY RoomAssumption DEF IInv, TypeOK, Keepers
  <2>2. members' \in [Keepers -> SUBSET Conns] /\ asleep' \in [Keepers -> SUBSET Conns]
    BY <1>0, <2>1 DEF TypeOK
  <2>3. driver' \in [Keepers -> Conns \cup {NoConn}]
    BY <1>0, <2>1 DEF TypeOK
  <2>4. told' \in [Conns -> {"none", "driver", "observer"}]
    BY <1>0, <2>1 DEF TypeOK
  <2>5. pc' \in [Conns -> PCs]
    BY <1>0, <2>1 DEF TypeOK, PCs
  <2>6. QED
    BY <1>0, <2>1, <2>2, <2>3, <2>4, <2>5 DEF TypeOK
<1>. USE DEF IInv, TypeOK
<1>2. HandlerHasKeeper' /\ AheadEmpty' /\ DriverIsMember'
  BY <1>0 DEF HandlerHasKeeper, AheadEmpty, DriverIsMember, Keepers, k
<1>3. SeatsRespected'
  <2>1. IsFiniteSet(members[k]) /\ Cardinality(members[k]) \in Nat
    BY <1>0, RoomAssumption, FS_Subset, FS_CardinalityType
  <2>2. seated => Cardinality(members[k] \cup {c}) <= RoomCap
    <3>1. CASE c \in members[k]
      <4>1. members[k] \cup {c} = members[k]
        BY <3>1
      <4>2. QED
        BY <1>0, <4>1 DEF SeatsRespected
    <3>2. CASE c \notin members[k]
      <4>1. Cardinality(members[k] \cup {c}) = Cardinality(members[k]) + 1
        BY <2>1, <3>2, FS_AddElement
      <4>2. QED
        BY <2>1, <3>2, <4>1, RoomAssumption DEF seated
    <3>3. QED
      BY <3>1, <3>2
  <2>3. QED
    BY <1>0, <2>2 DEF SeatsRespected
<1>4. LiveMembersAttached'
  BY <1>0 DEF LiveMembersAttached, Attached, Finished, k
<1>5. BelievedDriverDrives'
  <2>1. ASSUME enforced, NEW d \in Conns, told'[d] = "driver", at[d] # 0,
               pc'[d] \notin {"attaching", "opening"}, d \notin asleep'[at[d]]
        PROVE  driver'[at[d]] = d
    <3>1. CASE d = c
      BY <1>0, <2>1, <3>1 DEF k
    <3>2. CASE d # c
      <4>1. /\ told[d] = "driver" /\ pc[d] \notin {"attaching", "opening"}
            /\ d \notin asleep[at[d]]
        BY <1>0, <2>1, <3>2, AtIsKeeper
      <4>2. driver[at[d]] = d
        BY <2>1, <4>1 DEF BelievedDriverDrives
      <4>3. QED
        BY <1>0, <2>1, <4>2, AtIsKeeper, RoomAssumption
    <3>3. QED
      BY <3>1, <3>2
  <2>2. QED
    BY <1>0, <2>1 DEF BelievedDriverDrives
<1>6. SleepSeen'
  BY <1>0, AtIsKeeper DEF SleepSeen, HandlerHasKeeper
<1>7. SenderDrives'
  <2>1. ASSUME enforced, NEW d \in Conns, pc'[d] = "sending", d \notin slept
        PROVE  IsDriver(d)'
    <3>1. d # c /\ pc[d] = "sending"
      BY <1>0, <2>1
    <3>2. IsDriver(d) /\ at[d] \in Keepers
      BY <2>1, <3>1, AtIsKeeper DEF SenderDrives, IsDriver
    <3>3. QED
      BY <1>0, <3>2, RoomAssumption DEF IsDriver
  <2>2. QED
    BY <1>0, <2>1 DEF SenderDrives
<1>8. QED
  BY <1>1, <1>2, <1>3, <1>4, <1>5, <1>6, <1>7

LEMMA DisconnectKeepsIInv ==
  ASSUME IInv, NEW c \in Conns, Disconnect(c)
  PROVE  IInv'
<1>. DEFINE k == at[c]
<1>0. /\ k \in Keepers /\ k <= gen /\ pc[c] = "idle"
      /\ members' = [members EXCEPT ![k] = @ \ {c}]
      /\ asleep' = [asleep EXCEPT ![k] = @ \ {c}]
      /\ driver' = [driver EXCEPT ![k] = IF @ = c THEN NoConn ELSE @]
      /\ at' = [at EXCEPT ![c] = 0]
      /\ told' = [told EXCEPT ![c] = "none"]
      /\ enforced' = enforced /\ gen' = gen /\ alive' = alive
      /\ pc' = pc /\ queue' = queue /\ slept' = slept
  BY AtIsKeeper DEF IInv, Disconnect, keeper
<1>. HIDE DEF k
<1>1. TypeOK'
  <2>1. TypeOK /\ gen \in Nat
    BY RoomAssumption DEF IInv, TypeOK, Keepers
  <2>2. members' \in [Keepers -> SUBSET Conns] /\ asleep' \in [Keepers -> SUBSET Conns]
    BY <1>0, <2>1 DEF TypeOK
  <2>3. driver' \in [Keepers -> Conns \cup {NoConn}]
    BY <1>0, <2>1 DEF TypeOK
  <2>4. told' \in [Conns -> {"none", "driver", "observer"}]
    BY <1>0, <2>1 DEF TypeOK
  <2>5. at' \in [Conns -> 0..gen]
    BY <1>0, <2>1 DEF TypeOK
  <2>6. QED
    BY <1>0, <2>1, <2>2, <2>3, <2>4, <2>5 DEF TypeOK
<1>. USE DEF IInv, TypeOK
<1>2. HandlerHasKeeper' /\ AheadEmpty' /\ DriverIsMember'
  BY <1>0 DEF HandlerHasKeeper, AheadEmpty, DriverIsMember, Keepers
<1>3. SeatsRespected'
  <2>1. IsFiniteSet(members[k]) /\ Cardinality(members[k]) \in Nat
    BY <1>0, RoomAssumption, FS_Subset, FS_CardinalityType
  <2>2. Cardinality(members[k] \ {c}) <= Cardinality(members[k])
        /\ Cardinality(members[k] \ {c}) \in Nat
    BY <2>1, FS_Subset, FS_CardinalityType
  <2>3. Cardinality(members[k] \ {c}) <= RoomCap
    BY <1>0, <2>1, <2>2, RoomAssumption DEF SeatsRespected
  <2>4. QED
    BY <1>0, <2>3 DEF SeatsRespected
<1>4. LiveMembersAttached'
  BY <1>0 DEF LiveMembersAttached, Attached, Finished, k
<1>5. BelievedDriverDrives'
  <2>1. ASSUME enforced, NEW d \in Conns, told'[d] = "driver", at'[d] # 0,
               pc[d] \notin {"attaching", "opening"}, d \notin asleep'[at'[d]]
        PROVE  driver'[at'[d]] = d
    <3>1. d # c /\ at'[d] = at[d] /\ told[d] = "driver" /\ at[d] \in Keepers
      BY <1>0, <2>1, AtIsKeeper
    <3>2. d \notin asleep[at[d]]
      BY <1>0, <2>1, <3>1
    <3>3. driver[at[d]] = d
      BY <2>1, <3>1, <3>2 DEF BelievedDriverDrives
    <3>4. QED
      BY <1>0, <3>1, <3>3
  <2>2. QED
    BY <1>0, <2>1 DEF BelievedDriverDrives
<1>6. SleepSeen'
  BY <1>0, AtIsKeeper DEF SleepSeen, HandlerHasKeeper
<1>7. SenderDrives'
  BY <1>0, AtIsKeeper DEF SenderDrives, IsDriver
<1>8. QED
  BY <1>1, <1>2, <1>3, <1>4, <1>5, <1>6, <1>7

\* Steps that touch only the wheel of c's own room, as its member.
LEMMA TakeKeepsIInv ==
  ASSUME IInv, NEW c \in Conns, TakeControl(c)
  PROVE  IInv'
<1>. DEFINE k == at[c]
<1>0. /\ k \in Keepers /\ pc[c] = "idle" /\ c \in members[k]
      /\ driver' = [driver EXCEPT ![k] = c]
      /\ asleep' = [asleep EXCEPT ![k] = @ \ {c}]
      /\ told' = [told EXCEPT ![c] = "driver"]
      /\ enforced' = enforced /\ gen' = gen /\ alive' = alive /\ members' = members
      /\ at' = at /\ pc' = pc /\ queue' = queue /\ slept' = slept
  BY AtIsKeeper DEF IInv, TakeControl, keeper
<1>00. driver[k] \in {NoConn, c} \/ driver[k] \in asleep[k]
  BY <1>0 DEF IInv, TakeControl, WheelFree, DriverIsMember
<1>. HIDE DEF k
<1>. USE DEF IInv, TypeOK
<1>1. TypeOK'
  BY <1>0
<1>2. HandlerHasKeeper' /\ AheadEmpty' /\ DriverIsMember' /\ SeatsRespected'
  BY <1>0 DEF HandlerHasKeeper, AheadEmpty, DriverIsMember, SeatsRespected
<1>3. LiveMembersAttached'
  BY <1>0 DEF LiveMembersAttached, Attached, Finished
<1>4. BelievedDriverDrives'
  <2>1. ASSUME enforced, NEW d \in Conns, told'[d] = "driver", at[d] # 0,
               pc[d] \notin {"attaching", "opening"}, d \notin asleep'[at[d]]
        PROVE  driver'[at[d]] = d
    <3>1. CASE d = c
      BY <1>0, <3>1 DEF k
    <3>2. CASE d # c
      <4>1. at[d] \in Keepers /\ told[d] = "driver" /\ d \notin asleep[at[d]]
        BY <1>0, <2>1, <3>2, AtIsKeeper
      <4>2. driver[at[d]] = d
        BY <2>1, <4>1 DEF BelievedDriverDrives
      <4>3. at[d] # k
        BY <1>00, <3>2, <4>1, <4>2, RoomAssumption
      <4>4. QED
        BY <1>0, <4>1, <4>2, <4>3
    <3>3. QED
      BY <3>1, <3>2
  <2>2. QED
    BY <1>0, <2>1 DEF BelievedDriverDrives
<1>5. SleepSeen'
  BY <1>0, AtIsKeeper DEF SleepSeen, HandlerHasKeeper
<1>6. SenderDrives'
  <2>1. ASSUME enforced, NEW d \in Conns, pc[d] = "sending", d \notin slept
        PROVE  IsDriver(d)'
    <3>1. IsDriver(d) /\ at[d] \in Keepers /\ d # c /\ d \notin asleep[at[d]]
      BY <1>0, <2>1, AtIsKeeper DEF SenderDrives, IsDriver, SleepSeen
    <3>2. at[d] # k
      BY <1>00, <3>1, RoomAssumption DEF IsDriver
    <3>3. QED
      BY <1>0, <3>1, <3>2 DEF IsDriver
  <2>2. QED
    BY <1>0, <2>1 DEF SenderDrives
<1>7. QED
  BY <1>1, <1>2, <1>3, <1>4, <1>5, <1>6

LEMMA ReleaseKeepsIInv ==
  ASSUME IInv, NEW c \in Conns, ReleaseControl(c)
  PROVE  IInv'
<1>0. /\ at[c] \in Keepers /\ pc[c] = "idle" /\ driver[at[c]] = c
      /\ driver' = [driver EXCEPT ![at[c]] = NoConn]
      /\ told' = [told EXCEPT ![c] = "observer"]
      /\ enforced' = enforced /\ gen' = gen /\ alive' = alive /\ members' = members
      /\ asleep' = asleep /\ at' = at /\ pc' = pc /\ queue' = queue /\ slept' = slept
  BY AtIsKeeper DEF IInv, ReleaseControl, keeper
<1>. USE DEF IInv, TypeOK
<1>1. TypeOK'
  BY <1>0
<1>2. HandlerHasKeeper' /\ AheadEmpty' /\ DriverIsMember' /\ SeatsRespected'
  BY <1>0 DEF HandlerHasKeeper, AheadEmpty, DriverIsMember, SeatsRespected
<1>3. LiveMembersAttached'
  BY <1>0 DEF LiveMembersAttached, Attached, Finished
<1>4. BelievedDriverDrives'
  BY <1>0, AtIsKeeper DEF BelievedDriverDrives
<1>5. SleepSeen' /\ SenderDrives'
  BY <1>0, AtIsKeeper DEF SleepSeen, SenderDrives, IsDriver
<1>6. QED
  BY <1>1, <1>2, <1>3, <1>4, <1>5

LEMMA SleepKeepsIInv ==
  ASSUME IInv, NEW c \in Conns, NEW k \in Keepers, FallAsleep(k, c)
  PROVE  IInv'
<1>. USE DEF IInv, TypeOK, FallAsleep, keeper
<1>1. TypeOK'
  OBVIOUS
<1>2. HandlerHasKeeper' /\ AheadEmpty' /\ DriverIsMember' /\ SeatsRespected'
  BY DEF HandlerHasKeeper, AheadEmpty, DriverIsMember, SeatsRespected
<1>3. LiveMembersAttached'
  BY DEF LiveMembersAttached, Attached, Finished
<1>4. BelievedDriverDrives'
  BY AtIsKeeper DEF BelievedDriverDrives
<1>5. SleepSeen' /\ SenderDrives'
  BY AtIsKeeper DEF SleepSeen, SenderDrives, IsDriver, HandlerHasKeeper
<1>6. QED
  BY <1>1, <1>2, <1>3, <1>4, <1>5

LEMMA SendCheckKeepsIInv ==
  ASSUME IInv, NEW c \in Conns, SendCheck(c)
  PROVE  IInv'
<1>0. /\ at[c] \in Keepers /\ (enforced => IsDriver(c)) /\ pc[c] \in {"checking", "idle"}
      /\ asleep' = [asleep EXCEPT ![at[c]] = @ \ {c}]
      /\ pc' = [pc EXCEPT ![c] = "sending"]
      /\ enforced' = enforced /\ gen' = gen /\ alive' = alive /\ members' = members
      /\ driver' = driver /\ at' = at /\ told' = told /\ queue' = queue /\ slept' = slept
  BY AtIsKeeper DEF IInv, HandlerHasKeeper, SendCheck, MaySend, Touch, keeper
<1>. USE DEF IInv, TypeOK
<1>1. TypeOK'
  BY <1>0 DEF PCs
<1>2. HandlerHasKeeper' /\ AheadEmpty' /\ DriverIsMember' /\ SeatsRespected'
  BY <1>0 DEF HandlerHasKeeper, AheadEmpty, DriverIsMember, SeatsRespected, Keepers
<1>3. LiveMembersAttached'
  BY <1>0 DEF LiveMembersAttached, Attached, Finished
<1>4. BelievedDriverDrives'
  BY <1>0, AtIsKeeper DEF BelievedDriverDrives, IsDriver
<1>5. SleepSeen' /\ SenderDrives'
  BY <1>0, AtIsKeeper DEF SleepSeen, SenderDrives, IsDriver, HandlerHasKeeper
<1>6. QED
  BY <1>1, <1>2, <1>3, <1>4, <1>5

\* The end of a handler leaves the room as it is.
LEMMA SendEndsKeepsIInv ==
  ASSUME IInv, NEW c \in Conns, SendRefused(c) \/ Enqueue(c) \/ SendLost(c)
  PROVE  IInv'
<1>0. /\ pc[c] \in {"checking", "sending"} /\ pc' = [pc EXCEPT ![c] = "idle"]
      /\ enforced' = enforced /\ gen' = gen /\ alive' = alive /\ members' = members
      /\ driver' = driver /\ asleep' = asleep /\ at' = at /\ told' = told
      /\ slept' \in {slept, slept \ {c}}
  BY DEF IInv, TypeOK, SendRefused, Enqueue, SendLost, keeper, room
<1>. USE DEF IInv, TypeOK
<1>1. TypeOK'
  <2>1. queue' \in Seq(Conns) /\ Len(queue') <= QueueCap
    <3>1. /\ Append(queue, c) \in Seq(Conns) /\ Len(Append(queue, c)) = Len(queue) + 1
          /\ Len(queue) \in Nat
      OBVIOUS
    <3>2. CASE Enqueue(c)
      BY <3>1, <3>2, RoomAssumption DEF Enqueue
    <3>3. CASE SendRefused(c) \/ SendLost(c)
      BY <3>3 DEF SendRefused, SendLost
    <3>4. QED
      BY <3>2, <3>3
  <2>2. QED
    BY <1>0, <2>1 DEF PCs
<1>2. HandlerHasKeeper' /\ AheadEmpty' /\ DriverIsMember' /\ SeatsRespected'
  BY <1>0 DEF HandlerHasKeeper, AheadEmpty, DriverIsMember, SeatsRespected
<1>3. LiveMembersAttached'
  BY <1>0 DEF LiveMembersAttached, Attached, Finished
<1>4. BelievedDriverDrives'
  BY <1>0 DEF BelievedDriverDrives
<1>5. SleepSeen' /\ SenderDrives'
  BY <1>0 DEF SleepSeen, SenderDrives, IsDriver
<1>6. QED
  BY <1>1, <1>2, <1>3, <1>4, <1>5

\* The actor receives, or ends: the rooms and the handlers stay.
LEMMA ActorKeepsIInv ==
  ASSUME IInv, Dequeue \/ KeeperEnds
  PROVE  IInv'
<1>0. /\ gen' = gen /\ (alive' => alive) /\ enforced' = enforced /\ members' = members
      /\ driver' = driver /\ asleep' = asleep /\ at' = at /\ pc' = pc
      /\ told' = told /\ slept' = slept
  BY DEF Dequeue, KeeperEnds, keeper, room
<1>. USE DEF IInv, TypeOK
<1>1. TypeOK'
  <2>1. queue' \in Seq(Conns) /\ Len(queue') <= QueueCap
    <3>1. CASE Dequeue
      <4>1. queue # <<>> /\ queue' = Tail(queue)
        BY <3>1 DEF Dequeue
      <4>2. Tail(queue) \in Seq(Conns) /\ Len(Tail(queue)) = Len(queue) - 1
            /\ Len(queue) \in Nat
        BY <4>1
      <4>3. QED
        BY <4>1, <4>2, RoomAssumption
    <3>2. CASE KeeperEnds
      <4>1. <<>> \in Seq(Conns) /\ Len(<<>>) = 0
        OBVIOUS
      <4>2. QED
        BY <3>2, <4>1, RoomAssumption DEF KeeperEnds
    <3>3. QED
      BY <3>1, <3>2
  <2>2. alive' \in BOOLEAN
    BY DEF Dequeue, KeeperEnds, keeper
  <2>3. QED
    BY <1>0, <2>1, <2>2
<1>2. HandlerHasKeeper' /\ AheadEmpty' /\ DriverIsMember' /\ SeatsRespected'
  BY <1>0 DEF HandlerHasKeeper, AheadEmpty, DriverIsMember, SeatsRespected
<1>3. LiveMembersAttached'
  BY <1>0 DEF LiveMembersAttached, Attached, Finished
<1>4. BelievedDriverDrives'
  BY <1>0 DEF BelievedDriverDrives
<1>5. SleepSeen' /\ SenderDrives'
  BY <1>0 DEF SleepSeen, SenderDrives, IsDriver
<1>6. QED
  BY <1>1, <1>2, <1>3, <1>4, <1>5

LEMMA StutterKeepsIInv ==
  ASSUME IInv, UNCHANGED vars
  PROVE  IInv'
BY DEF vars, IInv, TypeOK, HandlerHasKeeper, AheadEmpty, DriverIsMember, LiveMembersAttached,
       SeatsRespected, BelievedDriverDrives, SleepSeen, SenderDrives, Attached, Finished, IsDriver

LEMMA NextIInv == IInv /\ [Next]_vars => IInv'
BY AttachKeepsIInv, OpenKeepsIInv, AttachFailsKeepsIInv, JoinKeepsIInv, DisconnectKeepsIInv,
   TakeKeepsIInv, ReleaseKeepsIInv, SleepKeepsIInv, SendCheckKeepsIInv, SendEndsKeepsIInv,
   ActorKeepsIInv, StutterKeepsIInv DEF Next

LEMMA InvariantHolds == Spec => []IInv
BY InitIInv, NextIInv, PTL DEF Spec

\* Each variable keeps its type and the command channel its capacity.
THEOREM TypeCorrect == Spec => []TypeOK
<1>1. IInv => TypeOK
  BY DEF IInv
<1>2. QED
  BY <1>1, InvariantHolds, PTL

\* A room never seats more than ROOM_CAP, its driver is a member, and while its
\* keeper runs its members are connections that are open and attached to it.
THEOREM WheelIsHeldByPresent == Spec => []WheelHeldByPresent
<1>1. IInv => WheelHeldByPresent
  BY DEF IInv, SeatsRespected, DriverIsMember, LiveMembersAttached, WheelHeldByPresent
<1>2. QED
  BY <1>1, InvariantHolds, PTL

\* Where roles are enforced, an active client that was told it drives does.
THEOREM BelievedDriverIsDriver == Spec => []BelievedDriverDrives
<1>1. IInv => BelievedDriverDrives
  BY DEF IInv
<1>2. QED
  BY <1>1, InvariantHolds, PTL

\* The wheel changes hands only when it was released or its holder fell asleep.
THEOREM WheelIsNotSeized == Spec => WheelNotSeized
<1>. DEFINE A == \A k \in Keepers :
                   driver[k] # NoConn /\ driver'[k] \notin {NoConn, driver[k]}
                   => driver[k] \in asleep[k]
<1>1. ASSUME IInv, [Next]_vars
      PROVE  [A]_vars
  <2>1. ASSUME NEW c \in Conns, JoinRoom(c) PROVE A
    BY <1>1, <2>1, AtIsKeeper DEF JoinRoom, IInv, TypeOK, HandlerHasKeeper
  <2>2. ASSUME NEW c \in Conns, TakeControl(c) PROVE A
    BY <1>1, <2>2, AtIsKeeper DEF TakeControl, WheelFree, IInv, TypeOK, DriverIsMember
  <2>3. ASSUME NEW c \in Conns, Disconnect(c) \/ ReleaseControl(c) PROVE A
    BY <1>1, <2>3, AtIsKeeper DEF Disconnect, ReleaseControl, IInv, TypeOK
  <2>4. ASSUME driver' = driver PROVE A
    BY <2>4
  <2>5. QED
    BY <1>1, <2>1, <2>2, <2>3, <2>4
       DEF Next, vars, Dequeue, KeeperEnds, Attach, OpenBySend, AttachFails, SendCheck,
           SendRefused, Enqueue, SendLost, FallAsleep, room
<1>2. QED
  BY <1>1, InvariantHolds, PTL DEF Spec, WheelNotSeized

\* Where roles are enforced, a prompt enters the command channel only from the
\* driver or from a sender that slept through the wait: the role check and the
\* send are two steps, and the touch between them keeps the wheel.
THEOREM SteeredOnlyByDriver == Spec => SteeredByDriver
<1>. DEFINE A == \A c \in Conns :
                   Len(queue') > Len(queue) /\ queue'[Len(queue')] = c /\ enforced
                   => IsDriver(c) \/ c \in slept
<1>1. ASSUME IInv, [Next]_vars
      PROVE  [A]_vars
  <2>1. ASSUME NEW c \in Conns, Enqueue(c) PROVE A
    <3>1. queue'[Len(queue')] = c
      BY <1>1, <2>1 DEF Enqueue, IInv, TypeOK
    <3>2. enforced => IsDriver(c) \/ c \in slept
      BY <1>1, <2>1 DEF Enqueue, IInv, SenderDrives
    <3>3. QED
      BY <3>1, <3>2
  <2>2. ASSUME Dequeue \/ KeeperEnds PROVE A
    <3>1. ~(Len(queue') > Len(queue))
      BY <1>1, <2>2 DEF Dequeue, KeeperEnds, IInv, TypeOK
    <3>2. QED
      BY <3>1
  <2>3. ASSUME queue' = queue PROVE A
    <3>1. Len(queue) \in Nat
      BY <1>1 DEF IInv, TypeOK
    <3>2. QED
      BY <2>3, <3>1
  <2>4. QED
    BY <1>1, <2>1, <2>2, <2>3
       DEF Next, vars, Attach, OpenBySend, AttachFails, JoinRoom, Disconnect, TakeControl,
           ReleaseControl, SendCheck, SendRefused, SendLost, FallAsleep
<1>2. QED
  BY <1>1, InvariantHolds, PTL DEF Spec, SteeredByDriver

-----------------------------------------------------------------------------
(* The rooms implement RoomSpec.                                           *)

\* Who is noted to have slept through the wait still waits, and still sleeps.
SleptIsAsleep == \A c \in slept : pc[c] = "sending" /\ c \in asleep[at[c]]

LEMMA InitSlept == Init => SleptIsAsleep
BY DEF Init, SleptIsAsleep

LEMMA NextSlept ==
  ASSUME IInv, SleptIsAsleep, [Next]_vars
  PROVE  SleptIsAsleep'
<1>. USE DEF IInv, TypeOK, SleptIsAsleep
<1>1. \A c \in slept : at[c] \in Keepers
  BY AtIsKeeper DEF HandlerHasKeeper
<1>2. ASSUME NEW c \in Conns, Attach(c) \/ OpenBySend(c) \/ AttachFails(c)
      PROVE  SleptIsAsleep'
  <2>1. /\ pc[c] # "sending" /\ slept' = slept /\ asleep' = asleep
        /\ \A d \in Conns \ {c} : pc'[d] = pc[d] /\ at'[d] = at[d]
    BY <1>2 DEF Attach, OpenBySend, AttachFails, room
  <2>2. QED
    BY <2>1
<1>3. ASSUME NEW c \in Conns, JoinRoom(c) \/ Disconnect(c) \/ TakeControl(c)
      PROVE  SleptIsAsleep'
  <2>1. /\ pc[c] # "sending" /\ slept' = slept
        /\ \A d \in Conns \ {c} : pc'[d] = pc[d] /\ at'[d] = at[d]
    BY <1>3 DEF JoinRoom, Disconnect, TakeControl
  <2>2. asleep' = [asleep EXCEPT ![at[c]] = @ \ {c}] \/ asleep' = asleep
    BY <1>3 DEF JoinRoom, Disconnect, TakeControl
  <2>3. ASSUME NEW d \in slept PROVE pc'[d] = "sending" /\ d \in asleep'[at'[d]]
    <3>1. d \in Conns \ {c} /\ pc[d] = "sending" /\ d \in asleep[at[d]] /\ at[d] \in Keepers
      BY <1>1, <2>1, <2>3
    <3>2. d \in asleep'[at[d]]
      <4>1. CASE asleep' = asleep
        BY <3>1, <4>1
      <4>2. CASE asleep' = [asleep EXCEPT ![at[c]] = @ \ {c}]
        <5>1. asleep'[at[d]] \in {asleep[at[d]], asleep[at[d]] \ {c}}
          BY <3>1, <4>2
        <5>2. QED
          BY <3>1, <5>1
      <4>3. QED
        BY <2>2, <4>1, <4>2
    <3>3. QED
      BY <2>1, <3>1, <3>2
  <2>4. QED
    BY <2>1, <2>3
<1>4. ASSUME NEW c \in Conns, SendCheck(c) PROVE SleptIsAsleep'
  BY <1>1, <1>4, AtIsKeeper DEF SendCheck, Touch, HandlerHasKeeper
<1>5. ASSUME NEW c \in Conns, Enqueue(c) \/ SendLost(c) \/ SendRefused(c) \/ ReleaseControl(c)
      PROVE  SleptIsAsleep'
  BY <1>5 DEF Enqueue, SendLost, SendRefused, ReleaseControl, room
<1>6. ASSUME NEW c \in Conns, NEW k \in Keepers, FallAsleep(k, c) PROVE SleptIsAsleep'
  BY <1>1, <1>6 DEF FallAsleep
<1>7. CASE Dequeue \/ KeeperEnds \/ UNCHANGED vars
  BY <1>7 DEF Dequeue, KeeperEnds, vars, room
<1>8. QED
  BY <1>2, <1>3, <1>4, <1>5, <1>6, <1>7 DEF Next

LEMMA SleptHolds == Spec => []SleptIsAsleep
BY InitSlept, NextSlept, InvariantHolds, PTL DEF Spec

\* Nobody becomes cleared, or ceases to be, by a step of a handler that is not sending.
LEMMA ClearedStays ==
  ASSUME IInv, NEW c \in Conns, pc[c] # "sending", pc'[c] # "sending",
         \A d \in Conns \ {c} : pc'[d] = pc[d] /\ at'[d] = at[d]
  PROVE  Cleared' = Cleared
<1>1. \A d \in Conns, k \in Keepers :
        (pc'[d] = "sending" /\ at'[d] = k) <=> (pc[d] = "sending" /\ at[d] = k)
  OBVIOUS
<1>2. QED
  BY <1>1 DEF Cleared

\* A handler that is sending ceases to be cleared, and nobody else does.
LEMMA ClearedEnds ==
  ASSUME IInv, NEW c \in Conns, pc[c] = "sending", pc' = [pc EXCEPT ![c] = "idle"], at' = at
  PROVE  /\ at[c] \in Keepers /\ c \in Cleared[at[c]]
         /\ Cleared' = [Cleared EXCEPT ![at[c]] = @ \ {c}]
<1>1. at[c] \in Keepers
  BY AtIsKeeper DEF IInv, HandlerHasKeeper
<1>2. /\ \A d \in Conns \ {c} : pc'[d] = pc[d]
      /\ pc'[c] # "sending"
  BY DEF IInv, TypeOK
<1>3. ASSUME NEW k \in Keepers
      PROVE  Cleared'[k] = IF k = at[c] THEN Cleared[k] \ {c} ELSE Cleared[k]
  <2>1. CASE k = at[c]
    BY <1>2, <2>1 DEF Cleared
  <2>2. CASE k # at[c]
    BY <1>2, <2>2 DEF Cleared
  <2>3. QED
    BY <2>1, <2>2
<1>4. Cleared' = [k \in Keepers |-> IF k = at[c] THEN Cleared[k] \ {c} ELSE Cleared[k]]
  BY <1>3 DEF Cleared
<1>5. QED
  BY <1>1, <1>4 DEF Cleared

LEMMA InitImplements == Init => Abstract!Init
BY DEF Init, Abstract!Init, Cleared

LEMMA JoinImplements ==
  ASSUME IInv, NEW c \in Conns, JoinRoom(c)
  PROVE  \E k \in Keepers : Abstract!Enter(k, c) \/ UNCHANGED Abstract!vars
<1>. DEFINE k == at[c]
            seated == c \in members[k] \/ Cardinality(members[k]) < RoomCap
<1>1. /\ k \in Keepers
      /\ members' = [members EXCEPT ![k] = IF seated THEN @ \cup {c} ELSE @]
      /\ asleep' = [asleep EXCEPT ![k] = IF seated THEN @ \ {c} ELSE @]
      /\ driver' = [driver EXCEPT ![k] = IF seated /\ @ = NoConn THEN c ELSE @]
      /\ enforced' = enforced /\ queue' = queue
  BY AtIsKeeper DEF IInv, HandlerHasKeeper, JoinRoom, keeper
<1>2. Cleared' = Cleared
  <2>1. /\ pc[c] # "sending" /\ pc'[c] # "sending"
        /\ \A d \in Conns \ {c} : pc'[d] = pc[d] /\ at'[d] = at[d]
    BY DEF IInv, TypeOK, JoinRoom
  <2>2. QED
    BY <2>1, ClearedStays
<1>. HIDE DEF k
<1>3. CASE seated
  <2>1. /\ members' = [members EXCEPT ![k] = @ \cup {c}]
        /\ asleep' = [asleep EXCEPT ![k] = @ \ {c}]
        /\ driver' = [driver EXCEPT ![k] = IF @ = NoConn THEN c ELSE @]
    BY <1>1, <1>3
  <2>2. Abstract!Cardinality(members[k]) = Cardinality(members[k])
    BY DEF Abstract!Cardinality, Cardinality, Abstract!IsFiniteSet, IsFiniteSet
  <2>3. Abstract!Enter(k, c)
    BY <1>1, <1>2, <1>3, <2>1, <2>2 DEF Abstract!Enter
  <2>4. QED
    BY <1>1, <2>3
<1>4. CASE ~seated
  <2>1. members' = members /\ asleep' = asleep /\ driver' = driver
    BY <1>1, <1>4 DEF IInv, TypeOK
  <2>2. QED
    BY <1>1, <1>2, <2>1 DEF Abstract!vars
<1>5. QED
  BY <1>3, <1>4

LEMMA DisconnectImplements ==
  ASSUME IInv, NEW c \in Conns, Disconnect(c)
  PROVE  \E k \in Keepers : Abstract!Leave(k, c)
<1>1. at[c] \in Keepers /\ c \notin Cleared[at[c]]
  BY AtIsKeeper DEF IInv, Disconnect, Cleared
<1>2. Cleared' = Cleared
  <2>1. /\ pc[c] # "sending" /\ pc'[c] # "sending"
        /\ \A d \in Conns \ {c} : pc'[d] = pc[d] /\ at'[d] = at[d]
    BY DEF IInv, TypeOK, Disconnect
  <2>2. QED
    BY <2>1, ClearedStays
<1>3. Abstract!Leave(at[c], c)
  BY <1>1, <1>2 DEF Abstract!Leave, Disconnect, keeper
<1>4. QED
  BY <1>1, <1>3

\* The wheel is asked for, let go, or its holder falls asleep.
LEMMA WheelImplements ==
  ASSUME IInv, NEW c \in Conns
  PROVE  /\ TakeControl(c) => \E k \in Keepers : Abstract!Take(k, c)
         /\ ReleaseControl(c) => \E k \in Keepers : Abstract!Release(k, c)
         /\ \A k \in Keepers : FallAsleep(k, c) => Abstract!FallIdle(k, c)
<1>1. ASSUME TakeControl(c) PROVE \E k \in Keepers : Abstract!Take(k, c)
  <2>1. at[c] \in Keepers /\ driver[at[c]] \in {NoConn, c} \cup asleep[at[c]]
    BY <1>1, AtIsKeeper DEF IInv, TakeControl, WheelFree, DriverIsMember
  <2>2. Cleared' = Cleared
    BY <1>1 DEF TakeControl, Cleared
  <2>3. Abstract!Take(at[c], c)
    BY <1>1, <2>1, <2>2 DEF Abstract!Take, TakeControl, keeper
  <2>4. QED
    BY <2>1, <2>3
<1>2. ASSUME ReleaseControl(c) PROVE \E k \in Keepers : Abstract!Release(k, c)
  <2>1. at[c] \in Keepers
    BY <1>2, AtIsKeeper DEF IInv, ReleaseControl
  <2>2. Cleared' = Cleared
    BY <1>2 DEF ReleaseControl, Cleared
  <2>3. Abstract!Release(at[c], c)
    BY <1>2, <2>1, <2>2 DEF Abstract!Release, ReleaseControl, keeper
  <2>4. QED
    BY <2>1, <2>3
<1>3. ASSUME NEW k \in Keepers, FallAsleep(k, c) PROVE Abstract!FallIdle(k, c)
  BY <1>3 DEF Abstract!FallIdle, FallAsleep, Cleared, keeper
<1>4. QED
  BY <1>1, <1>2, <1>3

LEMMA SendCheckImplements ==
  ASSUME IInv, NEW c \in Conns, SendCheck(c)
  PROVE  \E k \in Keepers : Abstract!Clear(k, c)
<1>1. at[c] \in Keepers /\ (enforced => c \in members[at[c]] /\ driver[at[c]] = c)
  BY AtIsKeeper DEF IInv, HandlerHasKeeper, SendCheck, MaySend, IsDriver
<1>2. \A d \in Conns : pc'[d] = IF d = c THEN "sending" ELSE pc[d]
  BY DEF IInv, TypeOK, SendCheck
<1>3. at' = at
  BY DEF SendCheck
<1>4. Cleared' = [Cleared EXCEPT ![at[c]] = @ \cup {c}]
  <2>1. ASSUME NEW k \in Keepers
        PROVE  Cleared'[k] = IF k = at[c] THEN Cleared[k] \cup {c} ELSE Cleared[k]
    <3>1. CASE k = at[c]
      BY <1>2, <1>3, <3>1 DEF Cleared
    <3>2. CASE k # at[c]
      BY <1>2, <1>3, <3>2 DEF Cleared
    <3>3. QED
      BY <3>1, <3>2
  <2>2. Cleared' = [k \in Keepers |-> IF k = at[c] THEN Cleared[k] \cup {c} ELSE Cleared[k]]
    BY <2>1 DEF Cleared
  <2>3. QED
    BY <1>1, <2>2 DEF Cleared
<1>5. Abstract!Clear(at[c], c)
  BY <1>1, <1>4 DEF Abstract!Clear, SendCheck, Touch, keeper
<1>6. QED
  BY <1>1, <1>5

\* A prompt is put into the channel, or lost: the sender was cleared, and drives or slept.
LEMMA SendEndsImplements ==
  ASSUME IInv, SleptIsAsleep, NEW c \in Conns
  PROVE  /\ Enqueue(c) => \E k \in Keepers : Abstract!Say(k, c)
         /\ SendLost(c) => \E k \in Keepers : Abstract!Drop(k, c)
<1>1. ASSUME Enqueue(c) PROVE \E k \in Keepers : Abstract!Say(k, c)
  <2>1. /\ at[c] \in Keepers /\ c \in Cleared[at[c]]
        /\ Cleared' = [Cleared EXCEPT ![at[c]] = @ \ {c}]
    BY <1>1, ClearedEnds DEF Enqueue
  <2>2. enforced => driver[at[c]] = c \/ c \in asleep[at[c]]
    BY <1>1 DEF IInv, SenderDrives, SleptIsAsleep, IsDriver, Enqueue
  <2>3. Abstract!Say(at[c], c)
    BY <1>1, <2>1, <2>2 DEF Abstract!Say, Enqueue, keeper, room
  <2>4. QED
    BY <2>1, <2>3
<1>2. ASSUME SendLost(c) PROVE \E k \in Keepers : Abstract!Drop(k, c)
  <2>1. /\ at[c] \in Keepers /\ c \in Cleared[at[c]]
        /\ Cleared' = [Cleared EXCEPT ![at[c]] = @ \ {c}]
    BY <1>2, ClearedEnds DEF SendLost
  <2>2. Abstract!Drop(at[c], c)
    BY <1>2, <2>1 DEF Abstract!Drop, SendLost, keeper, room
  <2>3. QED
    BY <2>1, <2>2
<1>3. QED
  BY <1>1, <1>2

\* Attaching, and a refusal, are no step of the room.
LEMMA HandlerStutters ==
  ASSUME IInv, NEW c \in Conns,
         Attach(c) \/ OpenBySend(c) \/ AttachFails(c) \/ SendRefused(c)
  PROVE  UNCHANGED Abstract!vars
<1>1. /\ pc[c] # "sending" /\ pc'[c] # "sending"
      /\ \A d \in Conns \ {c} : pc'[d] = pc[d] /\ at'[d] = at[d]
  BY DEF IInv, TypeOK, Attach, OpenBySend, AttachFails, SendRefused
<1>2. Cleared' = Cleared
  BY <1>1, ClearedStays
<1>3. QED
  BY <1>2 DEF Abstract!vars, Attach, OpenBySend, AttachFails, SendRefused, keeper, room

\* The actor hears a prompt, or ends and hears none of those in the channel.
LEMMA ActorImplements ==
  ASSUME Dequeue \/ KeeperEnds \/ UNCHANGED vars
  PROVE  Abstract!Hear \/ UNCHANGED Abstract!vars
<1>1. /\ enforced' = enforced /\ members' = members /\ driver' = driver /\ asleep' = asleep
      /\ Cleared' = Cleared
  BY DEF Dequeue, KeeperEnds, vars, keeper, room, Cleared
<1>2. queue' = queue \/ (queue # <<>> /\ queue' \in {Tail(queue), <<>>})
  BY DEF Dequeue, KeeperEnds, vars
<1>3. QED
  BY <1>1, <1>2 DEF Abstract!Hear, Abstract!vars

LEMMA StepImplements ==
  ASSUME IInv, SleptIsAsleep, [Next]_vars
  PROVE  [Abstract!Next]_Abstract!vars
<1>1. CASE Dequeue \/ KeeperEnds \/ UNCHANGED vars
  BY <1>1, ActorImplements DEF Abstract!Next
<1>2. ASSUME NEW c \in Conns, JoinRoom(c) \/ Disconnect(c)
      PROVE  [Abstract!Next]_Abstract!vars
  BY <1>2, JoinImplements, DisconnectImplements DEF Abstract!Next
<1>3. ASSUME NEW c \in Conns, TakeControl(c) \/ ReleaseControl(c)
      PROVE  Abstract!Next
  BY <1>3, WheelImplements DEF Abstract!Next
<1>4. ASSUME NEW c \in Conns, NEW k \in Keepers, FallAsleep(k, c) PROVE Abstract!Next
  BY <1>4, WheelImplements DEF Abstract!Next
<1>5. ASSUME NEW c \in Conns, SendCheck(c) \/ Enqueue(c) \/ SendLost(c)
      PROVE  Abstract!Next
  BY <1>5, SendCheckImplements, SendEndsImplements DEF Abstract!Next
<1>6. ASSUME NEW c \in Conns,
             Attach(c) \/ OpenBySend(c) \/ AttachFails(c) \/ SendRefused(c)
      PROVE  UNCHANGED Abstract!vars
  BY <1>6, HandlerStutters
<1>7. QED
  BY <1>1, <1>2, <1>3, <1>4, <1>5, <1>6 DEF Next

\* The rooms of a session implement what RoomSpec promises about the wheel: each step
\* of a socket's handler, of a keeper and of the time that passes is one of its steps
\* or none, although the handlers wait between their steps and keepers end under them.
THEOREM RoomImplementsSpec == Spec => ImplementsRoomSpec
<1>1. QED
  BY InitImplements, StepImplements, InvariantHolds, SleptHolds, PTL
     DEF Spec, ImplementsRoomSpec, Abstract!Spec
=============================================================================
