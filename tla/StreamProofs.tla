---------------------------- MODULE StreamProofs ----------------------------
(***************************************************************************)
(* Proofs about the event stream: type correctness, exactly-once delivery, *)
(* nothing lost between replay and live stream, and that Stream implements *)
(* StreamSpec, for any number of viewers, any scrollback limit, any ring   *)
(* capacity and any number of lines.                                       *)
(***************************************************************************)
EXTENDS Stream, TLAPS

\* The number of the last line that is on the channel.
Sent == IF actor = "pushed" THEN emitted - 1 ELSE emitted

\* The last line of those v was sent or holds in its snapshot.
Upto(v) ==
  IF replay[v] # <<>> THEN LastOf(replay[v])
  ELSE IF seen[v] # <<>> THEN LastOf(seen[v]) ELSE 0

\* The two holders of the scrollback mutex exclude each other.
MutexInv == actor = "pushed" => emitted > 0 /\ \A v \in Viewers : pc[v] # "subscribing"

\* The scrollback is the newest lines, as many as the limit allows.
ScrollInv ==
  /\ Len(scrollback) = (IF emitted > ScrollbackMax THEN ScrollbackMax ELSE emitted)
  /\ \A i \in 1..Len(scrollback) : scrollback[i] = emitted - Len(scrollback) + i

\* The channel carries every line up to Sent, in order.
ChanInv ==
  /\ \A p \in 1..Len(chan) : chan[p] <= Sent
  /\ \A p, q \in 1..Len(chan) : p < q /\ chan[q] # Roster => chan[p] < chan[q]
  /\ \A line \in 1..Sent : \E p \in 1..Len(chan) : chan[p] = line

\* Lines are numbered from 1 and consecutive in a snapshot.
Consecutive(s) ==
  /\ \A i \in 1..Len(s) : s[i] >= 1
  /\ \A i \in 1..Len(s) - 1 : s[i + 1] = s[i] + 1

\* What is below the receiver's position was seen or is in the snapshot,
\* what is at or above it was not.
CutInv(v) ==
  /\ next[v] <= Len(chan) + 1
  /\ pc[v] = "subscribing" =>
       \A p \in 1..Len(chan) : p >= next[v] => chan[p] = Roster
  /\ Watching(v) =>
       /\ Upto(v) \in 0..Sent
       /\ \A p \in 1..Len(chan) : p >= next[v] /\ chan[p] # Roster => chan[p] > Upto(v)
       /\ v \notin lagged => \A p \in 1..Len(chan) : p < next[v] => chan[p] <= Upto(v)

ViewerInv(v) ==
  /\ ~Watching(v) => replay[v] = <<>> /\ seen[v] = <<>>
  /\ pc[v] = "live" => replay[v] = <<>>
  /\ v \in lagged => pc[v] = "live"
  /\ Consecutive(replay[v])
  /\ \A i \in 1..Len(seen[v]) : seen[v][i] >= 1
  /\ replay[v] # <<>> /\ seen[v] # <<>> => Head(replay[v]) = LastOf(seen[v]) + 1

IInv ==
  /\ TypeOK
  /\ MutexInv
  /\ ScrollInv
  /\ ChanInv
  /\ \A v \in Viewers : CutInv(v) /\ ViewerInv(v)
  /\ ExactlyOnce

-----------------------------------------------------------------------------
\* Trimming keeps the type and, once a single line was pushed, the newest
\* ScrollbackMax entries.
LEMMA TrimType ==
  ASSUME NEW sb \in Seq(Nat)
  PROVE  Trim(sb) \in Seq(Nat)
BY StreamAssumption DEF Trim

\* Each variable keeps its type.
THEOREM TypeCorrect == Spec => []TypeOK
<1>1. Init => TypeOK
  BY DEF Init, TypeOK
<1>2. ASSUME TypeOK, [Next]_vars
      PROVE  TypeOK'
  <2>. USE <1>2 DEF TypeOK
  <2>1. CASE EmitPush
    <3>1. Append(scrollback, emitted + 1) \in Seq(Nat)
      OBVIOUS
    <3>2. scrollback' \in Seq(Nat)
      BY <2>1, <3>1, TrimType DEF EmitPush
    <3>3. QED
      BY <2>1, <3>2 DEF EmitPush
  <2>2. CASE EmitSend
    BY <2>2 DEF EmitSend
  <2>3. CASE BroadcastEphemeral
    BY <2>3 DEF BroadcastEphemeral, Roster
  <2>4. ASSUME NEW v \in Viewers, Subscribe(v) PROVE TypeOK'
    BY <2>4 DEF Subscribe
  <2>5. ASSUME NEW v \in Viewers, Snapshot(v) PROVE TypeOK'
    BY <2>5 DEF Snapshot
  <2>6. ASSUME NEW v \in Viewers, Replay(v) PROVE TypeOK'
    BY <2>6 DEF Replay
  <2>7. ASSUME NEW v \in Viewers, ReplayEnd(v) PROVE TypeOK'
    BY <2>7 DEF ReplayEnd
  <2>8. ASSUME NEW v \in Viewers, Receive(v) PROVE TypeOK'
    <3>1. chan[next[v]] \in Nat
      BY <2>8, StreamAssumption DEF Receive, OldestKept
    <3>2. QED
      BY <2>8, <3>1 DEF Receive
  <2>9. ASSUME NEW v \in Viewers, SkipLagged(v) PROVE TypeOK'
    BY <2>9, StreamAssumption DEF SkipLagged, OldestKept
  <2>10. ASSUME NEW v \in Viewers, Disconnect(v) PROVE TypeOK'
    BY <2>10 DEF Disconnect
  <2>11. CASE UNCHANGED vars
    BY <2>11 DEF vars
  <2>12. QED
    BY <1>2, <2>1, <2>2, <2>3, <2>4, <2>5, <2>6, <2>7, <2>8, <2>9, <2>10, <2>11 DEF Next
<1>3. QED
  BY <1>1, <1>2, PTL DEF Spec

-----------------------------------------------------------------------------
(* The inductive invariant, one lemma per action that can disturb it.      *)

\* What the proofs below need of the type invariant.
Typing ==
  /\ emitted \in Nat
  /\ actor \in {"idle", "pushed"}
  /\ Len(scrollback) \in Nat /\ \A i \in 1..Len(scrollback) : scrollback[i] \in Nat
  /\ Len(chan) \in Nat /\ \A p \in 1..Len(chan) : chan[p] \in Nat
  /\ \A v \in Viewers :
       /\ next[v] \in Nat \ {0}
       /\ Len(replay[v]) \in Nat /\ \A i \in 1..Len(replay[v]) : replay[v][i] \in Nat
       /\ Len(seen[v]) \in Nat /\ \A i \in 1..Len(seen[v]) : seen[v][i] \in Nat

LEMMA TypingHolds == TypeOK => Typing
<1>. SUFFICES ASSUME TypeOK PROVE Typing
  OBVIOUS
<1>1. ASSUME NEW s \in Seq(Nat)
      PROVE  Len(s) \in Nat /\ \A i \in 1..Len(s) : s[i] \in Nat
  OBVIOUS
<1>2. scrollback \in Seq(Nat) /\ chan \in Seq(Nat)
  BY DEF TypeOK
<1>3. ASSUME NEW v \in Viewers
      PROVE  replay[v] \in Seq(Nat) /\ seen[v] \in Seq(Nat) /\ next[v] \in Nat \ {0}
  BY DEF TypeOK
<1>4. emitted \in Nat /\ actor \in {"idle", "pushed"}
  BY DEF TypeOK
<1>5. QED
  BY <1>1, <1>2, <1>3, <1>4 DEF Typing

\* Emitting a line leaves the scrollback the newest lines.
LEMMA PushKeepsIInv ==
  ASSUME IInv, TypeOK', EmitPush
  PROVE  IInv'
<1>1. MutexInv'
  BY DEF IInv, TypeOK, EmitPush, MutexInv, MutexFree
<1>. DEFINE n == Len(scrollback)
            sb == Append(scrollback, emitted + 1)
<1>2. ScrollInv'
  <2>1. /\ n \in Nat /\ emitted \in Nat
        /\ n = (IF emitted > ScrollbackMax THEN ScrollbackMax ELSE emitted)
        /\ \A i \in 1..n : scrollback[i] = emitted - n + i
    BY DEF IInv, TypeOK, ScrollInv
  <2>2. /\ sb \in Seq(Nat) /\ Len(sb) = n + 1 /\ sb[n + 1] = emitted + 1
        /\ \A i \in 1..n : sb[i] = scrollback[i]
    BY DEF IInv, TypeOK
  <2>3. \A i \in 1..n + 1 : sb[i] = emitted - n + i
    BY <2>1, <2>2
  <2>4. emitted' = emitted + 1 /\ scrollback' = Trim(sb)
    BY DEF EmitPush
  <2>. HIDE DEF sb, n
  <2>5. CASE n + 1 > ScrollbackMax
    <3>1. n = ScrollbackMax
      BY <2>1, <2>5, StreamAssumption
    <3>2. scrollback' = SubSeq(sb, 2, n + 1)
      <4>1. Len(sb) > ScrollbackMax /\ Len(sb) - ScrollbackMax + 1 = 2
        BY <2>1, <2>2, <2>5, <3>1
      <4>2. QED
        BY <2>2, <2>4, <4>1 DEF Trim
    <3>3. /\ Len(scrollback') = n
          /\ \A i \in 1..n : scrollback'[i] = sb[i + 1]
      BY <2>1, <2>2, <3>2
    <3>4. \A i \in 1..n : sb[i + 1] = emitted - n + (i + 1)
      BY <2>1, <2>3
    <3>5. \A i \in 1..n : scrollback'[i] = emitted' - n + i
      BY <2>1, <2>4, <3>3, <3>4
    <3>6. emitted' > ScrollbackMax
      BY <2>1, <2>4, <3>1, StreamAssumption
    <3>7. QED
      BY <3>1, <3>3, <3>5, <3>6 DEF ScrollInv
  <2>6. CASE ~(n + 1 > ScrollbackMax)
    <3>1. scrollback' = sb
      BY <2>2, <2>4, <2>6 DEF Trim
    <3>2. n = emitted
      BY <2>1, <2>6, StreamAssumption
    <3>3. Len(scrollback') = emitted' /\ ~(emitted' > ScrollbackMax)
      BY <2>1, <2>2, <2>4, <2>6, <3>1, <3>2, StreamAssumption
    <3>4. \A i \in 1..n + 1 : scrollback'[i] = emitted' - (n + 1) + i
      BY <2>1, <2>3, <2>4, <3>1
    <3>5. QED
      BY <2>2, <3>1, <3>3, <3>4 DEF ScrollInv
  <2>7. QED
    BY <2>5, <2>6
<1>3. Sent' = Sent /\ chan' = chan
  BY DEF IInv, TypeOK, EmitPush, MutexFree, Sent
<1>4. ChanInv'
  BY <1>3 DEF IInv, ChanInv
<1>5. ASSUME NEW v \in Viewers
      PROVE  CutInv(v)' /\ ViewerInv(v)'
  BY <1>3 DEF IInv, EmitPush, CutInv, ViewerInv, Watching, Upto, LastOf, Consecutive
<1>6. ExactlyOnce'
  BY DEF IInv, EmitPush, ExactlyOnce, SeenInOrder
<1>7. QED
  BY <1>1, <1>2, <1>4, <1>5, <1>6 DEF IInv

\* Sending the pushed line extends the channel by the next number.
LEMMA SendKeepsIInv ==
  ASSUME IInv, TypeOK', EmitSend
  PROVE  IInv'
<1>0. Typing
  BY TypingHolds DEF IInv
<1>1. MutexInv'
  BY DEF EmitSend, MutexInv
<1>2. ScrollInv'
  BY DEF IInv, EmitSend, ScrollInv
<1>3. /\ Sent' = emitted /\ Sent = emitted - 1 /\ emitted > 0
      /\ Len(chan') = Len(chan) + 1 /\ chan'[Len(chan) + 1] = emitted
      /\ \A p \in 1..Len(chan) : chan'[p] = chan[p]
  BY DEF IInv, TypeOK, EmitSend, Sent, MutexInv
<1>4. ChanInv'
  <2>. DEFINE top == Len(chan) + 1
  <2>0. ChanInv
    BY DEF IInv
  <2>1. ASSUME NEW p \in 1..top
        PROVE  chan'[p] <= Sent'
    <3>1. CASE p = top
      BY <1>0, <1>3, <3>1 DEF Typing
    <3>2. CASE p # top
      <4>1. p \in 1..Len(chan)
        BY <1>0, <3>2 DEF Typing
      <4>2. chan[p] <= Sent /\ chan[p] \in Nat
        BY <1>0, <2>0, <4>1 DEF ChanInv, Typing
      <4>3. QED
        BY <1>0, <1>3, <4>1, <4>2 DEF Typing
    <3>3. QED
      BY <3>1, <3>2
  <2>2. ASSUME NEW p \in 1..top, NEW q \in 1..top, p < q, chan'[q] # Roster
        PROVE  chan'[p] < chan'[q]
    <3>1. p \in 1..Len(chan) /\ chan[p] \in Nat /\ chan[p] <= Sent
      BY <1>0, <2>0, <2>2 DEF ChanInv, Typing
    <3>2. CASE q = top
      BY <1>0, <1>3, <3>1, <3>2 DEF Typing
    <3>3. CASE q # top
      <4>1. q \in 1..Len(chan)
        BY <1>0, <3>3 DEF Typing
      <4>2. QED
        BY <1>3, <2>0, <2>2, <3>1, <4>1 DEF ChanInv
    <3>4. QED
      BY <3>2, <3>3
  <2>3. ASSUME NEW line \in 1..emitted
        PROVE  \E p \in 1..top : chan'[p] = line
    <3>1. CASE line = emitted
      BY <1>0, <1>3, <3>1 DEF Typing
    <3>2. CASE line # emitted
      <4>1. line \in 1..Sent
        BY <1>0, <1>3, <3>2 DEF Typing
      <4>2. PICK p \in 1..Len(chan) : chan[p] = line
        BY <2>0, <4>1 DEF ChanInv
      <4>3. QED
        BY <1>0, <1>3, <4>2 DEF Typing
    <3>3. QED
      BY <3>1, <3>2
  <2>4. QED
    BY <1>3, <2>1, <2>2, <2>3 DEF ChanInv
<1>5. ASSUME NEW v \in Viewers
      PROVE  CutInv(v)' /\ ViewerInv(v)'
  <2>1. pc' = pc /\ next' = next /\ replay' = replay /\ seen' = seen /\ lagged' = lagged
    BY DEF EmitSend
  <2>2. ViewerInv(v)'
    BY <2>1 DEF IInv, ViewerInv, Watching, Consecutive, LastOf
  <2>3. Upto(v)' = Upto(v)
    BY <2>1 DEF Upto, LastOf
  <2>4. pc[v] # "subscribing"
    BY DEF IInv, EmitSend, MutexInv
  <2>5. CutInv(v) /\ Typing
    BY <1>0 DEF IInv
  <2>6. next[v] \in Nat /\ Len(chan) \in Nat /\ next[v] <= Len(chan) + 1
    BY <2>5 DEF CutInv, Typing
  <2>7. ASSUME Watching(v)
        PROVE  /\ Upto(v) \in 0..Sent'
               /\ \A p \in 1..Len(chan') :
                    p >= next[v] /\ chan'[p] # Roster => chan'[p] > Upto(v)
               /\ v \notin lagged => \A p \in 1..Len(chan') : p < next[v] => chan'[p] <= Upto(v)
    <3>1. /\ Upto(v) \in 0..Sent /\ Upto(v) \in Nat
          /\ \A p \in 1..Len(chan) : p >= next[v] /\ chan[p] # Roster => chan[p] > Upto(v)
          /\ v \notin lagged => \A p \in 1..Len(chan) : p < next[v] => chan[p] <= Upto(v)
      BY <2>5, <2>7 DEF CutInv
    <3>2. Upto(v) \in 0..Sent'
      BY <1>0, <1>3, <3>1 DEF Typing
    <3>3. ASSUME NEW p \in 1..Len(chan'), p >= next[v], chan'[p] # Roster
          PROVE  chan'[p] > Upto(v)
      <4>1. CASE p = Len(chan) + 1
        BY <1>0, <1>3, <3>1, <4>1 DEF Typing
      <4>2. CASE p # Len(chan) + 1
        <5>1. p \in 1..Len(chan)
          BY <1>0, <1>3, <4>2 DEF Typing
        <5>2. QED
          BY <1>3, <3>1, <3>3, <5>1
      <4>3. QED
        BY <4>1, <4>2
    <3>4. ASSUME v \notin lagged, NEW p \in 1..Len(chan'), p < next[v]
          PROVE  chan'[p] <= Upto(v)
      <4>1. p \in 1..Len(chan)
        BY <1>0, <1>3, <2>6, <3>4 DEF Typing
      <4>2. QED
        BY <1>3, <3>1, <3>4, <4>1
    <3>5. QED
      BY <3>2, <3>3, <3>4
  <2>8. QED
    BY <1>3, <2>1, <2>2, <2>3, <2>4, <2>6, <2>7 DEF CutInv, Watching, Typing
<1>6. ExactlyOnce'
  BY DEF IInv, EmitSend, ExactlyOnce, SeenInOrder
<1>7. QED
  BY <1>1, <1>2, <1>4, <1>5, <1>6 DEF IInv

\* A roster on the channel is not a line and disturbs nothing about lines.
LEMMA EphemeralKeepsIInv ==
  ASSUME IInv, TypeOK', BroadcastEphemeral
  PROVE  IInv'
<1>0. Typing
  BY TypingHolds DEF IInv
<1>1. MutexInv'
  BY DEF IInv, BroadcastEphemeral, MutexInv
<1>2. ScrollInv'
  BY DEF IInv, BroadcastEphemeral, ScrollInv
<1>3. /\ Sent' = Sent /\ Sent \in Nat
      /\ Len(chan') = Len(chan) + 1 /\ chan'[Len(chan) + 1] = Roster
      /\ \A p \in 1..Len(chan) : chan'[p] = chan[p]
  BY DEF IInv, TypeOK, BroadcastEphemeral, Sent, MutexInv, Roster
<1>4. ChanInv'
  <2>. DEFINE top == Len(chan) + 1
  <2>0. ChanInv
    BY DEF IInv
  <2>1. ASSUME NEW p \in 1..top
        PROVE  chan'[p] <= Sent'
    <3>1. CASE p = top
      BY <1>0, <1>3, <3>1 DEF Typing, Roster
    <3>2. CASE p # top
      BY <1>0, <1>3, <2>0, <3>2 DEF Typing, ChanInv
    <3>3. QED
      BY <3>1, <3>2
  <2>2. ASSUME NEW p \in 1..top, NEW q \in 1..top, p < q, chan'[q] # Roster
        PROVE  chan'[p] < chan'[q]
    <3>1. q # top
      BY <1>3, <2>2
    <3>2. p \in 1..Len(chan) /\ q \in 1..Len(chan)
      BY <1>0, <2>2, <3>1 DEF Typing
    <3>3. QED
      BY <1>3, <2>0, <2>2, <3>2 DEF ChanInv
  <2>3. ASSUME NEW line \in 1..Sent
        PROVE  \E p \in 1..top : chan'[p] = line
    <3>1. PICK p \in 1..Len(chan) : chan[p] = line
      BY <2>0 DEF ChanInv
    <3>2. QED
      BY <1>0, <1>3, <3>1 DEF Typing
  <2>4. QED
    BY <1>3, <2>1, <2>2, <2>3 DEF ChanInv
<1>5. ASSUME NEW v \in Viewers
      PROVE  CutInv(v)' /\ ViewerInv(v)'
  <2>1. pc' = pc /\ next' = next /\ replay' = replay /\ seen' = seen /\ lagged' = lagged
    BY DEF BroadcastEphemeral
  <2>2. ViewerInv(v)'
    BY <2>1 DEF IInv, ViewerInv, Watching, Consecutive, LastOf
  <2>3. Upto(v)' = Upto(v)
    BY <2>1 DEF Upto, LastOf
  <2>4. /\ CutInv(v) /\ next[v] \in Nat /\ next[v] <= Len(chan) + 1
    BY <1>0 DEF IInv, CutInv, Typing
  <2>5. ASSUME NEW p \in 1..Len(chan'), chan'[p] # Roster
        PROVE  p \in 1..Len(chan)
    BY <1>0, <1>3, <2>5 DEF Typing
  <2>6. ASSUME NEW p \in 1..Len(chan'), p < next[v]
        PROVE  p \in 1..Len(chan)
    BY <1>0, <1>3, <2>4, <2>6 DEF Typing
  <2>7. ASSUME pc[v] = "subscribing", NEW p \in 1..Len(chan'), p >= next[v]
        PROVE  chan'[p] = Roster
    BY <1>3, <2>4, <2>5, <2>7 DEF CutInv
  <2>8. ASSUME Watching(v)
        PROVE  /\ Upto(v) \in 0..Sent'
               /\ \A p \in 1..Len(chan') :
                    p >= next[v] /\ chan'[p] # Roster => chan'[p] > Upto(v)
               /\ v \notin lagged => \A p \in 1..Len(chan') : p < next[v] => chan'[p] <= Upto(v)
    BY <1>3, <2>4, <2>5, <2>6, <2>8 DEF CutInv
  <2>9. next[v] <= Len(chan') + 1
    BY <1>0, <1>3, <2>4 DEF Typing
  <2>10. QED
    BY <2>1, <2>2, <2>3, <2>7, <2>8, <2>9 DEF CutInv, Watching
<1>6. ExactlyOnce'
  BY DEF IInv, BroadcastEphemeral, ExactlyOnce, SeenInOrder
<1>7. QED
  BY <1>1, <1>2, <1>4, <1>5, <1>6 DEF IInv

\* A step of one viewer leaves the keeper and the other viewers as they were,
\* so only what the invariant says of that viewer has to be shown.
LEMMA ViewerFrame ==
  ASSUME IInv, TypeOK', NEW v \in Viewers,
         UNCHANGED <<emitted, scrollback, chan, actor>>,
         \A w \in Viewers \ {v} :
           /\ pc'[w] = pc[w] /\ next'[w] = next[w]
           /\ replay'[w] = replay[w] /\ seen'[w] = seen[w]
           /\ (w \in lagged') <=> (w \in lagged),
         MutexInv', CutInv(v)', ViewerInv(v)', SeenInOrder(v)'
  PROVE  IInv'
<1>1. Sent' = Sent
  BY DEF Sent
<1>2. ScrollInv' /\ ChanInv'
  BY <1>1 DEF IInv, ScrollInv, ChanInv
<1>3. ASSUME NEW w \in Viewers
      PROVE  CutInv(w)' /\ ViewerInv(w)' /\ SeenInOrder(w)'
  <2>1. CASE w # v
    <3>1. Upto(w)' = Upto(w) /\ Watching(w)' = Watching(w)
      BY <2>1 DEF Upto, LastOf, Watching
    <3>2. CutInv(w)'
      BY <1>1, <2>1, <3>1 DEF IInv, CutInv
    <3>3. ViewerInv(w)'
      BY <2>1, <3>1 DEF IInv, ViewerInv, Consecutive, LastOf
    <3>4. SeenInOrder(w)'
      BY <2>1 DEF IInv, ExactlyOnce, SeenInOrder
    <3>5. QED
      BY <3>2, <3>3, <3>4
  <2>2. QED
    BY <2>1
<1>4. QED
  BY <1>2, <1>3 DEF IInv, ExactlyOnce

\* Between locking and copying, no line can have passed the receiver.
LEMMA SubscribeKeepsIInv ==
  ASSUME IInv, TypeOK', NEW v \in Viewers, Subscribe(v)
  PROVE  IInv'
<1>0. Typing
  BY TypingHolds DEF IInv
<1>1. /\ pc[v] = "away" /\ actor = "idle" /\ pc'[v] = "subscribing"
      /\ next'[v] = Len(chan) + 1
      /\ chan' = chan /\ replay' = replay /\ seen' = seen /\ lagged' = lagged
  BY DEF IInv, TypeOK, Subscribe, MutexFree
<1>2. MutexInv'
  BY <1>1 DEF Subscribe, MutexInv
<1>3. CutInv(v)'
  BY <1>0, <1>1 DEF CutInv, Watching, Typing
<1>4. ViewerInv(v)' /\ SeenInOrder(v)'
  BY <1>1 DEF IInv, ViewerInv, Watching, Consecutive, ExactlyOnce, SeenInOrder, LastOf
<1>5. QED
  BY <1>2, <1>3, <1>4, ViewerFrame DEF IInv, TypeOK, Subscribe

\* The copy holds every line up to the newest, which is also the newest sent.
LEMMA SnapshotKeepsIInv ==
  ASSUME IInv, TypeOK', NEW v \in Viewers, Snapshot(v)
  PROVE  IInv'
<1>0. Typing
  BY TypingHolds DEF IInv
<1>1. /\ pc[v] = "subscribing" /\ pc'[v] = "replaying" /\ actor = "idle" /\ actor' = actor
      /\ emitted' = emitted /\ chan' = chan /\ replay'[v] = scrollback
      /\ seen' = seen /\ lagged' = lagged /\ next' = next
  BY DEF IInv, TypeOK, Snapshot, MutexInv
<1>2. seen[v] = <<>> /\ v \notin lagged
  BY <1>1 DEF IInv, ViewerInv, Watching
<1>3. MutexInv'
  BY <1>1 DEF MutexInv
<1>4. Sent' = emitted /\ Sent = emitted
  BY <1>1 DEF Sent
<1>5. /\ scrollback \in Seq(Nat) /\ ScrollInv /\ ScrollbackMax \in Nat \ {0}
      /\ emitted \in Nat /\ Len(scrollback) \in Nat
  BY StreamAssumption DEF IInv, TypeOK
<1>6. Upto(v)' = emitted
  <2>1. CASE emitted = 0
    <3>1. scrollback = <<>>
      BY <1>5, <2>1 DEF ScrollInv
    <3>2. QED
      BY <1>1, <1>2, <2>1, <3>1 DEF Upto
  <2>2. CASE emitted # 0
    <3>1. Len(scrollback) \in Nat \ {0}
      BY <1>5, <2>2 DEF ScrollInv
    <3>2. scrollback # <<>> /\ LastOf(scrollback) = emitted
      BY <1>5, <3>1 DEF ScrollInv, LastOf
    <3>3. QED
      BY <1>1, <3>2 DEF Upto, LastOf
  <2>3. QED
    BY <2>1, <2>2
<1>7. CutInv(v)'
  <2>1. next[v] <= Len(chan) + 1 /\ \A p \in 1..Len(chan) : p >= next[v] => chan[p] = Roster
    BY <1>1 DEF IInv, CutInv
  <2>2. \A p \in 1..Len(chan) : chan[p] <= emitted
    BY <1>4 DEF IInv, ChanInv
  <2>3. QED
    BY <1>1, <1>4, <1>5, <1>6, <2>1, <2>2 DEF CutInv
<1>8. ViewerInv(v)'
  <2>1. Consecutive(scrollback)
    <3>1. \A i \in 1..Len(scrollback) : emitted - Len(scrollback) + i >= 1
      BY <1>5 DEF ScrollInv
    <3>2. \A i \in 1..Len(scrollback) : scrollback[i] = emitted - Len(scrollback) + i
      BY <1>5 DEF ScrollInv
    <3>3. \A i \in 1..Len(scrollback) - 1 : scrollback[i + 1] = scrollback[i] + 1
      BY <1>5, <3>2
    <3>4. QED
      BY <3>1, <3>2, <3>3 DEF Consecutive
  <2>2. QED
    BY <1>1, <1>2, <2>1 DEF IInv, ViewerInv, Watching, Consecutive
<1>9. SeenInOrder(v)'
  BY <1>1 DEF IInv, ExactlyOnce, SeenInOrder
<1>10. QED
  BY <1>3, <1>7, <1>8, <1>9, ViewerFrame DEF IInv, TypeOK, Snapshot

\* Replaying moves the first line of the snapshot behind what was seen.
LEMMA ReplayKeepsIInv ==
  ASSUME IInv, TypeOK', NEW v \in Viewers, Replay(v)
  PROVE  IInv'
<1>. DEFINE r == replay[v]
            s == seen[v]
<1>0. r \in Seq(Nat) /\ s \in Seq(Nat) /\ r # <<>>
  BY DEF IInv, TypeOK, Replay
<1>1. /\ pc[v] = "replaying" /\ pc' = pc /\ lagged' = lagged /\ next' = next
      /\ emitted' = emitted /\ actor' = actor /\ chan' = chan
      /\ seen'[v] = Append(s, Head(r)) /\ replay'[v] = Tail(r)
  BY DEF IInv, TypeOK, Replay
<1>2. v \notin lagged
  BY <1>1 DEF IInv, ViewerInv
<1>3. MutexInv'
  BY <1>1 DEF IInv, MutexInv
<1>4. /\ Consecutive(r) /\ \A i \in 1..Len(s) : s[i] >= 1
      /\ s # <<>> => Head(r) = LastOf(s) + 1
      /\ SeenInOrder(v)
  BY <1>0 DEF IInv, ViewerInv, ExactlyOnce
<1>5. /\ Len(r) \in Nat \ {0} /\ Head(r) = r[1] /\ Len(s) \in Nat
      /\ Len(Tail(r)) = Len(r) - 1 /\ \A i \in 1..Len(r) - 1 : Tail(r)[i] = r[i + 1]
      /\ Len(Append(s, r[1])) = Len(s) + 1 /\ Append(s, r[1])[Len(s) + 1] = r[1]
      /\ \A i \in 1..Len(s) : Append(s, r[1])[i] = s[i]
      /\ Append(s, r[1]) # <<>> /\ s = <<>> <=> Len(s) = 0
      /\ Tail(r) = <<>> <=> Len(r) = 1
  <2>1. ASSUME NEW a \in Seq(Nat), a # <<>>
        PROVE  /\ Len(a) \in Nat \ {0} /\ Head(a) = a[1] /\ a[1] \in Nat
               /\ Len(Tail(a)) = Len(a) - 1 /\ \A i \in 1..Len(a) - 1 : Tail(a)[i] = a[i + 1]
               /\ Tail(a) = <<>> <=> Len(a) = 1
    <3>1. Len(a) \in Nat \ {0} /\ Head(a) = a[1] /\ a[1] \in Nat
      BY <2>1
    <3>2. Tail(a) \in Seq(Nat) /\ Len(Tail(a)) = Len(a) - 1
      BY <2>1
    <3>3. \A i \in 1..Len(a) - 1 : Tail(a)[i] = a[i + 1]
      BY <2>1
    <3>4. Tail(a) = <<>> <=> Len(a) = 1
      <4>1. ASSUME NEW b \in Seq(Nat) PROVE b = <<>> <=> Len(b) = 0
        OBVIOUS
      <4>2. Tail(a) = <<>> <=> Len(Tail(a)) = 0
        BY <3>2, <4>1
      <4>3. QED
        BY <3>1, <3>2, <4>2
    <3>5. QED
      BY <3>1, <3>2, <3>3, <3>4
  <2>2. ASSUME NEW a \in Seq(Nat), NEW e \in Nat
        PROVE  /\ Len(a) \in Nat /\ Append(a, e) # <<>>
               /\ Len(Append(a, e)) = Len(a) + 1 /\ Append(a, e)[Len(a) + 1] = e
               /\ \A i \in 1..Len(a) : Append(a, e)[i] = a[i]
               /\ a = <<>> <=> Len(a) = 0
    OBVIOUS
  <2>3. QED
    BY <1>0, <2>1, <2>2
<1>. HIDE DEF r, s
<1>6. Upto(v)' = Upto(v)
  <2>1. Upto(v) = r[Len(r)]
    BY <1>0 DEF Upto, LastOf, r
  <2>2. CASE Len(r) = 1
    BY <1>1, <1>5, <2>1, <2>2 DEF Upto, LastOf
  <2>3. CASE Len(r) # 1
    BY <1>1, <1>5, <2>1, <2>3 DEF Upto, LastOf
  <2>4. QED
    BY <2>2, <2>3
<1>7. CutInv(v)'
  <2>1. Sent' = Sent
    BY <1>1 DEF Sent
  <2>2. QED
    BY <1>1, <1>6, <2>1 DEF IInv, CutInv, Watching
<1>8. ViewerInv(v)'
  <2>1. Consecutive(Tail(r))
    BY <1>4, <1>5 DEF Consecutive
  <2>2. \A i \in 1..Len(s) + 1 : Append(s, r[1])[i] >= 1
    BY <1>4, <1>5 DEF Consecutive
  <2>3. Len(r) # 1 => Head(Tail(r)) = r[1] + 1
    <3>1. ASSUME Len(r) # 1
          PROVE  Head(Tail(r)) = r[2] /\ r[2] = r[1] + 1
      BY <1>4, <1>5, <3>1 DEF Consecutive
    <3>2. QED
      BY <3>1
  <2>4. QED
    BY <1>1, <1>2, <1>5, <2>1, <2>2, <2>3 DEF ViewerInv, Watching, LastOf, Consecutive
<1>9. SeenInOrder(v)'
  <2>1. ASSUME NEW i \in 1..Len(s)
        PROVE  Append(s, r[1])[i + 1] = Append(s, r[1])[i] + 1
    <3>1. CASE i = Len(s)
      BY <1>4, <1>5, <3>1 DEF LastOf
    <3>2. CASE i # Len(s)
      BY <1>2, <1>4, <1>5, <3>2 DEF SeenInOrder, s
    <3>3. QED
      BY <3>1, <3>2
  <2>2. \A i \in 1..Len(s) : Append(s, r[1])[i] \in Nat
    <3>1. \A i \in 1..Len(s) : s[i] \in Nat
      BY <1>0
    <3>2. QED
      BY <1>5, <3>1
  <2>3. QED
    BY <1>1, <1>5, <2>1, <2>2 DEF SeenInOrder
<1>10. QED
  BY <1>3, <1>7, <1>8, <1>9, ViewerFrame DEF IInv, TypeOK, Replay

\* Handing over the receiver changes nothing that was sent.
LEMMA ReplayEndKeepsIInv ==
  ASSUME IInv, TypeOK', NEW v \in Viewers, ReplayEnd(v)
  PROVE  IInv'
<1>1. /\ pc[v] = "replaying" /\ pc'[v] = "live" /\ replay[v] = <<>>
      /\ next' = next /\ replay' = replay /\ seen' = seen /\ lagged' = lagged
      /\ emitted' = emitted /\ actor' = actor /\ chan' = chan
  BY DEF IInv, TypeOK, ReplayEnd
<1>2. MutexInv'
  BY <1>1 DEF IInv, TypeOK, ReplayEnd, MutexInv
<1>3. Sent' = Sent /\ Upto(v)' = Upto(v)
  BY <1>1 DEF Sent, Upto, LastOf
<1>4. CutInv(v)'
  BY <1>1, <1>3 DEF IInv, CutInv, Watching
<1>5. ViewerInv(v)' /\ SeenInOrder(v)'
  BY <1>1 DEF IInv, ViewerInv, Watching, Consecutive, ExactlyOnce, SeenInOrder, LastOf
<1>6. QED
  BY <1>2, <1>4, <1>5, ViewerFrame DEF IInv, TypeOK, ReplayEnd

\* The entry a receiver reads is above all that was seen; unless the receiver
\* lagged it is the very next line, for that line is on the channel and can
\* be neither below nor beyond the receiver's position.
LEMMA ReceivedLineIsNext ==
  ASSUME IInv, NEW v \in Viewers, Receive(v), chan[next[v]] # Roster
  PROVE  /\ chan[next[v]] \in 1..Sent
         /\ chan[next[v]] > Upto(v)
         /\ v \notin lagged => chan[next[v]] = Upto(v) + 1
<1>0. Typing
  BY TypingHolds DEF IInv
<1>. DEFINE p == next[v]
            x == chan[p]
<1>1. p \in 1..Len(chan) /\ Watching(v) /\ CutInv(v) /\ ChanInv
  BY <1>0, StreamAssumption DEF IInv, Receive, OldestKept, Watching, Typing
<1>2. x \in 1..Sent /\ x > Upto(v) /\ Upto(v) \in Nat /\ Sent \in Nat
  <2>1. Sent \in Nat
    BY <1>0 DEF IInv, MutexInv, Typing, Sent
  <2>2. x \in Nat /\ x # 0
    BY <1>0, <1>1 DEF Typing, Roster
  <2>3. x <= Sent
    BY <1>1 DEF ChanInv
  <2>4. p >= p
    BY <1>0 DEF Typing
  <2>5. x > Upto(v) /\ Upto(v) \in 0..Sent
    BY <1>1, <2>4 DEF CutInv
  <2>6. QED
    BY <2>1, <2>2, <2>3, <2>5
<1>3. ASSUME v \notin lagged, x # Upto(v) + 1
      PROVE  FALSE
  <2>1. Upto(v) + 1 \in 1..Sent /\ Upto(v) + 1 < x
    BY <1>2, <1>3
  <2>2. PICK q \in 1..Len(chan) : chan[q] = Upto(v) + 1
    BY <1>1, <2>1 DEF ChanInv
  <2>3. q < p
    <3>1. ~(p < q)
      <4>1. chan[q] # Roster /\ ~(x < chan[q])
        BY <1>2, <2>1, <2>2 DEF Roster
      <4>2. QED
        BY <1>1, <4>1 DEF ChanInv
    <3>2. p # q
      BY <1>2, <2>1, <2>2
    <3>3. QED
      BY <1>0, <1>1, <3>1, <3>2 DEF Typing
  <2>4. chan[q] <= Upto(v)
    BY <1>1, <1>3, <2>3 DEF CutInv
  <2>5. QED
    BY <1>2, <2>2, <2>4
<1>4. QED
  BY <1>2, <1>3

\* Receiving extends what was seen by the next line, or by none for a roster.
LEMMA ReceiveKeepsIInv ==
  ASSUME IInv, TypeOK', NEW v \in Viewers, Receive(v)
  PROVE  IInv'
<1>0. Typing
  BY TypingHolds DEF IInv
<1>. DEFINE p == next[v]
            x == chan[p]
            s == seen[v]
<1>1. /\ pc[v] = "live" /\ pc' = pc /\ replay' = replay /\ lagged' = lagged
      /\ emitted' = emitted /\ actor' = actor /\ chan' = chan
      /\ next'[v] = p + 1 /\ p \in 1..Len(chan)
      /\ s \in Seq(Nat) /\ replay[v] = <<>>
  BY <1>0, StreamAssumption DEF IInv, TypeOK, Receive, OldestKept, Typing, ViewerInv
<1>2. MutexInv' /\ Sent' = Sent
  BY <1>1 DEF IInv, MutexInv, Sent
<1>3. /\ CutInv(v) /\ ChanInv /\ ViewerInv(v) /\ SeenInOrder(v) /\ Watching(v)
      /\ Len(chan) \in Nat /\ p \in Nat
      /\ \A i \in 1..Len(s) : s[i] \in Nat
  BY <1>0, <1>1 DEF IInv, ExactlyOnce, Watching, Typing
<1>4. CASE x = Roster
  <2>1. seen' = seen
    BY <1>4 DEF Receive
  <2>2. Upto(v)' = Upto(v)
    BY <1>1, <2>1 DEF Upto, LastOf
  <2>3. Upto(v) \in Nat
    BY <1>3 DEF CutInv
  <2>4. CutInv(v)'
    <3>1. \A q \in 1..Len(chan) : q >= p + 1 => q >= p
      BY <1>3
    <3>2. \A q \in 1..Len(chan) : q < p + 1 => q < p \/ q = p
      BY <1>3
    <3>3. x <= Upto(v)
      BY <1>4, <2>3 DEF Roster
    <3>4. p + 1 <= Len(chan) + 1
      BY <1>1, <1>3
    <3>5. QED
      BY <1>1, <1>2, <1>3, <2>2, <3>1, <3>2, <3>3, <3>4 DEF CutInv, Watching
  <2>5. ViewerInv(v)' /\ SeenInOrder(v)'
    BY <1>1, <1>3, <2>1 DEF ViewerInv, Watching, Consecutive, SeenInOrder, LastOf
  <2>6. QED
    BY <1>2, <2>4, <2>5, ViewerFrame DEF IInv, TypeOK, Receive
<1>5. CASE x # Roster
  <2>1. x \in 1..Sent /\ x > Upto(v) /\ (v \notin lagged => x = Upto(v) + 1)
    BY <1>5, ReceivedLineIsNext
  <2>2. x \in Nat \ {0} /\ Upto(v) \in Nat
    BY <1>0, <1>1, <1>3, <1>5 DEF CutInv, Typing, Roster
  <2>3. seen'[v] = Append(s, x)
    BY <1>5 DEF IInv, TypeOK, Receive
  <2>4. /\ Len(Append(s, x)) = Len(s) + 1 /\ Append(s, x)[Len(s) + 1] = x
        /\ \A i \in 1..Len(s) : Append(s, x)[i] = s[i]
        /\ Append(s, x) # <<>> /\ Len(s) \in Nat /\ s = <<>> <=> Len(s) = 0
    BY <1>1, <2>2
  <2>5. s # <<>> => Upto(v) = s[Len(s)]
    BY <1>1 DEF Upto, LastOf
  <2>. HIDE DEF s, x, p
  <2>6. Upto(v)' = x
    BY <1>1, <2>3, <2>4 DEF Upto, LastOf
  <2>7. CutInv(v)'
    <3>1. ASSUME NEW q \in 1..Len(chan), q >= p + 1, chan[q] # Roster
          PROVE  chan[q] > x
      <4>1. p < q
        BY <1>3, <3>1
      <4>2. chan[p] < chan[q] /\ chan[q] \in Nat
        BY <1>0, <1>1, <1>3, <3>1, <4>1 DEF ChanInv, Typing
      <4>3. QED
        BY <2>2, <4>2 DEF x
    <3>2. ASSUME v \notin lagged, NEW q \in 1..Len(chan), q < p + 1
          PROVE  chan[q] <= x
      <4>1. CASE q = p
        BY <2>2, <4>1 DEF x
      <4>2. CASE q # p
        <5>1. q < next[v] /\ chan[q] \in Nat
          BY <1>0, <1>3, <3>2, <4>2 DEF p, Typing
        <5>2. chan[q] <= Upto(v)
          BY <1>3, <3>2, <5>1 DEF CutInv
        <5>3. QED
          BY <2>1, <2>2, <5>1, <5>2
      <4>3. QED
        BY <4>1, <4>2
    <3>3. p + 1 <= Len(chan) + 1
      BY <1>1, <1>3
    <3>4. x \in 0..Sent
      BY <2>1
    <3>5. pc'[v] # "subscribing"
      BY <1>1
    <3>6. QED
      BY <1>1, <1>2, <2>6, <3>1, <3>2, <3>3, <3>4, <3>5 DEF CutInv
  <2>8. ViewerInv(v)'
    <3>1. \A i \in 1..Len(s) + 1 : Append(s, x)[i] >= 1
      BY <1>3, <2>2, <2>4 DEF ViewerInv, s
    <3>2. QED
      BY <1>1, <1>3, <2>3, <2>4, <3>1 DEF ViewerInv, Watching, Consecutive
  <2>9. SeenInOrder(v)'
    <3>1. ASSUME NEW i \in 1..Len(s)
          PROVE  /\ Append(s, x)[i] < Append(s, x)[i + 1]
                 /\ v \notin lagged => Append(s, x)[i + 1] = Append(s, x)[i] + 1
      <4>1. CASE i = Len(s)
        BY <2>1, <2>2, <2>4, <2>5, <4>1
      <4>2. CASE i # Len(s)
        <5>1. i \in 1..Len(s) - 1 /\ i + 1 \in 1..Len(s)
          BY <2>4, <4>2
        <5>2. s[i] < s[i + 1] /\ (v \notin lagged => s[i + 1] = s[i] + 1)
          BY <1>3, <5>1 DEF SeenInOrder, s
        <5>3. QED
          BY <2>4, <5>1, <5>2
      <4>3. QED
        BY <4>1, <4>2
    <3>2. Len(seen'[v]) - 1 = Len(s)
      BY <2>3, <2>4
    <3>3. QED
      BY <1>1, <2>3, <3>1, <3>2 DEF SeenInOrder
  <2>10. QED
    BY <1>2, <2>7, <2>8, <2>9, ViewerFrame DEF IInv, TypeOK, Receive
<1>6. QED
  BY <1>4, <1>5

\* A receiver that lagged jumps over entries; none of them was seen.
LEMMA SkipKeepsIInv ==
  ASSUME IInv, TypeOK', NEW v \in Viewers, SkipLagged(v)
  PROVE  IInv'
<1>0. Typing
  BY TypingHolds DEF IInv
<1>1. /\ pc[v] = "live" /\ pc' = pc /\ replay' = replay /\ seen' = seen
      /\ emitted' = emitted /\ actor' = actor /\ chan' = chan
      /\ lagged' = lagged \cup {v}
      /\ next'[v] = OldestKept /\ next[v] < OldestKept
      /\ OldestKept \in Nat /\ OldestKept <= Len(chan) + 1 /\ next[v] \in Nat
  BY <1>0, StreamAssumption DEF IInv, TypeOK, SkipLagged, OldestKept, Typing
<1>2. MutexInv' /\ Sent' = Sent /\ Upto(v)' = Upto(v)
  BY <1>1 DEF IInv, MutexInv, Sent, Upto, LastOf
<1>3. CutInv(v)'
  <2>1. \A q \in 1..Len(chan) : q >= OldestKept => q >= next[v]
    BY <1>1
  <2>2. CutInv(v)
    BY DEF IInv
  <2>3. QED
    BY <1>1, <1>2, <2>1, <2>2 DEF CutInv, Watching
<1>4. ViewerInv(v)' /\ SeenInOrder(v)'
  BY <1>1 DEF IInv, ViewerInv, Watching, Consecutive, ExactlyOnce, SeenInOrder, LastOf
<1>5. QED
  BY <1>1, <1>2, <1>3, <1>4, ViewerFrame DEF IInv, TypeOK, SkipLagged

\* A viewer that is gone has seen nothing.
LEMMA DisconnectKeepsIInv ==
  ASSUME IInv, TypeOK', NEW v \in Viewers, Disconnect(v)
  PROVE  IInv'
<1>0. Typing
  BY TypingHolds DEF IInv
<1>1. /\ pc'[v] = "away" /\ replay'[v] = <<>> /\ seen'[v] = <<>> /\ v \notin lagged'
      /\ next'[v] = 1 /\ chan' = chan
  BY DEF IInv, TypeOK, Disconnect
<1>2. MutexInv'
  BY DEF IInv, TypeOK, Disconnect, MutexInv
<1>3. CutInv(v)'
  BY <1>0, <1>1 DEF CutInv, Watching, Typing
<1>4. ViewerInv(v)' /\ SeenInOrder(v)'
  BY <1>1 DEF ViewerInv, Watching, Consecutive, SeenInOrder
<1>5. QED
  BY <1>2, <1>3, <1>4, ViewerFrame DEF IInv, TypeOK, Disconnect

LEMMA InitIInv == Init => IInv
<1>. SUFFICES ASSUME Init PROVE IInv
  OBVIOUS
<1>1. TypeOK
  BY DEF Init, TypeOK
<1>2. MutexInv /\ ScrollInv /\ ChanInv
  BY StreamAssumption DEF Init, MutexInv, ScrollInv, ChanInv, Sent
<1>3. ASSUME NEW v \in Viewers
      PROVE  CutInv(v) /\ ViewerInv(v) /\ SeenInOrder(v)
  BY DEF Init, CutInv, ViewerInv, SeenInOrder, Watching, Consecutive
<1>4. QED
  BY <1>1, <1>2, <1>3 DEF IInv, ExactlyOnce

LEMMA NextIInv == IInv /\ TypeOK' /\ [Next]_vars => IInv'
<1>. SUFFICES ASSUME IInv, TypeOK', [Next]_vars PROVE IInv'
  OBVIOUS
<1>1. CASE UNCHANGED vars
  <2>1. /\ emitted' = emitted /\ scrollback' = scrollback /\ chan' = chan /\ actor' = actor
        /\ pc' = pc /\ next' = next /\ replay' = replay /\ seen' = seen /\ lagged' = lagged
    BY <1>1 DEF vars
  <2>2. MutexInv' /\ ScrollInv' /\ ChanInv'
    BY <2>1 DEF IInv, MutexInv, ScrollInv, ChanInv, Sent
  <2>3. ASSUME NEW v \in Viewers
        PROVE  CutInv(v)' /\ ViewerInv(v)' /\ SeenInOrder(v)'
    <3>1. CutInv(v) /\ ViewerInv(v) /\ SeenInOrder(v)
      BY DEF IInv, ExactlyOnce
    <3>2. Upto(v)' = Upto(v) /\ Sent' = Sent /\ Watching(v)' = Watching(v)
      BY <2>1 DEF Upto, LastOf, Sent, Watching
    <3>3. CutInv(v)'
      BY <2>1, <3>1, <3>2 DEF CutInv
    <3>4. ViewerInv(v)' /\ SeenInOrder(v)'
      BY <2>1, <3>1, <3>2 DEF ViewerInv, SeenInOrder, Watching, Consecutive, LastOf
    <3>5. QED
      BY <3>3, <3>4
  <2>4. QED
    BY <2>2, <2>3 DEF IInv, ExactlyOnce
<1>2. QED
  BY <1>1, PushKeepsIInv, SendKeepsIInv, EphemeralKeepsIInv, SubscribeKeepsIInv,
     SnapshotKeepsIInv, ReplayKeepsIInv, ReplayEndKeepsIInv, ReceiveKeepsIInv,
     SkipKeepsIInv, DisconnectKeepsIInv DEF Next

LEMMA InvariantHolds == Spec => []IInv
BY InitIInv, NextIInv, TypeCorrect, PTL DEF Spec

\* Every viewer is sent each line at most once, in order, and with no gap
\* unless its receiver lagged: emit and subscribe holding the same mutex is
\* enough, whatever rosters are broadcast in between.
THEOREM DeliveredExactlyOnce == Spec => []ExactlyOnce
<1>1. IInv => ExactlyOnce
  BY DEF IInv
<1>2. QED
  BY <1>1, InvariantHolds, PTL

\* A viewer that has drained its receiver has the newest line.
THEOREM NothingLostAtTheCut == Spec => []CaughtUpHasNewest
<1>1. IInv => CaughtUpHasNewest
  <2>1. SUFFICES ASSUME IInv, NEW v \in Viewers,
                        pc[v] = "live", next[v] = Len(chan) + 1, v \notin lagged,
                        actor = "idle", emitted > 0
                 PROVE  seen[v] # <<>> /\ LastOf(seen[v]) = emitted
    BY DEF CaughtUpHasNewest
  <2>2. Typing /\ CutInv(v) /\ ViewerInv(v) /\ ChanInv /\ Watching(v) /\ Sent = emitted
    BY <2>1, TypingHolds DEF IInv, Watching, Sent
  <2>3. PICK p \in 1..Len(chan) : chan[p] = emitted
    BY <2>1, <2>2 DEF ChanInv, Typing
  <2>4. emitted <= Upto(v) /\ Upto(v) \in 0..emitted
    BY <2>1, <2>2, <2>3 DEF CutInv, Typing
  <2>5. Upto(v) = emitted
    BY <2>2, <2>4 DEF Typing
  <2>6. QED
    BY <2>1, <2>2, <2>5 DEF Upto, ViewerInv, Typing
<1>2. QED
  BY <1>1, InvariantHolds, PTL

-----------------------------------------------------------------------------
(* Stream implements StreamSpec: under the inductive invariant every step  *)
(* of the mutex, the ring and the sockets is one step of the abstract log  *)
(* and its cursors, or changes nothing there.                              *)

Present == {v \in Viewers : Watching(v)}
Cursor == [v \in Viewers |-> CursorOf(v)]

\* A step of one viewer moves that viewer's cursor and presence only.
LEMMA OneViewer ==
  ASSUME NEW v \in Viewers,
         \A w \in Viewers \ {v} :
           pc'[w] = pc[w] /\ replay'[w] = replay[w] /\ seen'[w] = seen[w]
  PROVE  /\ Cursor' = [Cursor EXCEPT ![v] = CursorOf(v)']
         /\ Watching(v)' => Present' = Present \cup {v}
         /\ ~Watching(v)' => Present' = Present \ {v}
         /\ Watching(v)' = Watching(v) => Present' = Present
<1>1. ASSUME NEW w \in Viewers \ {v}
      PROVE  CursorOf(w)' = CursorOf(w) /\ Watching(w)' = Watching(w)
  BY DEF CursorOf, Watching, LastOf
<1>2. Cursor' = [Cursor EXCEPT ![v] = CursorOf(v)']
  BY <1>1 DEF Cursor
<1>3. QED
  BY <1>1, <1>2 DEF Present

\* A snapshot holds no line that was not emitted.
ReplayEmitted ==
  \A v \in Viewers : \A i \in 1..Len(replay[v]) : replay[v][i] <= emitted

\* The first and the second entry of a sequence.
LEMMA HeadAndTail ==
  ASSUME NEW a \in Seq(Nat), a # <<>>
  PROVE  /\ Len(a) \in Nat \ {0} /\ Head(a) = a[1] /\ a[1] \in Nat
         /\ Len(Tail(a)) = Len(a) - 1
         /\ \A i \in 1..Len(a) - 1 : Tail(a)[i] = a[i + 1]
         /\ Tail(a) # <<>> => Len(a) > 1 /\ Head(Tail(a)) = a[2] /\ a[2] \in Nat
<1>1. Len(a) \in Nat \ {0} /\ Head(a) = a[1] /\ a[1] \in Nat
  OBVIOUS
<1>2. Tail(a) \in Seq(Nat) /\ Len(Tail(a)) = Len(a) - 1
  OBVIOUS
<1>3. \A i \in 1..Len(a) - 1 : Tail(a)[i] = a[i + 1]
  OBVIOUS
<1>4. ASSUME Tail(a) # <<>>
      PROVE  Len(a) > 1 /\ Head(Tail(a)) = a[2] /\ a[2] \in Nat
  <2>1. ASSUME NEW b \in Seq(Nat), b # <<>>
        PROVE  Len(b) \in Nat \ {0} /\ Head(b) = b[1]
    BY <2>1
  <2>2. Len(Tail(a)) \in Nat \ {0} /\ Head(Tail(a)) = Tail(a)[1]
    BY <1>2, <1>4, <2>1
  <2>3. Len(a) > 1
    BY <1>1, <1>2, <2>2
  <2>4. 1 \in 1..Len(a) - 1 /\ 2 \in 1..Len(a)
    BY <1>1, <2>3
  <2>5. QED
    BY <1>3, <2>2, <2>3, <2>4
<1>5. QED
  BY <1>1, <1>2, <1>3, <1>4

\* The entry appended last is the last one.
LEMMA LastAppended ==
  ASSUME NEW s \in Seq(Nat), NEW e \in Nat
  PROVE  Append(s, e) # <<>> /\ LastOf(Append(s, e)) = e
BY DEF LastOf

LEMMA ReplayEmittedHolds == Spec => []ReplayEmitted
<1>1. Init => ReplayEmitted
  BY DEF Init, ReplayEmitted
<1>2. ASSUME IInv, ReplayEmitted, [Next]_vars
      PROVE  ReplayEmitted'
  <2>0. Typing
    BY <1>2, TypingHolds DEF IInv
  <2>1. CASE EmitPush
    BY <1>2, <2>0, <2>1 DEF EmitPush, ReplayEmitted, Typing
  <2>2. CASE EmitSend \/ BroadcastEphemeral \/ UNCHANGED vars
    BY <1>2, <2>2 DEF EmitSend, BroadcastEphemeral, vars, ReplayEmitted
  <2>3. ASSUME NEW v \in Viewers,
               Subscribe(v) \/ ReplayEnd(v) \/ Receive(v) \/ SkipLagged(v)
        PROVE  ReplayEmitted'
    BY <1>2, <2>3 DEF Subscribe, ReplayEnd, Receive, SkipLagged, ReplayEmitted
  <2>4. ASSUME NEW v \in Viewers, Snapshot(v) PROVE ReplayEmitted'
    <3>1. \A i \in 1..Len(scrollback) : scrollback[i] <= emitted
      BY <1>2, <2>0 DEF IInv, ScrollInv, Typing
    <3>2. replay' = [replay EXCEPT ![v] = scrollback] /\ emitted' = emitted
      BY <2>4 DEF Snapshot
    <3>3. QED
      BY <1>2, <3>1, <3>2 DEF IInv, TypeOK, ReplayEmitted
  <2>5. ASSUME NEW v \in Viewers, Replay(v) PROVE ReplayEmitted'
    <3>1. /\ replay' = [replay EXCEPT ![v] = Tail(replay[v])] /\ emitted' = emitted
          /\ replay[v] \in Seq(Nat) /\ replay[v] # <<>>
      BY <1>2, <2>5 DEF IInv, TypeOK, Replay
    <3>2. /\ Len(replay[v]) \in Nat \ {0} /\ Len(Tail(replay[v])) = Len(replay[v]) - 1
          /\ \A i \in 1..Len(replay[v]) - 1 : Tail(replay[v])[i] = replay[v][i + 1]
      BY <3>1, HeadAndTail
    <3>3. ASSUME NEW i \in 1..Len(replay[v]) - 1
          PROVE  replay[v][i + 1] <= emitted
      BY <1>2, <3>2 DEF ReplayEmitted
    <3>4. \A i \in 1..Len(Tail(replay[v])) : Tail(replay[v])[i] <= emitted
      BY <3>2, <3>3
    <3>5. QED
      BY <1>2, <3>1, <3>4 DEF IInv, TypeOK, ReplayEmitted
  <2>6. ASSUME NEW v \in Viewers, Disconnect(v) PROVE ReplayEmitted'
    BY <1>2, <2>6 DEF IInv, TypeOK, Disconnect, ReplayEmitted
  <2>7. QED
    BY <1>2, <2>1, <2>2, <2>3, <2>4, <2>5, <2>6 DEF Next
<1>3. QED
  BY <1>1, <1>2, InvariantHolds, PTL DEF Spec

LEMMA InitImplements == Init => Abstract!Init
<1>. SUFFICES ASSUME Init PROVE Abstract!Init
  OBVIOUS
<1>1. \A v \in Viewers : CursorOf(v) = 0 /\ ~Watching(v)
  BY DEF Init, CursorOf, Watching
<1>2. QED
  BY <1>1 DEF Init, Abstract!Init

LEMMA SnapshotImplements ==
  ASSUME IInv, NEW v \in Viewers, Snapshot(v)
  PROVE  Abstract!Join(v)
<1>1. /\ ~Watching(v) /\ Watching(v)' /\ replay'[v] = scrollback /\ seen'[v] = <<>>
      /\ emitted' = emitted /\ lagged' = lagged
  BY DEF IInv, TypeOK, ViewerInv, Snapshot, Watching
<1>2. CursorOf(v)' = Abstract!Oldest
  <2>1. Len(scrollback) = (IF emitted > ScrollbackMax THEN ScrollbackMax ELSE emitted)
    BY DEF IInv, ScrollInv
  <2>2. \A i \in 1..Len(scrollback) : scrollback[i] = emitted - Len(scrollback) + i
    BY DEF IInv, ScrollInv
  <2>3. scrollback \in Seq(Nat) /\ emitted \in Nat
    BY DEF IInv, TypeOK
  <2>4. CASE scrollback = <<>>
    <3>1. Len(scrollback) = 0
      BY <2>4
    <3>2. emitted = 0
      BY <2>1, <2>3, <3>1, StreamAssumption
    <3>3. QED
      BY <1>1, <2>4, <3>2, StreamAssumption DEF CursorOf, Abstract!Oldest
  <2>5. CASE scrollback # <<>>
    <3>1. Len(scrollback) \in Nat \ {0} /\ Head(scrollback) = scrollback[1]
      BY <2>3, <2>5
    <3>2. scrollback[1] = emitted - Len(scrollback) + 1
      BY <2>2, <3>1
    <3>3. Head(scrollback) - 1 = emitted - Len(scrollback)
      BY <2>3, <3>1, <3>2
    <3>4. CursorOf(v)' = Head(scrollback) - 1
      BY <1>1, <2>5 DEF CursorOf
    <3>5. QED
      BY <2>1, <2>3, <3>3, <3>4, StreamAssumption DEF Abstract!Oldest
  <2>6. QED
    BY <2>4, <2>5
<1>3. \A w \in Viewers \ {v} :
        pc'[w] = pc[w] /\ replay'[w] = replay[w] /\ seen'[w] = seen[w]
  BY DEF IInv, TypeOK, Snapshot
<1>4. QED
  BY <1>1, <1>2, <1>3, OneViewer DEF Abstract!Join, Present, Cursor

LEMMA ReplayImplements ==
  ASSUME IInv, ReplayEmitted, NEW v \in Viewers, Replay(v)
  PROVE  Abstract!Deliver(v)
<1>0. Typing
  BY TypingHolds DEF IInv
<1>. DEFINE r == replay[v]
            s == seen[v]
<1>1. /\ Watching(v) /\ Watching(v)' /\ r # <<>> /\ replay'[v] = Tail(r)
      /\ seen'[v] = Append(s, Head(r)) /\ emitted' = emitted /\ lagged' = lagged
      /\ r \in Seq(Nat) /\ s \in Seq(Nat)
  BY DEF IInv, TypeOK, Replay, Watching
<1>2. Consecutive(r)
  BY DEF IInv, ViewerInv
<1>3. /\ Len(r) \in Nat \ {0} /\ Head(r) = r[1] /\ r[1] \in Nat
      /\ Tail(r) # <<>> => Len(r) > 1 /\ Head(Tail(r)) = r[2] /\ r[2] \in Nat
      /\ \A e \in Nat : Append(s, e) # <<>> /\ LastOf(Append(s, e)) = e
  BY <1>1, HeadAndTail, LastAppended
<1>4. CursorOf(v)' = Head(r)
  <2>1. CASE Tail(r) = <<>>
    BY <1>1, <1>3, <2>1 DEF CursorOf
  <2>2. CASE Tail(r) # <<>>
    <3>1. r[2] = r[1] + 1
      <4>1. 1 \in 1..Len(r) - 1
        BY <1>3, <2>2
      <4>2. \A i \in 1..Len(r) - 1 : r[i + 1] = r[i] + 1
        BY <1>2 DEF Consecutive
      <4>3. QED
        BY <4>1, <4>2
    <3>2. CursorOf(v)' = r[2] - 1
      BY <1>1, <1>3, <2>2 DEF CursorOf
    <3>3. QED
      BY <1>3, <3>1, <3>2
  <2>3. QED
    BY <2>1, <2>2
<1>5. CursorOf(v) = Head(r) - 1
  BY <1>1 DEF CursorOf
<1>6. Head(r) <= emitted
  BY <1>3 DEF ReplayEmitted
<1>7. \A w \in Viewers \ {v} :
        pc'[w] = pc[w] /\ replay'[w] = replay[w] /\ seen'[w] = seen[w]
  BY DEF IInv, TypeOK, Replay
<1>. HIDE DEF r, s
<1>8. CursorOf(v) < emitted /\ CursorOf(v)' = CursorOf(v) + 1
  BY <1>0, <1>3, <1>4, <1>5, <1>6 DEF Typing
<1>9. QED
  BY <1>1, <1>7, <1>8, OneViewer DEF Abstract!Deliver, Present, Cursor

LEMMA ReceiveImplements ==
  ASSUME IInv, NEW v \in Viewers, Receive(v)
  PROVE  \/ Abstract!Deliver(v)
         \/ Abstract!Skip(v)
         \/ UNCHANGED Abstract!vars
<1>0. Typing
  BY TypingHolds DEF IInv
<1>1. /\ Watching(v) /\ Watching(v)' /\ replay[v] = <<>> /\ replay' = replay /\ pc' = pc
      /\ emitted' = emitted /\ lagged' = lagged /\ CursorOf(v) = Upto(v)
  BY DEF IInv, ViewerInv, Receive, Watching, CursorOf, Upto
<1>2. CASE chan[next[v]] = Roster
  <2>1. seen' = seen
    BY <1>2 DEF Receive
  <2>2. Cursor' = Cursor /\ Present' = Present
    BY <1>1, <2>1 DEF Cursor, Present, CursorOf, Watching, LastOf
  <2>3. QED
    BY <1>1, <2>2 DEF Abstract!vars, Cursor, Present
<1>3. CASE chan[next[v]] # Roster
  <2>. DEFINE x == chan[next[v]]
  <2>1. /\ x \in 1..Sent /\ x > Upto(v) /\ Upto(v) \in Nat
        /\ v \notin lagged => x = Upto(v) + 1
    BY <1>1, <1>3, ReceivedLineIsNext DEF IInv, CutInv
  <2>2. Sent <= emitted
    BY <1>0 DEF Typing, Sent, IInv, MutexInv
  <2>3. x \in 1..emitted
    BY <1>0, <2>1, <2>2 DEF Typing, Sent
  <2>4. seen'[v] = Append(seen[v], x) /\ seen[v] \in Seq(Nat) /\ x \in Nat
    BY <1>3, <2>3 DEF IInv, TypeOK, Receive
  <2>5. CursorOf(v)' = x
    BY <1>1, <2>4, LastAppended DEF CursorOf
  <2>6. \A w \in Viewers \ {v} :
          pc'[w] = pc[w] /\ replay'[w] = replay[w] /\ seen'[w] = seen[w]
    BY DEF IInv, TypeOK, Receive
  <2>7. Cursor' = [Cursor EXCEPT ![v] = x] /\ Present' = Present
    BY <1>1, <2>5, <2>6, OneViewer
  <2>8. CASE v \in lagged
    <3>1. Abstract!Skip(v)
      BY <1>1, <2>1, <2>3, <2>7, <2>8 DEF Abstract!Skip, Cursor, Present
    <3>2. QED
      BY <3>1
  <2>9. CASE v \notin lagged
    <3>1. x = CursorOf(v) + 1 /\ CursorOf(v) < emitted
      BY <1>0, <1>1, <2>1, <2>3, <2>9 DEF Typing
    <3>2. Abstract!Deliver(v)
      BY <1>1, <2>7, <3>1 DEF Abstract!Deliver, Cursor, Present
    <3>3. QED
      BY <3>2
  <2>10. QED
    BY <2>8, <2>9
<1>4. QED
  BY <1>2, <1>3

LEMMA DisconnectImplements ==
  ASSUME IInv, NEW v \in Viewers, Disconnect(v)
  PROVE  Abstract!Leave(v)
<1>1. /\ Watching(v) /\ ~Watching(v)' /\ CursorOf(v)' = 0
      /\ emitted' = emitted /\ lagged' = lagged \ {v}
  BY DEF IInv, TypeOK, Disconnect, Watching, CursorOf
<1>2. \A w \in Viewers \ {v} :
        pc'[w] = pc[w] /\ replay'[w] = replay[w] /\ seen'[w] = seen[w]
  BY DEF IInv, TypeOK, Disconnect
<1>3. QED
  BY <1>1, <1>2, OneViewer DEF Abstract!Leave, Present, Cursor

LEMMA StepImplements ==
  ASSUME IInv, ReplayEmitted, [Next]_vars
  PROVE  [Abstract!Next]_Abstract!vars
<1>1. CASE EmitPush
  <2>1. Cursor' = Cursor /\ Present' = Present /\ emitted' = emitted + 1 /\ lagged' = lagged
    BY <1>1 DEF EmitPush, Cursor, Present, CursorOf, Watching, LastOf
  <2>2. QED
    BY <2>1 DEF Abstract!Next, Abstract!Emit, Cursor, Present
<1>2. CASE EmitSend \/ BroadcastEphemeral \/ UNCHANGED vars
  <2>1. Cursor' = Cursor /\ Present' = Present /\ emitted' = emitted /\ lagged' = lagged
    BY <1>2 DEF EmitSend, BroadcastEphemeral, vars, Cursor, Present, CursorOf, Watching, LastOf
  <2>2. QED
    BY <2>1 DEF Abstract!vars, Cursor, Present
<1>3. ASSUME NEW v \in Viewers, Subscribe(v) \/ ReplayEnd(v)
      PROVE  UNCHANGED Abstract!vars
  <2>1. \A w \in Viewers \ {v} :
          pc'[w] = pc[w] /\ replay'[w] = replay[w] /\ seen'[w] = seen[w]
    BY <1>3 DEF IInv, TypeOK, Subscribe, ReplayEnd
  <2>2. Watching(v)' = Watching(v) /\ CursorOf(v)' = CursorOf(v)
    BY <1>3 DEF IInv, TypeOK, Subscribe, ReplayEnd, Watching, CursorOf, LastOf
  <2>3. emitted' = emitted /\ lagged' = lagged
    BY <1>3 DEF Subscribe, ReplayEnd
  <2>4. Cursor' = Cursor /\ Present' = Present
    BY <2>1, <2>2, OneViewer DEF Cursor
  <2>5. QED
    BY <2>3, <2>4 DEF Abstract!vars, Cursor, Present
<1>4. ASSUME NEW v \in Viewers, Snapshot(v) PROVE Abstract!Next
  BY <1>4, SnapshotImplements DEF Abstract!Next
<1>5. ASSUME NEW v \in Viewers, Replay(v) PROVE Abstract!Next
  BY <1>5, ReplayImplements DEF Abstract!Next
<1>6. ASSUME NEW v \in Viewers, Receive(v) PROVE [Abstract!Next]_Abstract!vars
  BY <1>6, ReceiveImplements DEF Abstract!Next
<1>7. ASSUME NEW v \in Viewers, SkipLagged(v) PROVE Abstract!Next
  <2>1. /\ Watching(v) /\ emitted' = emitted /\ lagged' = lagged \cup {v}
        /\ pc' = pc /\ replay' = replay /\ seen' = seen
    BY <1>7 DEF SkipLagged, Watching
  <2>2. Cursor' = Cursor /\ Present' = Present
    BY <2>1 DEF Cursor, Present, CursorOf, Watching, LastOf
  <2>3. Abstract!Lag(v)
    BY <2>1, <2>2 DEF Abstract!Lag, Cursor, Present
  <2>4. QED
    BY <2>3 DEF Abstract!Next
<1>8. ASSUME NEW v \in Viewers, Disconnect(v) PROVE Abstract!Next
  BY <1>8, DisconnectImplements DEF Abstract!Next
<1>9. QED
  BY <1>1, <1>2, <1>3, <1>4, <1>5, <1>6, <1>7, <1>8 DEF Next

\* The stream implements what a session promises its viewers: whatever the
\* mutex, the scrollback, the ring and the sockets do is a step of one log with
\* a cursor per viewer, in which only a viewer that lagged skips lines.
THEOREM StreamImplementsSpec == Spec => ImplementsStreamSpec
<1>1. QED
  BY InitImplements, StepImplements, InvariantHolds, ReplayEmittedHolds, PTL
     DEF Spec, ImplementsStreamSpec, Abstract!Spec
=============================================================================
