---------------------------- MODULE EngineProofs ----------------------------
(***************************************************************************)
(* Proofs about Engine, for any limits and any calls: the types, that      *)
(* every request pairs calls and results, and that the answer being        *)
(* received is what the viewers were shown; and that the loop which        *)
(* repairs a history from a file ends with what Engine says it returns.    *)
(***************************************************************************)
EXTENDS Engine, SequenceInduction, FiniteSetTheorems, TLAPS

\* A history whose calls and results are paired, except that the calls of the last
\* message may have no results yet.
Almost(h) ==
  \A i \in 1 .. Len(h) :
    /\ i < Len(h) /\ h[i].calls # {} => h[i].calls = h[i + 1].results
    /\ h[i].results # {} => i > 1 /\ h[i].results = h[i - 1].calls
    /\ i = 1 => h[i].role = "user"
    /\ IsUserPrompt(h[i]) => h[i].results = {}

\* The last message calls nothing.
Answered(h) == Len(h) > 0 => h[Len(h)].calls = {}

LEMMA Smallest ==
  ASSUME NEW T, T \subseteq Nat, T # {}
  PROVE  \E d \in T : \A e \in T : d <= e
<1>1. PICK d \in T : \A e \in T : ~ (<<e, d>> \in OpToRel(<, Nat))
  BY WFMin, NatLessThanWellFounded, Zenon
<1>2. ASSUME NEW e \in T PROVE d <= e
  <2>1. d \in Nat /\ e \in Nat
    BY <1>1
  <2>2. ~ (e < d)
    BY <1>1, <2>1, Zenon DEF OpToRel
  <2> QED
    BY <2>1, <2>2
<1> QED
  BY <1>1, <1>2

LEMMA MessageTypes ==
  /\ \A t \in BOOLEAN : UserMessage(t) \in Message
  /\ \A b \in Blocks : AssistantMessage(b) \in Message
  /\ \A R \in SUBSET Calls : ResultsMessage(R) \in Message
BY DEF UserMessage, AssistantMessage, ResultsMessage, Message, Blocks

\* Compaction keeps whole turns.
LEMMA CompactKeeps ==
  ASSUME NEW h \in Seq(Message), Almost(h), Answered(h)
  PROVE  /\ Compact(h) \in Seq(Message)
         /\ Almost(Compact(h)) /\ Answered(Compact(h))
<1>1. CASE Len(h) <= MaxMessages \/ Cuts(h) = {}
  BY <1>1 DEF Compact
<1>2. CASE ~ (Len(h) <= MaxMessages \/ Cuts(h) = {})
  <2> DEFINE d == CHOOSE d \in Cuts(h) : \A e \in Cuts(h) : d <= e
             s == SubSeq(h, d + 1, Len(h))
  <2>1. Cuts(h) \subseteq Nat
    BY <1>2, EngineAssumption DEF Cuts, EngineAssumption
  <2>2. d \in Cuts(h)
    BY <1>2, <2>1, Smallest
  <2>3. /\ d \in Nat /\ d < Len(h)
        /\ IsUserPrompt(h[d + 1])
    BY <2>1, <2>2 DEF Cuts
  <2>4. Compact(h) = s
    BY <1>2 DEF Compact
  <2> HIDE DEF d
  <2>5. /\ s \in Seq(Message)
        /\ Len(s) = Len(h) - d
        /\ \A i \in 1 .. Len(s) : s[i] = h[d + i]
    <3>1. \A i \in d + 1 .. Len(h) : h[i] \in Message
      BY <2>3
    <3> QED
      BY <2>3, <3>1, SubSeqProperties
  <2> HIDE DEF s
  <2>6. Almost(s)
    <3> SUFFICES ASSUME NEW i \in 1 .. Len(s)
                 PROVE  /\ i < Len(s) /\ s[i].calls # {} => s[i].calls = s[i + 1].results
                        /\ s[i].results # {} => i > 1 /\ s[i].results = s[i - 1].calls
                        /\ i = 1 => s[i].role = "user"
                        /\ IsUserPrompt(s[i]) => s[i].results = {}
      BY DEF Almost
    <3>1. d + i \in 1 .. Len(h) /\ s[i] = h[d + i]
      BY <2>3, <2>5
    <3>2. i < Len(s) => s[i + 1] = h[d + i + 1] /\ d + i < Len(h)
      <4>1. Len(s) \in Nat /\ Len(h) \in Nat
        BY <2>5
      <4>2. i < Len(s) => i + 1 \in 1 .. Len(s) /\ d + (i + 1) = d + i + 1 /\ d + i < Len(h)
        BY <2>3, <2>5, <4>1
      <4> QED BY <2>5, <4>2
    <3>3. i > 1 => s[i - 1] = h[d + i - 1]
      BY <2>3, <2>5
    <3>4. i = 1 => s[i].role = "user" /\ s[i].results = {}
      BY <2>3, <3>1 DEF IsUserPrompt, Almost
    <3>5. i < Len(s) /\ s[i].calls # {} => s[i].calls = s[i + 1].results
      BY <3>1, <3>2 DEF Almost
    <3>6. s[i].results # {} => i > 1 /\ s[i].results = s[i - 1].calls
      <4>1. h[d + i].results # {} => h[d + i].results = h[d + i - 1].calls
        BY <2>3, <2>5, <3>1 DEF Almost
      <4> QED
        BY <2>3, <2>5, <3>1, <3>3, <3>4, <4>1
    <3>7. IsUserPrompt(s[i]) => s[i].results = {}
      BY <3>1 DEF Almost
    <3> QED
      BY <3>4, <3>5, <3>6, <3>7
  <2>7. Answered(s)
    BY <2>3, <2>5 DEF Answered
  <2> QED
    BY <2>4, <2>5, <2>6, <2>7
<1> QED
  BY <1>1, <1>2

\* A message is appended.
LEMMA AppendKeeps ==
  ASSUME NEW h \in Seq(Message), NEW m \in Message, Almost(h),
         Len(h) = 0 => m.role = "user" /\ m.results = {},
         Len(h) > 0 => m.results = h[Len(h)].calls,
         IsUserPrompt(m) => m.results = {}
  PROVE  /\ Append(h, m) \in Seq(Message)
         /\ Len(Append(h, m)) = Len(h) + 1
         /\ Append(h, m)[Len(h) + 1] = m
         /\ Almost(Append(h, m))
<1> DEFINE s == Append(h, m)
<1>1. /\ s \in Seq(Message)
      /\ Len(s) = Len(h) + 1
      /\ s[Len(h) + 1] = m
      /\ \A i \in 1 .. Len(h) : s[i] = h[i]
  BY AppendProperties
<1> HIDE DEF s
<1>2. ASSUME NEW i \in 1 .. Len(s)
      PROVE  /\ i < Len(s) /\ s[i].calls # {} => s[i].calls = s[i + 1].results
             /\ s[i].results # {} => i > 1 /\ s[i].results = s[i - 1].calls
             /\ i = 1 => s[i].role = "user"
             /\ IsUserPrompt(s[i]) => s[i].results = {}
  <2>1. CASE i = Len(h) + 1
    BY <1>1, <2>1
  <2>2. CASE i = Len(h)
    BY <1>1, <2>2 DEF Almost
  <2>3. CASE i < Len(h)
    <3>1. i \in 1 .. Len(h) /\ i + 1 \in 1 .. Len(h) /\ (i > 1 => i - 1 \in 1 .. Len(h))
      BY <1>1, <2>3
    <3>2. s[i] = h[i] /\ s[i + 1] = h[i + 1] /\ (i > 1 => s[i - 1] = h[i - 1])
      BY <1>1, <3>1
    <3> QED
      BY <2>3, <3>1, <3>2 DEF Almost
  <2> QED
    BY <1>1, <2>1, <2>2, <2>3
<1>3. Almost(s)
  BY <1>2 DEF Almost
<1> QED
  BY <1>1, <1>3 DEF s

\* What Engine::new loads: the history, with one message more if its last calls had
\* no results.
LEMMA SanitizeAppends ==
  ASSUME NEW h \in Seq(Message), Almost(h)
  PROVE  \/ Sanitize(h) = h /\ Answered(h)
         \/ /\ Sanitize(h) = Append(h, ResultsMessage(h[Len(h)].calls))
            /\ Len(h) > 0
<1>1. Dangling(h) \subseteq {Len(h)}
  BY DEF Dangling, Unanswered, Almost
<1>2. \A i \in 1 .. Len(h) : {j \in Dangling(h) : j < i} = {}
  BY <1>1
<1>3. ASSUME NEW i \in 1 .. Len(h) PROVE Place(h, i) = i
  <2>1. Cardinality({j \in Dangling(h) : j < i}) = 0
    BY <1>2, FS_EmptySet, Zenon
  <2> QED
    BY <2>1 DEF Place
<1>4. CASE Dangling(h) = {}
  <2>1. Cardinality(Dangling(h)) = 0
    BY <1>4, FS_EmptySet
  <2>2. ASSUME NEW p \in 1 .. Len(h)
        PROVE  (CHOOSE i \in 1 .. Len(h) : Place(h, i) = p) = p
    BY <1>3
  <2>3. Sanitize(h) = [p \in 1 .. Len(h) |-> h[p]]
    BY <1>3, <2>1, <2>2 DEF Sanitize
  <2>4. Sanitize(h) = h
    BY <2>3
  <2>5. Answered(h)
    BY <1>4 DEF Answered, Dangling, Unanswered
  <2> QED
    BY <2>4, <2>5
<1>5. CASE Dangling(h) # {}
  <2>1. Dangling(h) = {Len(h)} /\ Len(h) \in 1 .. Len(h)
    BY <1>1, <1>5 DEF Dangling
  <2>2. Cardinality(Dangling(h)) = 1
    BY <2>1, FS_Singleton
  <2>3. ASSUME NEW p \in 1 .. Len(h)
        PROVE  (CHOOSE i \in 1 .. Len(h) : Place(h, i) = p) = p
    BY <1>3
  <2>4. ~ \E i \in 1 .. Len(h) : Place(h, i) = Len(h) + 1
    BY <1>3
  <2>5. (CHOOSE i \in Dangling(h) : Place(h, i) = (Len(h) + 1) - 1) = Len(h)
    BY <1>3, <2>1
  <2>6. Unanswered(h, Len(h)) = h[Len(h)].calls
    BY <2>1 DEF Unanswered
  <2> DEFINE m == ResultsMessage(h[Len(h)].calls)
  <2> HIDE DEF m
  <2> DEFINE load(p) == IF \E i \in 1 .. Len(h) : Place(h, i) = p
                         THEN h[CHOOSE i \in 1 .. Len(h) : Place(h, i) = p]
                         ELSE ResultsMessage(
                                Unanswered(h, CHOOSE i \in Dangling(h) : Place(h, i) = p - 1))
  <2>7. Sanitize(h) = [p \in 1 .. (Len(h) + Cardinality(Dangling(h))) |-> load(p)]
    BY Zenon DEF Sanitize
  <2>8. \A p \in 1 .. Len(h) : load(p) = h[p]
    BY <1>3, <2>3
  <2>9. load(Len(h) + 1) = m
    BY <2>4, <2>5, <2>6, Zenon DEF m
  <2> HIDE DEF load
  <2>10. h[Len(h)] \in Message
    BY <2>1
  <2>11. m \in Message
    BY <2>10, MessageTypes DEF m, Message
  <2>12. Append(h, m) = Sanitize(h)
    <3>0. /\ Append(h, m) \in Seq(Message)
          /\ Len(Append(h, m)) = Len(h) + 1
          /\ \A p \in 1 .. Len(h) : Append(h, m)[p] = h[p]
          /\ Append(h, m)[Len(h) + 1] = m
      BY <2>11, AppendProperties
    <3>1. Append(h, m) \in [1 .. Len(h) + 1 -> Message]
      BY <3>0, LenProperties
    <3> DEFINE s == Append(h, m)
    <3> HIDE DEF s
    <3>2. s = [p \in 1 .. Len(h) + 1 |-> s[p]]
      BY <3>1 DEF s
    <3>3. ASSUME NEW p \in 1 .. Len(h) + 1 PROVE s[p] = load(p)
      BY <2>1, <2>8, <2>9, <3>0 DEF s
    <3> QED
      BY <2>2, <2>7, <3>2, <3>3 DEF s
  <2> QED
    BY <2>1, <2>12 DEF m
<1> QED
  BY <1>4, <1>5

LEMMA SanitizeKeeps ==
  ASSUME NEW h \in Seq(Message), Almost(h)
  PROVE  /\ Sanitize(h) \in Seq(Message)
         /\ Almost(Sanitize(h)) /\ Answered(Sanitize(h))
<1>1. CASE Sanitize(h) = h /\ Answered(h)
  BY <1>1
<1>2. CASE Sanitize(h) = Append(h, ResultsMessage(h[Len(h)].calls)) /\ Len(h) > 0
  <2> DEFINE m == ResultsMessage(h[Len(h)].calls)
  <2>1. h[Len(h)] \in Message
    BY <1>2
  <2>2. /\ m \in Message
        /\ m.results = h[Len(h)].calls /\ m.calls = {} /\ ~ IsUserPrompt(m)
    BY <2>1, MessageTypes DEF Message, ResultsMessage, IsUserPrompt
  <2> HIDE DEF m
  <2>3. /\ Append(h, m) \in Seq(Message)
        /\ Len(Append(h, m)) = Len(h) + 1
        /\ Append(h, m)[Len(h) + 1] = m
        /\ Almost(Append(h, m))
    BY <1>2, <2>2, AppendKeeps
  <2> QED
    BY <1>2, <2>2, <2>3 DEF m, Answered
<1> QED
  BY <1>1, <1>2, SanitizeAppends

-----------------------------------------------------------------------------
(* The loop of sanitize_messages.                                          *)

DanglingBefore(h, i) == {j \in Dangling(h) : j < i}

\* Places go up: by one, and by two behind a message that is not answered.
LEMMA PlaceSteps ==
  ASSUME NEW h \in Seq(Message)
  PROVE  /\ \A i \in 1 .. Len(h) + 1 : Place(h, i) \in Nat /\ Place(h, i) >= i
         /\ Place(h, 1) = 1
         /\ Place(h, Len(h) + 1) = Len(h) + 1 + Cardinality(Dangling(h))
         /\ Cardinality(Dangling(h)) \in Nat
         /\ \A i \in 1 .. Len(h) :
              Place(h, i + 1) = IF i \in Dangling(h) THEN Place(h, i) + 2 ELSE Place(h, i) + 1
         /\ \A i \in 1 .. Len(h) + 1 : Place(h, i) - i <= Cardinality(Dangling(h))
<1>1. Len(h) \in Nat /\ Dangling(h) \subseteq 1 .. Len(h)
  BY DEF Dangling
<1>2. IsFiniteSet(Dangling(h)) /\ Cardinality(Dangling(h)) \in Nat
  <2>1. IsFiniteSet(1 .. Len(h))
    BY <1>1, FS_Interval
  <2>2. IsFiniteSet(Dangling(h))
    BY <1>1, <2>1, FS_Subset
  <2> QED BY <2>2, FS_CardinalityType
<1>3. \A i \in 1 .. Len(h) + 1 :
        /\ IsFiniteSet(DanglingBefore(h, i)) /\ Cardinality(DanglingBefore(h, i)) \in Nat
        /\ Place(h, i) = i + Cardinality(DanglingBefore(h, i))
  BY <1>2, FS_Subset, FS_CardinalityType DEF DanglingBefore, Place
<1>4. DanglingBefore(h, 1) = {} /\ DanglingBefore(h, Len(h) + 1) = Dangling(h)
  BY <1>1 DEF DanglingBefore
<1>5. ASSUME NEW i \in 1 .. Len(h)
      PROVE  Place(h, i + 1) = IF i \in Dangling(h) THEN Place(h, i) + 2 ELSE Place(h, i) + 1
  <2>0. i \in 1 .. Len(h) + 1 /\ i + 1 \in 1 .. Len(h) + 1
    BY <1>1
  <2>a. /\ Place(h, i) = i + Cardinality(DanglingBefore(h, i))
        /\ Place(h, i + 1) = (i + 1) + Cardinality(DanglingBefore(h, i + 1))
        /\ Cardinality(DanglingBefore(h, i)) \in Nat
    BY <1>3, <2>0
  <2>1. CASE i \in Dangling(h)
    <3>1. DanglingBefore(h, i + 1) = DanglingBefore(h, i) \cup {i} /\ i \notin DanglingBefore(h, i)
      BY <1>1, <2>1 DEF DanglingBefore
    <3>2. Cardinality(DanglingBefore(h, i + 1)) = Cardinality(DanglingBefore(h, i)) + 1
      BY <1>3, <2>0, <3>1, FS_AddElement
    <3> QED BY <2>a, <2>1, <3>2
  <2>2. CASE i \notin Dangling(h)
    <3>1. DanglingBefore(h, i + 1) = DanglingBefore(h, i)
      BY <1>1, <2>2 DEF DanglingBefore
    <3>2. Cardinality(DanglingBefore(h, i + 1)) = Cardinality(DanglingBefore(h, i))
      BY <3>1
    <3> QED BY <2>a, <2>2, <3>2
  <2> QED BY <2>1, <2>2
<1>6. 1 \in 1 .. Len(h) + 1 /\ Len(h) + 1 \in 1 .. Len(h) + 1
  BY <1>1
<1>7. Place(h, 1) = 1
  <2>1. Cardinality(DanglingBefore(h, 1)) = 0
    BY <1>4, FS_EmptySet
  <2> QED BY <1>3, <1>6, <2>1
<1>8. Place(h, Len(h) + 1) = Len(h) + 1 + Cardinality(Dangling(h))
  BY <1>3, <1>4, <1>6
<1>9. ASSUME NEW i \in 1 .. Len(h) + 1
      PROVE  Place(h, i) \in Nat /\ Place(h, i) >= i /\ Place(h, i) - i <= Cardinality(Dangling(h))
  <2>1. DanglingBefore(h, i) \in SUBSET Dangling(h)
    BY DEF DanglingBefore
  <2>2. Cardinality(DanglingBefore(h, i)) <= Cardinality(Dangling(h))
    BY <1>2, <2>1, FS_Subset
  <2>3. Place(h, i) = i + Cardinality(DanglingBefore(h, i)) /\ Cardinality(DanglingBefore(h, i)) \in Nat
    BY <1>3
  <2> QED BY <1>2, <2>2, <2>3
<1> QED BY <1>2, <1>5, <1>7, <1>8, <1>9

\* Nothing comes between a message and the next, but what answers it.
LEMMA PlaceGrows ==
  ASSUME NEW h \in Seq(Message), NEW i \in 1 .. Len(h)
  PROVE  \A j \in 1 .. Len(h) + 1 :
           i < j => Place(h, j) >= IF i \in Dangling(h) THEN Place(h, i) + 2 ELSE Place(h, i) + 1
<1> DEFINE next == IF i \in Dangling(h) THEN Place(h, i) + 2 ELSE Place(h, i) + 1
           Above == {n \in Nat : i + 1 + n <= Len(h) + 1 => Place(h, i + 1 + n) >= next}
<1>0. Len(h) \in Nat /\ Place(h, i) \in Nat
  BY PlaceSteps
<1>1. 0 \in Above
  BY <1>0, PlaceSteps
<1>2. ASSUME NEW n \in Nat, n \in Above PROVE n + 1 \in Above
  <2> SUFFICES ASSUME i + 1 + (n + 1) <= Len(h) + 1 PROVE Place(h, i + 1 + (n + 1)) >= next
    OBVIOUS
  <2> DEFINE k == i + 1 + n
  <2>1. k \in 1 .. Len(h) /\ k \in 1 .. Len(h) + 1 /\ i + 1 + (n + 1) = k + 1
    BY <1>0
  <2>2. Place(h, k) >= next
    BY <1>2, <2>1
  <2> HIDE DEF k
  <2>3. Place(h, k) \in Nat /\ Place(h, k + 1) >= Place(h, k) /\ Place(h, k + 1) \in Nat
    <3>1. k + 1 \in 1 .. Len(h) + 1
      BY <1>0, <2>1
    <3>2. Place(h, k) \in Nat /\ Place(h, k + 1) \in Nat
      BY <2>1, <3>1, PlaceSteps
    <3>3. Place(h, k + 1) = IF k \in Dangling(h) THEN Place(h, k) + 2 ELSE Place(h, k) + 1
      BY <2>1, PlaceSteps
    <3> QED BY <3>2, <3>3
  <2>4. next \in Nat
    BY <1>0
  <2> HIDE DEF next
  <2>5. Place(h, k + 1) >= next
    BY <2>2, <2>3, <2>4
  <2> QED BY <2>1, <2>5
<1>3. Nat \subseteq Above
  <2> HIDE DEF Above
  <2> QED BY <1>1, <1>2, SetInduction
<1>4. ASSUME NEW j \in 1 .. Len(h) + 1, i < j PROVE Place(h, j) >= next
  <2>1. j - (i + 1) \in Nat /\ i + 1 + (j - (i + 1)) = j
    BY <1>4
  <2>2. j - (i + 1) \in Above
    BY <1>3, <2>1
  <2> HIDE DEF next
  <2> QED BY <1>0, <2>1, <2>2
<1> QED BY <1>4

LEMMA PlacesDiffer ==
  ASSUME NEW h \in Seq(Message), NEW i \in 1 .. Len(h)
  PROVE  /\ \A j \in 1 .. Len(h) : Place(h, j) = Place(h, i) => j = i
         /\ i \in Dangling(h) => \A j \in 1 .. Len(h) : Place(h, j) # Place(h, i) + 1
         /\ Place(h, i) < Place(h, Len(h) + 1)
         /\ i \in Dangling(h) => Place(h, i) + 1 < Place(h, Len(h) + 1)
         /\ Place(h, Len(h) + 1) \in Nat
<1>0. /\ Len(h) \in Nat /\ \A j \in 1 .. Len(h) : j \in 1 .. Len(h) + 1
      /\ Len(h) + 1 \in 1 .. Len(h) + 1 /\ i < Len(h) + 1
      /\ \A j \in 1 .. Len(h) + 1 : Place(h, j) \in Nat
  BY PlaceSteps
<1>1. ASSUME NEW j \in 1 .. Len(h), j # i
      PROVE  Place(h, j) # Place(h, i) /\ (i \in Dangling(h) => Place(h, j) # Place(h, i) + 1)
  <2>1. CASE i < j
    <3>1. Place(h, j) >= IF i \in Dangling(h) THEN Place(h, i) + 2 ELSE Place(h, i) + 1
      BY <1>0, <2>1, PlaceGrows
    <3> QED BY <1>0, <3>1
  <2>2. CASE j < i
    <3>1. Place(h, i) >= IF j \in Dangling(h) THEN Place(h, j) + 2 ELSE Place(h, j) + 1
      BY <1>0, <2>2, PlaceGrows
    <3> QED BY <1>0, <3>1
  <2> QED BY <1>0, <1>1, <2>1, <2>2
<1>2. Place(h, Len(h) + 1) >= IF i \in Dangling(h) THEN Place(h, i) + 2 ELSE Place(h, i) + 1
  BY <1>0, PlaceGrows
<1>3. Place(h, i) # Place(h, i) + 1
  BY <1>0
<1> QED BY <1>0, <1>1, <1>2, <1>3

\* What is where in the result.
LEMMA SanitizeIs ==
  ASSUME NEW h \in Seq(Message)
  PROVE  /\ DOMAIN Sanitize(h) = 1 .. Place(h, Len(h) + 1) - 1
         /\ \A i \in 1 .. Len(h) :
              /\ Sanitize(h)[Place(h, i)] = h[i]
              /\ i \in Dangling(h) => Sanitize(h)[Place(h, i) + 1] = ResultsMessage(Unanswered(h, i))
<1> DEFINE N == Len(h) + Cardinality(Dangling(h))
           at(p) == IF \E i \in 1 .. Len(h) : Place(h, i) = p
                    THEN h[CHOOSE i \in 1 .. Len(h) : Place(h, i) = p]
                    ELSE ResultsMessage(Unanswered(h, CHOOSE i \in Dangling(h) : Place(h, i) = p - 1))
<1>1. Sanitize(h) = [p \in 1 .. N |-> at(p)]
  BY DEF Sanitize
<1>2. N = Place(h, Len(h) + 1) - 1 /\ N \in Nat /\ Dangling(h) \subseteq 1 .. Len(h)
  <2>1. Place(h, Len(h) + 1) = Len(h) + 1 + Cardinality(Dangling(h))
        /\ Cardinality(Dangling(h)) \in Nat /\ Len(h) \in Nat
    BY PlaceSteps
  <2>2. Dangling(h) \subseteq 1 .. Len(h)
    BY DEF Dangling
  <2> QED BY <2>1, <2>2
<1>3. ASSUME NEW i \in 1 .. Len(h)
      PROVE  /\ Place(h, i) \in 1 .. N /\ at(Place(h, i)) = h[i]
             /\ i \in Dangling(h) => /\ Place(h, i) + 1 \in 1 .. N
                                     /\ at(Place(h, i) + 1) = ResultsMessage(Unanswered(h, i))
  <2>1. Place(h, i) \in Nat /\ Place(h, i) >= 1
    BY PlaceSteps
  <2>2. (CHOOSE j \in 1 .. Len(h) : Place(h, j) = Place(h, i)) = i
    BY PlacesDiffer
  <2>3. at(Place(h, i)) = h[i]
    BY <2>2
  <2>4. ASSUME i \in Dangling(h) PROVE at(Place(h, i) + 1) = ResultsMessage(Unanswered(h, i))
    <3>1. ~ \E j \in 1 .. Len(h) : Place(h, j) = Place(h, i) + 1
      BY <2>4, PlacesDiffer
    <3>2. (Place(h, i) + 1) - 1 = Place(h, i)
      BY <2>1
    <3>3. (CHOOSE j \in Dangling(h) : Place(h, j) = Place(h, i)) = i
      BY <1>2, <2>4, PlacesDiffer
    <3> QED BY <3>1, <3>2, <3>3, Zenon
  <2>5. Place(h, i) \in 1 .. N /\ (i \in Dangling(h) => Place(h, i) + 1 \in 1 .. N)
    <3> HIDE DEF N
    <3>1. Place(h, i) < Place(h, Len(h) + 1) /\ Place(h, Len(h) + 1) \in Nat
          /\ (i \in Dangling(h) => Place(h, i) + 1 < Place(h, Len(h) + 1))
      BY PlacesDiffer
    <3> QED BY <1>2, <2>1, <3>1
  <2> HIDE DEF at, N
  <2> QED BY <2>3, <2>4, <2>5
<1> HIDE DEF at, N
<1> QED BY <1>1, <1>2, <1>3

LEMMA InsertIs ==
  ASSUME NEW S, NEW g \in Seq(S), NEW i \in 1 .. Len(g), NEW m \in S
  PROVE  /\ InsertAt(g, i + 1, m) \in Seq(S) /\ Len(InsertAt(g, i + 1, m)) = Len(g) + 1
         /\ \A p \in 1 .. i : InsertAt(g, i + 1, m)[p] = g[p]
         /\ InsertAt(g, i + 1, m)[i + 1] = m
         /\ \A p \in i + 2 .. Len(g) + 1 : InsertAt(g, i + 1, m)[p] = g[p - 1]
<1> DEFINE a == SubSeq(g, 1, i)
           b == SubSeq(g, i + 1, Len(g))
<1>1. Len(g) \in Nat /\ \A p \in 1 .. Len(g) : g[p] \in S
  OBVIOUS
<1>2. a \in Seq(S) /\ Len(a) = i /\ \A p \in 1 .. i : a[p] = g[p]
  <2>1. \A p \in 1 .. i : g[p] \in S /\ 1 + p - 1 = p
    BY <1>1
  <2> QED BY <2>1, SubSeqProperties
<1>3. b \in Seq(S) /\ Len(b) = Len(g) - i /\ \A p \in 1 .. Len(g) - i : b[p] = g[i + p]
  <2>1. \A p \in i + 1 .. Len(g) : g[p] \in S
    BY <1>1
  <2>2. i + 1 <= Len(g) + 1 /\ i + 1 \in Int /\ Len(g) \in Int
    BY <1>1
  <2>3. Len(b) = IF i + 1 <= Len(g) THEN Len(g) - (i + 1) + 1 ELSE 0
    BY <2>1, <2>2, SubSeqProperties
  <2>4. b \in Seq(S) /\ \A p \in 1 .. Len(g) - (i + 1) + 1 : b[p] = g[(i + 1) + p - 1]
    BY <2>1, <2>2, SubSeqProperties
  <2>5. \A p \in 1 .. Len(g) - i : (i + 1) + p - 1 = i + p /\ p \in 1 .. Len(g) - (i + 1) + 1
    BY <1>1
  <2> HIDE DEF b
  <2>6. Len(b) = Len(g) - i
    BY <1>1, <2>3
  <2>7. ASSUME NEW p \in 1 .. Len(g) - i PROVE b[p] = g[i + p]
    BY <2>4, <2>5
  <2> QED BY <2>4, <2>6, <2>7
<1>4. InsertAt(g, i + 1, m) = a \o <<m>> \o b
  <2>1. (i + 1) - 1 = i
    OBVIOUS
  <2> QED BY <2>1 DEF InsertAt
<1> HIDE DEF a, b
<1>5. a \o <<m>> \in Seq(S) /\ Len(a \o <<m>>) = i + 1
      /\ \A p \in 1 .. i + 1 : (a \o <<m>>)[p] = IF p <= i THEN g[p] ELSE m
  BY <1>2
<1> DEFINE c == a \o <<m>>
<1> HIDE DEF c
<1>6. /\ c \o b \in Seq(S) /\ Len(c \o b) = Len(g) + 1
      /\ \A p \in 1 .. Len(g) + 1 :
           (c \o b)[p] = IF p <= i + 1 THEN c[p] ELSE b[p - (i + 1)]
  <2>1. /\ c \in Seq(S) /\ Len(c) = i + 1 /\ b \in Seq(S)
        /\ Len(c) + Len(b) = Len(g) + 1
    BY <1>1, <1>3, <1>5 DEF c
  <2>2. /\ c \o b \in Seq(S) /\ Len(c \o b) = Len(c) + Len(b)
        /\ \A p \in 1 .. Len(c) + Len(b) :
             (c \o b)[p] = IF p <= Len(c) THEN c[p] ELSE b[p - Len(c)]
    BY <2>1, ConcatProperties
  <2> QED BY <2>1, <2>2
<1>7. ASSUME NEW p \in 1 .. i PROVE (c \o b)[p] = g[p]
  <2>1. p \in 1 .. Len(g) + 1 /\ p \in 1 .. i + 1 /\ p <= i + 1 /\ p <= i
    BY <1>1
  <2> QED BY <1>5, <1>6, <2>1 DEF c
<1>8. (c \o b)[i + 1] = m
  <2>1. i + 1 \in 1 .. Len(g) + 1 /\ i + 1 \in 1 .. i + 1 /\ i + 1 <= i + 1 /\ ~(i + 1 <= i)
    BY <1>1
  <2> QED BY <1>5, <1>6, <2>1 DEF c
<1>9. ASSUME NEW p \in i + 2 .. Len(g) + 1 PROVE (c \o b)[p] = g[p - 1]
  <2>1. p \in 1 .. Len(g) + 1 /\ ~(p <= i + 1)
    BY <1>1
  <2>2. p - (i + 1) \in 1 .. Len(g) - i /\ i + (p - (i + 1)) = p - 1
    BY <1>1
  <2>3. (c \o b)[p] = b[p - (i + 1)]
    BY <1>6, <2>1
  <2> QED BY <1>3, <2>2, <2>3
<1>10. InsertAt(g, i + 1, m) = c \o b
  BY <1>4 DEF c
<1> QED BY <1>6, <1>7, <1>8, <1>9, <1>10

\* What a round inserts, and where.
LEMMA RoundInserts ==
  ASSUME NEW g \in Seq(Message), NEW i \in 1 .. Len(g), Unanswered(g, i) # {}
  PROVE  /\ SanitizeRound(g, i) \in Seq(Message)
         /\ Len(SanitizeRound(g, i)) = Len(g) + 1
         /\ \A p \in 1 .. i : SanitizeRound(g, i)[p] = g[p]
         /\ SanitizeRound(g, i)[i + 1] = ResultsMessage(Unanswered(g, i))
         /\ \A p \in i + 2 .. Len(g) + 1 : SanitizeRound(g, i)[p] = g[p - 1]
<1> DEFINE f == SanitizeRound(g, i)
           m == ResultsMessage(Unanswered(g, i))
<1>1. m \in Message
  <2>1. g[i] \in Message
    OBVIOUS
  <2>2. Unanswered(g, i) \in SUBSET Calls
    BY <2>1 DEF Unanswered, Message
  <2> QED BY <2>2, MessageTypes
<1>2. f = InsertAt(g, i + 1, m)
  BY DEF SanitizeRound
<1> HIDE DEF f, m
<1>3. f \in Seq(Message)
  BY <1>1, <1>2, InsertIs
<1>4. Len(f) = Len(g) + 1
  BY <1>1, <1>2, InsertIs
<1>5. \A p \in 1 .. i : f[p] = g[p]
  BY <1>1, <1>2, InsertIs
<1>6. f[i + 1] = m
  BY <1>1, <1>2, InsertIs
<1>7. ASSUME NEW p \in i + 2 .. Len(g) + 1 PROVE f[p] = g[p - 1]
  <2>1. InsertAt(g, i + 1, m)[p] = g[p - 1]
    BY <1>1, InsertIs
  <2> QED BY <1>2, <2>1
<1> QED BY <1>3, <1>4, <1>5, <1>6, <1>7 DEF f, m

\* Before round i of the loop over h, the history is g: all before the place of message
\* e is as in the result, the rest is as in h.  Round i looks at message e, or at what was
\* just inserted before it.
InsertedUpTo(h, g, e) ==
  /\ g \in Seq(Message)
  /\ Len(g) = Len(h) + (Place(h, e) - e)
  /\ \A p \in 1 .. Len(g) :
       /\ p < Place(h, e) => g[p] = Sanitize(h)[p]
       /\ p >= Place(h, e) => g[p] = h[p - (Place(h, e) - e)]
LooksAt(h, g, i, e) ==
  \/ i = Place(h, e)
  \/ i \in 1 .. Len(g) /\ i + 1 = Place(h, e) /\ g[i].calls = {}
LoopInv(h, g, i) ==
  \E e \in 1 .. Len(h) + 1 : InsertedUpTo(h, g, e) /\ LooksAt(h, g, i, e)

LEMMA LoopInvInit ==
  ASSUME NEW h \in Seq(Message)
  PROVE  LoopInv(h, h, 1)
<1>1. Place(h, 1) = 1 /\ Len(h) \in Nat /\ 1 \in 1 .. Len(h) + 1
  BY PlaceSteps
<1>2. InsertedUpTo(h, h, 1)
  BY <1>1 DEF InsertedUpTo
<1>3. LooksAt(h, h, 1, 1)
  BY <1>1 DEF LooksAt
<1> QED BY <1>1, <1>2, <1>3 DEF LoopInv

\* A round that looks at message e of h.
LEMMA RoundAtMessage ==
  ASSUME NEW h \in Seq(Message), NEW g, NEW e \in 1 .. Len(h) + 1, InsertedUpTo(h, g, e),
         Place(h, e) \in 1 .. Len(g)
  PROVE  LoopInv(h, SanitizeRound(g, Place(h, e)), Place(h, e) + 1)
<1> DEFINE i == Place(h, e)
           f == SanitizeRound(g, i)
           m == ResultsMessage(Unanswered(h, e))
<1>1. /\ i \in Nat /\ i >= e /\ Len(h) \in Nat /\ Len(g) \in Nat /\ Len(g) = Len(h) + (i - e)
      /\ g \in Seq(Message)
  BY PlaceSteps DEF InsertedUpTo
<1>2. e \in 1 .. Len(h) /\ e + 1 \in 1 .. Len(h) + 1 /\ i \in 1 .. Len(g)
  BY <1>1
<1>3. Place(h, e + 1) = IF e \in Dangling(h) THEN i + 2 ELSE i + 1
  BY <1>2, PlaceSteps
<1>4. g[i] = h[e] /\ (i < Len(g) <=> e < Len(h)) /\ (e < Len(h) => g[i + 1] = h[e + 1])
  <2>1. i - (i - e) = e /\ (i + 1) - (i - e) = e + 1 /\ i >= i /\ i + 1 >= i
    BY <1>1
  <2>2. (i < Len(g) <=> e < Len(h)) /\ (e < Len(h) => i + 1 \in 1 .. Len(g))
    BY <1>1, <1>2
  <2>3. \A p \in 1 .. Len(g) : p >= i => g[p] = h[p - (i - e)]
    BY DEF InsertedUpTo
  <2> HIDE DEF i
  <2>4. g[i] = h[e]
    BY <1>2, <2>1, <2>3
  <2>5. ASSUME e < Len(h) PROVE g[i + 1] = h[e + 1]
    BY <2>1, <2>2, <2>3, <2>5
  <2> QED BY <2>2, <2>4, <2>5
<1>5. Unanswered(g, i) = Unanswered(h, e)
  <2> HIDE DEF i
  <2> QED BY <1>4 DEF Unanswered
<1>6. e \in Dangling(h) <=> Unanswered(h, e) # {}
  BY <1>2 DEF Dangling
<1>7. /\ \A p \in 1 .. Len(g) : p < i => g[p] = Sanitize(h)[p]
      /\ \A p \in 1 .. Len(g) : p >= i => g[p] = h[p - (i - e)]
      /\ Sanitize(h)[i] = h[e]
      /\ e \in Dangling(h) => Sanitize(h)[i + 1] = m
  BY <1>2, SanitizeIs DEF InsertedUpTo
<1>8. CASE e \notin Dangling(h)
  <2>1. f = g
    BY <1>5, <1>6, <1>8 DEF SanitizeRound
  <2>2. InsertedUpTo(h, g, e + 1)
    <3>1. Place(h, e + 1) = i + 1
      BY <1>3, <1>8
    <3> HIDE DEF i
    <3>2. Len(g) = Len(h) + ((i + 1) - (e + 1)) /\ (i + 1) - (e + 1) = i - e
      BY <1>1
    <3>3. ASSUME NEW p \in 1 .. Len(g)
          PROVE  /\ p < i + 1 => g[p] = Sanitize(h)[p]
                 /\ p >= i + 1 => g[p] = h[p - (i - e)]
      <4>1. p < i + 1 => p < i \/ p = i
        BY <1>1
      <4>2. p >= i + 1 => p >= i
        BY <1>1
      <4> QED BY <1>4, <1>7, <4>1, <4>2
    <3> QED BY <1>1, <3>1, <3>2, <3>3 DEF InsertedUpTo
  <2>3. LooksAt(h, g, i + 1, e + 1)
    BY <1>3, <1>8 DEF LooksAt
  <2> QED BY <1>2, <2>1, <2>2, <2>3 DEF LoopInv
<1>9. CASE e \in Dangling(h)
  <2>1. Unanswered(g, i) # {} /\ m = ResultsMessage(Unanswered(g, i))
    BY <1>5, <1>6, <1>9
  <2>2. m.calls = {}
    BY DEF ResultsMessage
  <2>3. Place(h, e + 1) = i + 2
    BY <1>3, <1>9
  <2> HIDE DEF i, m
  <2>4. /\ f \in Seq(Message) /\ Len(f) = Len(g) + 1
        /\ \A p \in 1 .. i : f[p] = g[p]
        /\ f[i + 1] = m
        /\ \A p \in i + 2 .. Len(g) + 1 : f[p] = g[p - 1]
    BY <1>1, <1>2, <2>1, RoundInserts
  <2> HIDE DEF f
  <2>5. Len(f) = Len(h) + ((i + 2) - (e + 1)) /\ (i + 2) - (e + 1) = (i - e) + 1
    BY <1>1, <2>4
  <2>6. ASSUME NEW p \in 1 .. Len(f)
        PROVE  /\ p < i + 2 => f[p] = Sanitize(h)[p]
               /\ p >= i + 2 => f[p] = h[p - ((i - e) + 1)]
    <3>1. CASE p < i
      <4>1. p \in 1 .. i /\ p \in 1 .. Len(g) /\ ~(p >= i + 2)
        BY <1>1, <1>2, <3>1
      <4> QED BY <1>7, <2>4, <3>1, <4>1
    <3>2. CASE p = i
      <4>1. p \in 1 .. i /\ ~(p >= i + 2)
        BY <1>1, <1>2, <3>2
      <4> QED BY <1>4, <1>7, <2>4, <3>2, <4>1
    <3>3. CASE p = i + 1
      <4>1. ~(p >= i + 2)
        BY <1>1, <1>2, <3>3
      <4> QED BY <1>7, <1>9, <2>4, <3>3, <4>1
    <3>4. CASE p > i + 1
      <4>1. /\ p \in i + 2 .. Len(g) + 1 /\ ~(p < i + 2)
            /\ p - 1 \in 1 .. Len(g) /\ p - 1 >= i /\ (p - 1) - (i - e) = p - ((i - e) + 1)
        BY <1>1, <1>2, <2>4, <3>4
      <4>2. f[p] = g[p - 1]
        BY <2>4, <4>1
      <4>3. g[p - 1] = h[(p - 1) - (i - e)]
        BY <1>7, <4>1
      <4> QED BY <4>1, <4>2, <4>3
    <3> QED BY <1>1, <3>1, <3>2, <3>3, <3>4
  <2>7. InsertedUpTo(h, f, e + 1)
    BY <2>3, <2>4, <2>5, <2>6 DEF InsertedUpTo
  <2>8. LooksAt(h, f, i + 1, e + 1)
    <3>1. i + 1 \in 1 .. Len(g) + 1 /\ (i + 1) + 1 = i + 2
      BY <1>1, <1>2
    <3> QED BY <2>2, <2>3, <2>4, <3>1 DEF LooksAt
  <2> QED BY <1>2, <2>7, <2>8 DEF LoopInv, i, f
<1> QED BY <1>8, <1>9

LEMMA LoopInvStep ==
  ASSUME NEW h \in Seq(Message), NEW g, NEW i \in 1 .. Len(g), LoopInv(h, g, i)
  PROVE  LoopInv(h, SanitizeRound(g, i), i + 1)
<1>1. PICK e \in 1 .. Len(h) + 1 : InsertedUpTo(h, g, e) /\ LooksAt(h, g, i, e)
  BY DEF LoopInv
<1>2. CASE i = Place(h, e)
  BY <1>1, <1>2, RoundAtMessage
<1>3. CASE i + 1 = Place(h, e) /\ g[i].calls = {}
  <2>1. SanitizeRound(g, i) = g
    BY <1>3 DEF SanitizeRound, Unanswered
  <2>2. LooksAt(h, g, i + 1, e)
    BY <1>3 DEF LooksAt
  <2> QED BY <1>1, <2>1, <2>2 DEF LoopInv
<1> QED BY <1>1, <1>2, <1>3 DEF LooksAt

\* Before any round the history is no longer than the result, and behind the last round it
\* is the result.
LEMMA LoopInvEnd ==
  ASSUME NEW h \in Seq(Message), NEW g, NEW i \in Nat, LoopInv(h, g, i)
  PROVE  /\ Len(g) \in Nat /\ Len(g) <= Len(h) + Cardinality(Dangling(h))
         /\ i > Len(g) => g = Sanitize(h)
<1>1. PICK e \in 1 .. Len(h) + 1 : InsertedUpTo(h, g, e) /\ LooksAt(h, g, i, e)
  BY DEF LoopInv
<1>2. /\ Len(g) \in Nat /\ Len(h) \in Nat /\ Len(g) = Len(h) + (Place(h, e) - e)
      /\ Place(h, e) \in Nat /\ Place(h, e) - e <= Cardinality(Dangling(h))
      /\ Cardinality(Dangling(h)) \in Nat /\ g \in Seq(Message)
  BY <1>1, PlaceSteps DEF InsertedUpTo
<1>3. Len(g) <= Len(h) + Cardinality(Dangling(h))
  BY <1>2
<1>4. ASSUME i > Len(g) PROVE g = Sanitize(h)
  <2>1. i = Place(h, e)
    BY <1>1, <1>2, <1>4 DEF LooksAt
  <2>2. e = Len(h) + 1
    BY <1>2, <1>4, <2>1
  <2>3. DOMAIN Sanitize(h) = 1 .. Len(g)
    <3>1. DOMAIN Sanitize(h) = 1 .. Place(h, Len(h) + 1) - 1
      BY SanitizeIs
    <3>2. Place(h, Len(h) + 1) - 1 = Len(g)
      BY <1>2, <2>2
    <3> QED BY <3>1, <3>2
  <2>4. \A p \in 1 .. Len(g) : g[p] = Sanitize(h)[p]
    <3>1. \A p \in 1 .. Len(g) : p < Place(h, e)
      BY <1>2, <1>4, <2>1
    <3> QED BY <1>1, <3>1 DEF InsertedUpTo
  <2>5. Sanitize(h) = [p \in DOMAIN Sanitize(h) |-> Sanitize(h)[p]]
    BY DEF Sanitize
  <2>6. g = [p \in 1 .. Len(g) |-> g[p]]
    BY <1>2
  <2> QED BY <2>3, <2>4, <2>5, <2>6
<1> QED BY <1>2, <1>3, <1>4

LEMMA RoundsKeepInv ==
  ASSUME NEW h \in Seq(Message), NEW r, SanitizeRounds(h, r)
  PROVE  \A i \in 1 .. Len(r) : LoopInv(h, r[i], i)
<1>1. /\ Len(r) \in Nat \ {0} /\ r[1] = h
      /\ \A i \in 1 .. Len(r) - 1 : i <= Len(r[i]) /\ r[i + 1] = SanitizeRound(r[i], i)
  BY DEF SanitizeRounds
<1> DEFINE Kept == {n \in Nat : n + 1 <= Len(r) => LoopInv(h, r[n + 1], n + 1)}
<1>2. 0 \in Kept
  <2>1. 0 + 1 = 1
    OBVIOUS
  <2> QED BY <1>1, <2>1, LoopInvInit
<1>3. ASSUME NEW n \in Nat, n \in Kept PROVE n + 1 \in Kept
  <2> SUFFICES ASSUME (n + 1) + 1 <= Len(r) PROVE LoopInv(h, r[(n + 1) + 1], (n + 1) + 1)
    OBVIOUS
  <2> DEFINE i == n + 1
             g == r[i]
  <2>1. i \in 1 .. Len(r) - 1 /\ i <= Len(r)
    BY <1>1
  <2>2. LoopInv(h, g, i) /\ i <= Len(g) /\ r[i + 1] = SanitizeRound(g, i)
    BY <1>1, <1>3, <2>1
  <2>3. Len(g) \in Nat
    BY <2>1, <2>2, LoopInvEnd
  <2>4. i \in 1 .. Len(g)
    BY <2>2, <2>3
  <2> HIDE DEF i, g
  <2>5. LoopInv(h, SanitizeRound(g, i), i + 1)
    BY <2>2, <2>4, LoopInvStep
  <2> QED BY <2>2, <2>5 DEF i
<1>4. Nat \subseteq Kept
  <2> HIDE DEF Kept
  <2> QED BY <1>2, <1>3, SetInduction
<1>5. ASSUME NEW i \in 1 .. Len(r) PROVE LoopInv(h, r[i], i)
  <2>1. i - 1 \in Nat /\ (i - 1) + 1 = i /\ i <= Len(r)
    BY <1>1
  <2>2. i - 1 \in Kept
    BY <1>4, <2>1
  <2> QED BY <2>1, <2>2
<1> QED BY <1>5

\* The loop ends, whatever the history.
LEMMA LoopEnds ==
  ASSUME NEW h \in Seq(Message)
  PROVE  \E g : SanitizeLoop(h, g)
<1> DEFINE N == Len(h) + Cardinality(Dangling(h))
           Ends == \E g : SanitizeLoop(h, g)
           Lasts(n) == \E r : SanitizeRounds(h, r) /\ Len(r) = n + 1
           Reached == {n \in Nat : Ends \/ Lasts(n)}
<1>0. N \in Nat
  BY PlaceSteps
<1>1. Lasts(0)
  <2>1. /\ <<h>> \in Seq(Seq(Message)) /\ Len(<<h>>) = 1 /\ <<h>>[1] = h
        /\ 1 .. Len(<<h>>) - 1 = {}
    OBVIOUS
  <2>2. SanitizeRounds(h, <<h>>)
    BY <2>1 DEF SanitizeRounds
  <2> QED BY <2>1, <2>2
<1>2. ASSUME NEW n \in Nat, NEW r, SanitizeRounds(h, r), Len(r) = n + 1
      PROVE  Ends \/ (Lasts(n + 1) /\ n + 1 <= N)
  <2> DEFINE i == n + 1
             g == r[i]
  <2>1. /\ r \in Seq(Seq(Message)) /\ r[1] = h
        /\ \A j \in 1 .. Len(r) - 1 : j <= Len(r[j]) /\ r[j + 1] = SanitizeRound(r[j], j)
        /\ i \in 1 .. Len(r) /\ Len(r) = i /\ i \in Nat
    BY <1>2 DEF SanitizeRounds
  <2>2. LoopInv(h, g, i)
    BY <1>2, <2>1, RoundsKeepInv
  <2>3. Len(g) \in Nat /\ Len(g) <= N
    BY <2>1, <2>2, LoopInvEnd
  <2>4. CASE i > Len(g)
    BY <1>2, <2>1, <2>4 DEF SanitizeLoop
  <2>5. CASE i <= Len(g)
    <3> DEFINE f == SanitizeRound(g, i)
               s == Append(r, f)
    <3>1. i \in 1 .. Len(g)
      BY <2>1, <2>3, <2>5
    <3>2. LoopInv(h, f, i + 1)
      <4> HIDE DEF i, g
      <4> QED BY <2>2, <3>1, LoopInvStep
    <3>3. f \in Seq(Message)
      BY <3>2 DEF LoopInv, InsertedUpTo
    <3> HIDE DEF f
    <3>4. /\ s \in Seq(Seq(Message)) /\ Len(s) = i + 1 /\ s[i + 1] = f
          /\ \A j \in 1 .. i : s[j] = r[j]
      <4> HIDE DEF i
      <4> QED BY <2>1, <3>3, AppendIs
    <3> HIDE DEF s
    <3>5. ASSUME NEW j \in 1 .. Len(s) - 1
          PROVE  j <= Len(s[j]) /\ s[j + 1] = SanitizeRound(s[j], j)
      <4>1. CASE j = i
        <5>1. s[j] = g /\ s[j + 1] = f
          BY <2>1, <3>4, <4>1
        <5> QED BY <2>5, <4>1, <5>1 DEF f
      <4>2. CASE j # i
        <5>1. j \in 1 .. Len(r) - 1 /\ j \in 1 .. i /\ j + 1 \in 1 .. i
          BY <2>1, <3>4, <4>2
        <5>2. s[j] = r[j] /\ s[j + 1] = r[j + 1]
          BY <3>4, <5>1
        <5> QED BY <2>1, <5>1, <5>2
      <4> QED BY <4>1, <4>2
    <3>6. s[1] = h /\ Len(s) > 0
      BY <2>1, <3>4
    <3>7. SanitizeRounds(h, s)
      BY <3>4, <3>5, <3>6 DEF SanitizeRounds
    <3>8. Lasts(n + 1)
      BY <3>4, <3>7
    <3> QED BY <2>3, <2>5, <3>8, <1>0
  <2> QED BY <2>1, <2>3, <2>4, <2>5
<1> HIDE DEF Ends
<1>3. 0 \in Reached
  BY <1>1
<1>4. ASSUME NEW n \in Nat, n \in Reached PROVE n + 1 \in Reached
  BY <1>2, <1>4
<1>5. Nat \subseteq Reached
  <2> HIDE DEF Reached
  <2> QED BY <1>3, <1>4, SetInduction
<1>6. Ends \/ Lasts(N)
  BY <1>0, <1>5
<1>7. Lasts(N) => Ends
  <2>1. ~(N + 1 <= N)
    BY <1>0
  <2> HIDE DEF N
  <2> QED BY <1>0, <1>2, <2>1
<1> QED BY <1>6, <1>7 DEF Ends

\* sanitize_messages walks over the messages while it inserts new ones behind those it
\* looks at.  For every history, one that an earlier version or a crash left in any
\* disorder included, the walk ends, and it ends with the history that Sanitize states.
THEOREM LoopIsSanitize ==
  \A h \in Seq(Message), g \in Seq(Message) : SanitizeLoop(h, g) <=> g = Sanitize(h)
<1>1. ASSUME NEW h \in Seq(Message), NEW g, SanitizeLoop(h, g)
      PROVE  g = Sanitize(h)
  <2>1. PICK r : SanitizeRounds(h, r) /\ r[Len(r)] = g /\ Len(r) > Len(g)
    BY <1>1 DEF SanitizeLoop
  <2>2. Len(r) \in Nat /\ Len(r) \in 1 .. Len(r)
    BY <2>1 DEF SanitizeRounds
  <2>3. LoopInv(h, g, Len(r))
    BY <2>1, <2>2, RoundsKeepInv
  <2> QED BY <2>1, <2>2, <2>3, LoopInvEnd
<1>2. ASSUME NEW h \in Seq(Message) PROVE SanitizeLoop(h, Sanitize(h))
  BY <1>1, LoopEnds
<1> QED BY <1>1, <1>2

-----------------------------------------------------------------------------
InTurn == {"loop", "tools"} \union Asking

\* Both copies of the history are paired up to their last message.  In memory the
\* last message has open calls only while the tools run; what crashes leave open in
\* the file is closed when it is loaded.
HistoryInv ==
  /\ Almost(messages) /\ Almost(disk)
  /\ pc \in InTurn => Len(messages) > 0
  /\ pc # "tools" => Answered(messages)
  /\ pc = "tools" => messages[Len(messages)].calls = todo \union results

\* An answer without events is empty, so that an attempt that is retried showed
\* nothing.
AnswerInv ==
  /\ pc \in Asking => acc = shown
  /\ pc \in Asking /\ ~got => acc = Nothing
  /\ pc = "backoff" => ~got /\ attempt <= MaxRetries

Inv == TypeOK /\ HistoryInv /\ AnswerInv

LEMMA NothingType == Nothing \in Blocks
BY DEF Nothing, Blocks

LEMMA Counters ==
  /\ 0 \in 0 .. MaxSteps
  /\ 0 \in 0 .. (MaxRetries + 1) /\ 1 \in 0 .. (MaxRetries + 1)
BY EngineAssumption DEF EngineAssumption

LEMMA InvInit == Init => Inv
<1> SUFFICES ASSUME Init PROVE Inv
  OBVIOUS
<1>1. TypeOK
  BY NothingType, Counters, EmptySeq DEF Init, TypeOK
<1>2. HistoryInv
  BY DEF Init, HistoryInv, Almost, Answered, InTurn, Asking
<1>3. AnswerInv
  BY DEF Init, AnswerInv, Asking
<1> QED
  BY <1>1, <1>2, <1>3 DEF Inv

\* The end of a turn, and of the engine, keep what concerns the turn.
LEMMA ForgetTurnType ==
  ASSUME ForgetTurn
  PROVE  /\ steps' \in 0 .. MaxSteps /\ attempt' \in 0 .. (MaxRetries + 1)
         /\ acc' \in Blocks /\ got' \in BOOLEAN /\ shown' \in Blocks
         /\ todo' \subseteq Calls /\ results' \subseteq Calls
BY NothingType, Counters DEF ForgetTurn

\* The answer is appended, in memory and perhaps in the file.
LEMMA StoreAnswerInv ==
  ASSUME Inv, pc = "streaming", StoreAnswer
  PROVE  Inv'
<1> DEFINE m == AssistantMessage(acc)
           h == Append(messages, m)
<1>1. m \in Message
  BY MessageTypes DEF Inv, TypeOK
<1>2. /\ m.results = {} /\ m.calls = acc.calls /\ ~ IsUserPrompt(m)
  BY DEF AssistantMessage, IsUserPrompt
<1>3. /\ messages \in Seq(Message) /\ Almost(messages) /\ Len(messages) > 0
      /\ messages[Len(messages)].calls = {}
  BY DEF Inv, TypeOK, HistoryInv, InTurn, Asking, Answered
<1> HIDE DEF m
<1>a. m.results = messages[Len(messages)].calls /\ Len(messages) # 0
  BY <1>2, <1>3
<1>4. /\ h \in Seq(Message) /\ Almost(h)
      /\ Len(h) = Len(messages) + 1
      /\ h[Len(messages) + 1] = m
  BY <1>1, <1>2, <1>3, <1>a, AppendKeeps
<1>5. /\ messages' = h /\ disk' \in {disk, h} /\ interrupt' = interrupt
  BY DEF StoreAnswer, Save, m
<1> HIDE DEF h
<1>6. /\ messages' \in Seq(Message) /\ disk' \in Seq(Message) /\ interrupt' \in BOOLEAN
      /\ Almost(messages') /\ Almost(disk') /\ Len(messages') > 0
      /\ messages'[Len(messages')].calls = acc.calls
  BY <1>2, <1>3, <1>4, <1>5 DEF Inv, TypeOK, HistoryInv
<1>7. CASE acc.calls = {} /\ EndTurn
  <2>1. TypeOK'
    BY <1>6, <1>7, ForgetTurnType DEF EndTurn, TypeOK
  <2>2. HistoryInv' /\ AnswerInv'
    BY <1>6, <1>7 DEF EndTurn, HistoryInv, AnswerInv, Answered, InTurn, Asking
  <2> QED
    BY <2>1, <2>2 DEF Inv
<1>8. CASE /\ acc.calls # {} /\ pc' = "tools" /\ todo' = acc.calls /\ results' = {}
           /\ UNCHANGED <<steps, attempt, acc, got, shown>>
  <2>1. TypeOK'
    BY <1>6, <1>8 DEF Inv, TypeOK, Blocks
  <2>2. HistoryInv' /\ AnswerInv'
    BY <1>6, <1>8 DEF HistoryInv, AnswerInv, Answered, InTurn, Asking
  <2> QED
    BY <2>1, <2>2 DEF Inv
<1> QED
  BY <1>7, <1>8 DEF StoreAnswer

LEMMA InvStep == Inv /\ [Next]_vars => Inv'
<1> SUFFICES ASSUME Inv, [Next]_vars PROVE Inv'
  OBVIOUS
<1> USE EngineAssumption DEF EngineAssumption
<1>1. ASSUME NEW text \in BOOLEAN, Prompt(text) PROVE Inv'
  <2> DEFINE m == UserMessage(text)
             h == Compact(messages)
  <2>1. /\ m \in Message /\ m.results = {} /\ m.calls = {} /\ m.role = "user"
    BY MessageTypes DEF UserMessage
  <2>2. /\ h \in Seq(Message) /\ Almost(h) /\ Answered(h)
    BY <1>1, CompactKeeps DEF Prompt, Inv, TypeOK, HistoryInv
  <2>3. messages' = Append(h, m)
    BY <1>1 DEF Prompt
  <2> HIDE DEF m, h
  <2>4. /\ messages' \in Seq(Message) /\ Almost(messages')
        /\ Len(messages') = Len(h) + 1
        /\ messages'[Len(h) + 1] = m
    BY <2>1, <2>2, <2>3, AppendKeeps DEF Answered
  <2>5. TypeOK'
    BY <1>1, <2>4 DEF Prompt, turn, Inv, TypeOK
  <2>6. HistoryInv'
    BY <1>1, <2>1, <2>2, <2>4 DEF Prompt, Inv, HistoryInv, Answered
  <2>7. AnswerInv'
    BY <1>1 DEF Prompt, AnswerInv, Asking
  <2> QED
    BY <2>5, <2>6, <2>7 DEF Inv
<1>2. ASSUME Interrupt PROVE Inv'
  BY <1>2 DEF Interrupt, turn, Inv, TypeOK, HistoryInv, AnswerInv
<1>3. ASSUME LoopInterrupted \/ StepCap PROVE Inv'
  <2>1. EndTurn /\ pc = "loop" /\ UNCHANGED <<messages, disk, interrupt>>
    BY <1>3 DEF LoopInterrupted, StepCap
  <2>2. TypeOK'
    BY <2>1, ForgetTurnType DEF EndTurn, Inv, TypeOK
  <2> QED
    BY <2>1, <2>2 DEF EndTurn, Inv, HistoryInv, AnswerInv, InTurn, Asking
<1>4. ASSUME Request PROVE Inv'
  <2>1. TypeOK'
    <3>1. steps' \in 0 .. MaxSteps
      BY <1>4 DEF Request, Inv, TypeOK
    <3> QED
      BY <1>4, <3>1, NothingType, Counters DEF Request, Inv, TypeOK, Asking
  <2> QED
    BY <1>4, <2>1 DEF Request, Inv, HistoryInv, AnswerInv, InTurn, Asking
<1>5. ASSUME Responds PROVE Inv'
  BY <1>5 DEF Responds, turn, Inv, TypeOK, HistoryInv, AnswerInv, InTurn, Asking
<1>6. ASSUME StreamEvent PROVE Inv'
  <2>1. /\ acc \in Blocks /\ acc = shown
    BY <1>6 DEF StreamEvent, Inv, TypeOK, AnswerInv, Asking
  <2>2. acc' \in Blocks /\ acc' = shown'
    <3>1. CASE \E c \in Calls : /\ acc' = [acc EXCEPT !.calls = @ \union {c}]
                               /\ shown' = [shown EXCEPT !.calls = @ \union {c}]
      BY <2>1, <3>1 DEF Blocks
    <3>2. CASE /\ acc' = [acc EXCEPT !.text = TRUE]
               /\ shown' = [shown EXCEPT !.text = TRUE]
      BY <2>1, <3>2 DEF Blocks
    <3> QED
      BY <1>6, <2>1, <3>1, <3>2 DEF StreamEvent
  <2> QED
    BY <1>6, <2>2 DEF StreamEvent, Inv, TypeOK, HistoryInv, AnswerInv
<1>7. ASSUME RequestFails PROVE Inv'
  <2>1. PICK retryable \in BOOLEAN :
          \/ Retries(retryable) /\ pc' = "backoff" /\ UNCHANGED turn
          \/ EndTurn
    BY <1>7 DEF RequestFails
  <2>2. CASE Retries(retryable) /\ pc' = "backoff" /\ UNCHANGED turn
    <3>1. pc \in Asking /\ pc \in {"sending", "streaming"} /\ ~got /\ attempt <= MaxRetries
      BY <1>7, <2>2 DEF RequestFails, Retries, Asking
    <3> QED
      BY <1>7, <2>2, <3>1
         DEF RequestFails, turn, Inv, TypeOK, HistoryInv, AnswerInv, InTurn, Asking
  <2>3. CASE EndTurn
    <3>1. TypeOK'
      BY <1>7, <2>3, ForgetTurnType DEF RequestFails, EndTurn, Inv, TypeOK
    <3> QED
      BY <1>7, <2>3, <3>1
         DEF RequestFails, EndTurn, Inv, HistoryInv, AnswerInv, InTurn, Asking
  <2> QED
    BY <2>1, <2>2, <2>3
<1>8. ASSUME RetryNow PROVE Inv'
  <2>1. /\ shown = Nothing /\ attempt + 1 \in 0 .. (MaxRetries + 1)
    BY <1>8 DEF RetryNow, Inv, TypeOK, AnswerInv, Asking
  <2>2. TypeOK'
    BY <1>8, <2>1, NothingType DEF RetryNow, Inv, TypeOK, Asking
  <2> QED
    BY <1>8, <2>1, <2>2 DEF RetryNow, Inv, HistoryInv, AnswerInv, InTurn, Asking
<1>9. ASSUME StreamEnds \/ StreamInterrupted PROVE Inv'
  BY <1>9, StoreAnswerInv DEF StreamEnds, StreamInterrupted
<1>10. ASSUME NEW c \in Calls, Tool(c) PROVE Inv'
  BY <1>10 DEF Tool, Inv, TypeOK, HistoryInv, AnswerInv, Asking
<1>11. ASSUME StoreResults PROVE Inv'
  <2> DEFINE m == ResultsMessage(results)
             h == Append(messages, m)
  <2>1. m \in Message
    BY MessageTypes DEF Inv, TypeOK
  <2>2. m.results = results /\ m.calls = {} /\ ~ IsUserPrompt(m)
    BY DEF ResultsMessage, IsUserPrompt
  <2>3. /\ messages \in Seq(Message) /\ Almost(messages) /\ Len(messages) > 0
        /\ messages[Len(messages)].calls = results
    BY <1>11 DEF StoreResults, Inv, TypeOK, HistoryInv, InTurn
  <2> HIDE DEF m
  <2>4. /\ h \in Seq(Message) /\ Almost(h)
        /\ Len(h) = Len(messages) + 1
        /\ h[Len(messages) + 1] = m
    BY <2>1, <2>2, <2>3, AppendKeeps
  <2>5. messages' = h /\ disk' \in {disk, h}
    BY <1>11 DEF StoreResults, Save, m
  <2> HIDE DEF h
  <2>6. TypeOK'
    BY <1>11, <2>4, <2>5 DEF StoreResults, Inv, TypeOK
  <2>7. HistoryInv'
    BY <1>11, <2>2, <2>3, <2>4, <2>5 DEF StoreResults, Inv, TypeOK, HistoryInv, Answered
  <2>8. AnswerInv'
    BY <1>11 DEF StoreResults, AnswerInv, Asking
  <2> QED
    BY <2>6, <2>7, <2>8 DEF Inv
<1>12. ASSUME Crash PROVE Inv'
  <2>1. TypeOK'
    <3>1. messages' \in Seq(Message)
      BY <1>12, EmptySeq DEF Crash
    <3> QED
      BY <1>12, <3>1, ForgetTurnType DEF Crash, Inv, TypeOK
  <2> QED
    BY <1>12, <2>1 DEF Crash, Inv, HistoryInv, AnswerInv, Almost, Answered, InTurn, Asking
<1>13. ASSUME Restart PROVE Inv'
  <2>1. /\ messages' \in Seq(Message) /\ Almost(messages') /\ Answered(messages')
    BY <1>13, SanitizeKeeps DEF Restart, Inv, TypeOK, HistoryInv
  <2> QED
    BY <1>13, <2>1 DEF Restart, turn, Inv, TypeOK, HistoryInv, AnswerInv, InTurn, Asking
<1>14. ASSUME UNCHANGED vars PROVE Inv'
  BY <1>14 DEF vars, turn, Inv, TypeOK, HistoryInv, AnswerInv
<1> QED
  BY <1>1, <1>2, <1>3, <1>4, <1>5, <1>6, <1>7, <1>8, <1>9, <1>10, <1>11, <1>12, <1>13,
     <1>14 DEF Next

LEMMA InvAlways == Spec => []Inv
BY InvInit, InvStep, PTL DEF Spec

-----------------------------------------------------------------------------
\* The engine's variables keep their types, whatever the limits: no history holds
\* anything but messages, and no request is tried more than MaxRetries + 1 times.
THEOREM TypeCorrect == Spec => []TypeOK
<1>1. Inv => TypeOK
  BY DEF Inv
<1> QED
  BY <1>1, InvAlways, PTL

\* After any failures, interrupts, lost saves, compactions and crashes, the provider is
\* only asked with a history in which calls and results are paired.
THEOREM RequestsPair == Spec => []RequestsArePaired
<1>1. Inv => RequestsArePaired
  <2> SUFFICES ASSUME Inv, pc \in Asking PROVE Paired(messages)
    BY DEF RequestsArePaired
  <2>1. Almost(messages) /\ Answered(messages) /\ messages \in Seq(Message)
    BY DEF Inv, TypeOK, HistoryInv, Asking
  <2> QED
    BY <2>1 DEF Paired, Almost, Answered
<1> QED
  BY <1>1, InvAlways, PTL

\* Retries never make the stored answer differ from the one that was shown.
THEOREM ShownStored == Spec => []ShownIsStored
<1>1. Inv => ShownIsStored
  BY DEF Inv, AnswerInv, ShownIsStored
<1> QED
  BY <1>1, InvAlways, PTL

=============================================================================
