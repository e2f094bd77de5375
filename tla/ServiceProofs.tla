---------------------------- MODULE ServiceProofs ----------------------------
(***************************************************************************)
(* Proofs about the services around the sessions.  Each part has its own   *)
(* specification and shares no variable with the others: an inductive      *)
(* invariant, a proof that it holds at first, one that every step keeps    *)
(* it, with a step per action, and the property that follows.              *)
(***************************************************************************)
EXTENDS MCServices, SequenceInduction, TLAPS, SequenceTheorems, FiniteSetTheorems

-----------------------------------------------------------------------------
(* Numbers and sequences.                                                  *)

\* A nonempty set of numbers has a least member.
LEMMA LeastOf ==
  ASSUME NEW T, T \subseteq Nat, T # {}
  PROVE  \E m \in T : \A k \in T : m <= k
<1> DEFINE R == {ss \in Nat \X Nat : ss[1] < ss[2]}
<1>1. IsWellFoundedOn(R, Nat)
  BY NatLessThanWellFounded, Zenon DEF OpToRel
<1> HIDE DEF R
<1>2. \E x \in T : \A y \in T : ~ (<<y, x>> \in R)
  BY <1>1, WFMin
<1>3. \A x, y \in Nat : y < x => <<y, x>> \in R
  BY DEF R
<1>4. PICK x \in T : \A y \in T : ~ (<<y, x>> \in R)
  BY <1>2
<1>5. ASSUME NEW y \in T PROVE x <= y
  <2>1. x \in Nat /\ y \in Nat /\ ~ (<<y, x>> \in R)
    BY <1>4
  <2>2. ~ (y < x)
    BY <1>3, <2>1
  <2> QED
    BY <2>1, <2>2
<1> QED
  BY <1>4, <1>5

\* The head and the tail of a sequence.
LEMMA TailEntries ==
  ASSUME NEW S, NEW s \in Seq(S), s # <<>>
  PROVE  /\ Tail(s) \in Seq(S) /\ Head(s) \in S /\ Head(s) = s[1] /\ 1 \in 1 .. Len(s)
         /\ Len(Tail(s)) = Len(s) - 1
         /\ \A i \in 1 .. Len(Tail(s)) : Tail(s)[i] = s[i + 1] /\ i + 1 \in 1 .. Len(s)
OBVIOUS

\* A sequence over a set is one over a larger set.
LEMMA SeqGrows ==
  ASSUME NEW S, NEW T, S \subseteq T, NEW s \in Seq(S)
  PROVE  s \in Seq(T)
OBVIOUS

\* The entries of a longer sequence.
LEMMA AppendEntries ==
  ASSUME NEW S, NEW s \in Seq(S), NEW e \in S
  PROVE  /\ Append(s, e) \in Seq(S) /\ Append(s, e) # <<>>
         /\ Len(Append(s, e)) = Len(s) + 1
         /\ \A i \in 1 .. Len(Append(s, e)) :
              Append(s, e)[i] = IF i = Len(s) + 1 THEN e ELSE s[i]
         /\ s # <<>> => Append(s, e)[1] = s[1]
         /\ s = <<>> => Append(s, e)[1] = e
<1>1. /\ Append(s, e) \in Seq(S) /\ Len(Append(s, e)) = Len(s) + 1
      /\ \A i \in 1 .. Len(s) : Append(s, e)[i] = s[i]
      /\ Append(s, e)[Len(s) + 1] = e
  BY AppendProperties
<1>2. Len(s) \in Nat /\ (s # <<>> => 1 \in 1 .. Len(s)) /\ (s = <<>> => Len(s) = 0)
  OBVIOUS
<1>3. Append(s, e) # <<>>
  BY <1>1, <1>2
<1> QED
  BY <1>1, <1>2, <1>3

-----------------------------------------------------------------------------
(* Permission.                                                             *)

AskLines == [id : Requests, kind : Kinds]
AskCommands == Prompts \cup Responses

\* The types the argument needs.
AskTypes ==
  /\ pending \in SUBSET Requests
  /\ commands \in Seq(AskCommands)
  /\ stdout \in Seq(AskLines)
  /\ given \in [Requests -> Seq(Given)]
  /\ card \in [Requests -> {"none", "open", "resolved"}]

\* What was answered had a card, and a card that is closed had its answer.
CardsTell ==
  /\ \A i \in 1 .. Len(commands) :
       commands[i].type = "response" => card[commands[i].id] # "none"
  /\ \A r \in Requests : card[r] = "resolved" => given[r] # <<>>

\* A request the actor has not read is untouched, and is there once.
UnreadAreFresh ==
  /\ \A i \in 1 .. Len(stdout) : card[stdout[i].id] = "none" /\ given[stdout[i].id] = <<>>
  /\ \A i, j \in 1 .. Len(stdout) : stdout[i].id = stdout[j].id => i = j

AskInv == AskTypes /\ CardsTell /\ UnreadAreFresh /\ WaitingIsShown /\ FirstAnswerFits

LEMMA AskInvInit == PermissionInit => AskInv
BY DEF PermissionInit, AskInv, AskTypes, CardsTell, UnreadAreFresh, WaitingIsShown,
       FirstAnswerFits

\* Every step keeps it.
LEMMA AskInvNext == AskInv /\ [PermissionNext]_permissionVars => AskInv'
<1> SUFFICES ASSUME AskInv, [PermissionNext]_permissionVars
             PROVE  AskInv'
  OBVIOUS
<1>t. AskTypes
  BY DEF AskInv
<1>1. ASSUME NEW caps \in SUBSET Groups, PromptWithCaps(caps)
      PROVE  AskInv'
  <2>1. [type |-> "user", caps |-> caps] \in AskCommands
        /\ [type |-> "user", caps |-> caps].type = "user"
    BY DEF Prompts, AskCommands
  <2>2. commands' = Append(commands, [type |-> "user", caps |-> caps])
    BY <1>1 DEF PromptWithCaps, Enqueue
  <2>3. AskTypes' /\ CardsTell'
    BY <1>1, <1>t, <2>1, <2>2, AppendEntries DEF PromptWithCaps, AskInv, AskTypes, CardsTell
  <2> QED
    BY <1>1, <2>3 DEF PromptWithCaps, AskInv, UnreadAreFresh, WaitingIsShown, FirstAnswerFits
<1>2. ASSUME NEW v \in Answerers, NEW r \in Requests, NEW reply \in Replies, Vote(v, r, reply)
      PROVE  AskInv'
  <2> DEFINE cmd == [type |-> "response", id |-> r, reply |-> reply]
  <2>1. cmd \in AskCommands /\ cmd.id = r
    BY DEF Responses, AskCommands
  <2>2. commands' = Append(commands, cmd) /\ card[r] # "none"
        /\ UNCHANGED <<stdout, pending, given, card, serving>>
    BY <1>2 DEF Vote, Enqueue
  <2> HIDE DEF cmd
  <2>3. AskTypes' /\ CardsTell'
    BY <1>t, <2>1, <2>2, AppendEntries DEF AskInv, AskTypes, CardsTell
  <2> QED
    BY <2>2, <2>3 DEF AskInv, UnreadAreFresh, WaitingIsShown, FirstAnswerFits
<1>3. ASSUME NEW r \in Requests, NEW kind \in Kinds, ChildAsks(r, kind)
      PROVE  AskInv'
  <2> DEFINE line == [id |-> r, kind |-> kind]
  <2>1. line \in AskLines /\ line.id = r
    BY DEF AskLines
  <2>2. /\ stdout' = Append(stdout, line)
        /\ given[r] = <<>> /\ card[r] = "none"
        /\ \A i \in 1 .. Len(stdout) : stdout[i].id # r
        /\ UNCHANGED <<commands, pending, given, card, serving>>
    BY <1>3 DEF ChildAsks
  <2> HIDE DEF line
  <2>3. Len(stdout) \in Nat /\ stdout \in Seq(AskLines)
    BY <1>t DEF AskTypes
  <2>4. AskTypes'
    BY <1>t, <2>1, <2>2, AppendEntries DEF AskTypes
  <2>5. UnreadAreFresh'
    BY <2>1, <2>2, <2>3, AppendEntries DEF AskInv, UnreadAreFresh
  <2> QED
    BY <2>2, <2>4, <2>5 DEF AskInv, CardsTell, WaitingIsShown, FirstAnswerFits
<1>4. CASE TakePrompt
  <2>1. commands # <<>> /\ commands' = Tail(commands)
        /\ UNCHANGED <<stdout, pending, given, card, serving>>
    BY <1>4 DEF TakePrompt
  <2>2. AskTypes' /\ CardsTell'
    BY <1>t, <2>1, TailEntries DEF AskInv, AskTypes, CardsTell
  <2> QED
    BY <2>1, <2>2 DEF AskInv, UnreadAreFresh, WaitingIsShown, FirstAnswerFits
<1>5. CASE TakeResponse
  <2> DEFINE r == Head(commands).id
             what == Told(Head(commands))
  <2>1. /\ commands # <<>> /\ Head(commands) \in Responses
        /\ commands' = Tail(commands)
        /\ pending' = pending \ {r}
        /\ given' = [given EXCEPT ![r] = Append(@, what)]
        /\ card' = [card EXCEPT ![r] = "resolved"]
        /\ serving /\ UNCHANGED <<stdout, serving>>
    <3>1. commands # <<>> /\ Head(commands).type = "response"
      BY <1>5 DEF TakeResponse
    <3>2. Head(commands) \in AskCommands
      BY <1>t, <3>1, TailEntries DEF AskTypes
    <3>3. Head(commands) \in Responses
      BY <3>1, <3>2 DEF Prompts, AskCommands
    <3> QED
      BY <1>5, <3>1, <3>3 DEF TakeResponse, Answer, CloseCard
  <2>a. commands \in Seq(AskCommands) /\ commands # <<>>
    BY <1>t, <2>1 DEF AskTypes
  <2>b. Head(commands) = commands[1] /\ 1 \in 1 .. Len(commands)
        /\ Head(commands).type = "response" /\ r \in Requests
    BY <2>1, <2>a, TailEntries DEF Responses
  <2>c. card[r] # "none"
    BY <2>b DEF AskInv, CardsTell
  <2>2. r \in Requests /\ what \in Given /\ card[r] # "none"
    BY <2>1, <2>b, <2>c DEF Responses, Replies, Told, Given
  <2>3. given[r] = <<>> => what # "empty"
    BY <2>1, <2>2, <1>t DEF AskInv, AskTypes, CardsTell, WaitingIsShown, Told, Responses, Replies
  <2> HIDE DEF r, what
  <2>4. given'[r] = Append(given[r], what) /\ given[r] \in Seq(Given)
    BY <1>t, <2>1, <2>2 DEF AskTypes
  <2>5. AskTypes'
    BY <1>t, <2>1, <2>2, <2>4, TailEntries, AppendEntries DEF AskTypes
  <2>6. CardsTell'
    <3>1. \A i \in 1 .. Len(commands') : \E j \in 1 .. Len(commands) : commands'[i] = commands[j]
      BY <2>1, <2>a, TailEntries
    <3>2. \A q \in Requests : card'[q] = IF q = r THEN "resolved" ELSE card[q]
      BY <1>t, <2>1 DEF AskTypes
    <3>3. \A i \in 1 .. Len(commands) : commands[i].type = "response" =>
             commands[i].id \in Requests
      BY <2>a DEF AskCommands, Prompts, Responses
    <3>4. given'[r] # <<>> /\ \A q \in Requests \ {r} : given'[q] = given[q]
      BY <1>t, <2>1, <2>2, <2>4, AppendEntries DEF AskTypes
    <3>5. \A i \in 1 .. Len(commands') :
               commands'[i].type = "response" => card'[commands'[i].id] # "none"
      <4>1. CardsTell
        BY DEF AskInv
      <4>2. \A j \in 1 .. Len(commands) :
              commands[j].type = "response" => card'[commands[j].id] # "none"
        BY <3>2, <3>3, <4>1 DEF CardsTell
      <4> QED
        BY <3>1, <4>2
    <3>6. \A q \in Requests : card'[q] = "resolved" => given'[q] # <<>>
      <4>1. CardsTell
        BY DEF AskInv
      <4> QED
        BY <3>2, <3>4, <4>1 DEF CardsTell
    <3> QED
      BY <3>5, <3>6 DEF CardsTell
  <2>7. UnreadAreFresh'
    <3>1. \A i \in 1 .. Len(stdout) : stdout[i].id # r
      BY <2>2 DEF AskInv, UnreadAreFresh
    <3>2. stdout \in Seq(AskLines)
      BY <1>t DEF AskTypes
    <3>3. \A i \in 1 .. Len(stdout) : stdout[i].id \in Requests
      <4>1. \A i \in 1 .. Len(stdout) : stdout[i] \in AskLines
        BY <3>2
      <4> QED
        BY <4>1 DEF AskLines
    <3> QED
      <4>1. \A q \in Requests \ {r} : card'[q] = card[q] /\ given'[q] = given[q]
        BY <1>t, <2>1 DEF AskTypes
      <4> QED
        BY <2>1, <3>1, <3>3, <4>1 DEF AskInv, UnreadAreFresh
  <2>8. WaitingIsShown'
    BY <1>t, <2>1, <2>2 DEF AskInv, AskTypes, WaitingIsShown
  <2>9. FirstAnswerFits'
    BY <1>t, <2>1, <2>2, <2>3, <2>4, AppendEntries DEF AskInv, AskTypes, FirstAnswerFits
  <2> QED
    BY <2>5, <2>6, <2>7, <2>8, <2>9 DEF AskInv
<1>6. ASSUME AutoApprove \/ AskViewers
      PROVE  AskInv'
  <2> DEFINE r == Head(stdout).id
  <2>1. stdout # <<>> /\ stdout' = Tail(stdout) /\ UNCHANGED <<commands, serving>>
    BY <1>6 DEF AutoApprove, AskViewers
  <2>a. stdout \in Seq(AskLines) /\ stdout # <<>>
    BY <1>t, <2>1 DEF AskTypes
  <2>b. Head(stdout) \in AskLines /\ Head(stdout) = stdout[1] /\ 1 \in 1 .. Len(stdout)
    BY <2>a, TailEntries
  <2>c. /\ Len(stdout') = Len(stdout) - 1 /\ Len(stdout) \in Nat
        /\ \A i \in 1 .. Len(stdout') : stdout'[i] = stdout[i + 1] /\ i + 1 \in 1 .. Len(stdout)
    BY <2>1, <2>a, TailEntries
  <2>2. r \in Requests /\ card[r] = "none" /\ given[r] = <<>>
    BY <2>b DEF AskLines, AskInv, UnreadAreFresh
  <2>3. \A i \in 1 .. Len(stdout') : stdout'[i].id # r /\ card[stdout'[i].id] = "none"
                                      /\ given[stdout'[i].id] = <<>>
    <3>1. UnreadAreFresh
      BY DEF AskInv
    <3>2. r = stdout[1].id
      BY <2>b
    <3> HIDE DEF r
    <3>3. ASSUME NEW i \in 1 .. Len(stdout')
          PROVE  stdout'[i].id # r /\ card[stdout'[i].id] = "none" /\ given[stdout'[i].id] = <<>>
      <4>1. stdout'[i] = stdout[i + 1] /\ i + 1 \in 1 .. Len(stdout) /\ i + 1 # 1
        BY <2>c
      <4> QED
        BY <2>b, <3>1, <3>2, <4>1 DEF UnreadAreFresh
    <3> QED BY <3>3
  <2>4. \A i, j \in 1 .. Len(stdout') : stdout'[i].id = stdout'[j].id => i = j
    <3>1. \A i, j \in 1 .. Len(stdout) : stdout[i].id = stdout[j].id => i = j
      BY DEF AskInv, UnreadAreFresh
    <3> HIDE DEF r
    <3>2. ASSUME NEW i \in 1 .. Len(stdout'), NEW j \in 1 .. Len(stdout'),
                 stdout'[i].id = stdout'[j].id
          PROVE  i = j
      <4>1. stdout'[i] = stdout[i + 1] /\ i + 1 \in 1 .. Len(stdout)
            /\ stdout'[j] = stdout[j + 1] /\ j + 1 \in 1 .. Len(stdout)
        BY <2>c
      <4>2. i + 1 = j + 1
        BY <3>1, <3>2, <4>1
      <4> QED
        BY <4>2
    <3> QED
      BY <3>2
  <2>5. stdout' \in Seq(AskLines)
    BY <1>t, <2>1, TailEntries DEF AskTypes
  <2>6. CASE AutoApprove
    <3>1. given' = [given EXCEPT ![r] = Append(@, "allow")] /\ UNCHANGED <<pending, card>>
      BY <2>6 DEF AutoApprove, Answer
    <3> HIDE DEF r
    <3>2. given'[r] = Append(given[r], "allow") /\ given[r] \in Seq(Given) /\ "allow" \in Given
      BY <1>t, <2>2, <3>1 DEF AskTypes, Given
    <3>3. AskTypes' /\ CardsTell'
      BY <1>t, <2>1, <2>2, <2>5, <3>1, <3>2, AppendEntries DEF AskInv, AskTypes, CardsTell
    <3>4. UnreadAreFresh'
      BY <1>t, <2>3, <2>4, <3>1, <2>2, <2>5 DEF AskTypes, UnreadAreFresh
    <3>5. WaitingIsShown'
      <4>1. /\ \A q \in Requests \ {r} : given'[q] = given[q]
            /\ UNCHANGED <<pending, card, serving>>
        BY <1>t, <2>1, <3>1 DEF AskTypes
      <4> QED
        BY <2>2, <4>1 DEF AskInv, WaitingIsShown
    <3>6. FirstAnswerFits'
      BY <1>t, <2>2, <3>1, <3>2, AppendEntries DEF AskInv, AskTypes, FirstAnswerFits
    <3> QED
      BY <3>3, <3>4, <3>5, <3>6 DEF AskInv
  <2>7. CASE AskViewers
    <3>1. pending' = pending \cup {r} /\ card' = [card EXCEPT ![r] = "open"] /\ UNCHANGED given
      BY <2>7 DEF AskViewers
    <3> HIDE DEF r
    <3>2. AskTypes'
      BY <1>t, <2>1, <2>2, <2>5, <3>1 DEF AskTypes
    <3>3. CardsTell'
      BY <1>t, <2>1, <2>2, <3>1 DEF AskInv, AskTypes, CardsTell
    <3>4. UnreadAreFresh'
      BY <1>t, <2>3, <2>4, <3>1, <2>2, <2>5 DEF AskTypes, UnreadAreFresh
    <3>5. WaitingIsShown'
      BY <1>t, <2>1, <2>2, <3>1 DEF AskInv, AskTypes, WaitingIsShown
    <3>6. FirstAnswerFits'
      BY <3>1 DEF AskInv, FirstAnswerFits
    <3> QED
      BY <3>2, <3>3, <3>4, <3>5, <3>6 DEF AskInv
  <2> QED
    BY <1>6, <2>6, <2>7
<1>7. CASE ServingEnds
  BY <1>t, <1>7 DEF ServingEnds, AskInv, AskTypes, CardsTell, UnreadAreFresh, WaitingIsShown,
              FirstAnswerFits
<1>8. CASE UNCHANGED permissionVars
  BY <1>t, <1>8 DEF permissionVars, AskInv, AskTypes, CardsTell, UnreadAreFresh, WaitingIsShown,
              FirstAnswerFits
<1>9. CASE SendToClosed
  BY <1>8, <1>9 DEF SendToClosed
<1> QED
  BY <1>1, <1>2, <1>3, <1>4, <1>5, <1>6, <1>7, <1>8, <1>9 DEF PermissionNext

\* For any requests, tool groups and viewers: the first answer a request gets fits it,
THEOREM FirstAnswersFit == PermissionSpec => []FirstAnswerFits
<1>1. AskInv => FirstAnswerFits
  BY DEF AskInv
<1> QED
  BY AskInvInit, AskInvNext, <1>1, PTL DEF PermissionSpec

\* and no open card hides an answer; while the actor runs the open cards are the requests
\* whose input it keeps.
THEOREM CardsAreTrue == PermissionSpec => []WaitingIsShown
<1>1. AskInv => WaitingIsShown
  BY DEF AskInv
<1> QED
  BY AskInvInit, AskInvNext, <1>1, PTL DEF PermissionSpec

-----------------------------------------------------------------------------
(* The side chat: names.                                                   *)

\* What a socket may ask for, or be called.
Asked == Wishes \cup {<<"guest", n>> : n \in Nat}

\* Numbered variants of a name differ.
LEMMA VariantsDiffer ==
  ASSUME NEW wanted \in Asked, NEW i \in Nat, NEW j \in Nat,
         Append(wanted, i) = Append(wanted, j)
  PROVE  i = j
<1>1. PICK S : wanted \in Seq(S) /\ Nat \subseteq S
  <2>1. CASE wanted \in Wishes
    <3> DEFINE S == {wanted[k] : k \in 1 .. Len(wanted)} \cup Nat
    <3>1. Len(wanted) \in Nat /\ wanted = [k \in 1 .. Len(wanted) |-> wanted[k]]
      BY <2>1, PartyAssumption
    <3>2. wanted \in [1 .. Len(wanted) -> S]
      BY <3>1
    <3>3. wanted \in Seq(S)
      BY <3>1, <3>2, SeqDef
    <3> QED BY <3>3
  <2>2. CASE wanted \in {<<"guest", n>> : n \in Nat}
    <3>1. PICK n \in Nat : wanted = <<"guest", n>>
      BY <2>2
    <3>2. "guest" \in {"guest"} \cup Nat /\ n \in {"guest"} \cup Nat
      OBVIOUS
    <3>3. wanted \in Seq({"guest"} \cup Nat)
      BY <3>1, <3>2
    <3> QED BY <3>3
  <2> QED BY <2>1, <2>2 DEF Asked
<1>2. Append(wanted, i)[Len(wanted) + 1] = i /\ Append(wanted, j)[Len(wanted) + 1] = j
  BY <1>1, AppendProperties
<1> QED
  BY <1>2

\* Among as many numbers as there are sockets one is free, and the name ends with it.
LEMMA UniqueIsFree ==
  ASSUME NEW g \in Guests, NEW wanted \in Asked
  PROVE  /\ \A h \in Guests \ {g} : names[h] # Unique(g, wanted)
         /\ Unique(g, wanted) = wanted \/ \E i \in Nat : Unique(g, wanted) = Append(wanted, i)
<1> DEFINE n == Cardinality(Guests)
           numbers == 2 .. n + 1
           free == {i \in numbers : ~Taken(g, Append(wanted, i))}
<1>1. n \in Nat /\ n > 0
  BY PartyAssumption, FS_CardinalityType, FS_EmptySet
<1>2. CASE ~Taken(g, wanted)
  BY <1>2 DEF Unique, Taken
<1>3. CASE Taken(g, wanted)
  <2>1. free # {}
    <3> SUFFICES ASSUME free = {} PROVE FALSE
      OBVIOUS
    <3> DEFINE f == [i \in numbers |-> CHOOSE h \in Guests \ {g} : names[h] = Append(wanted, i)]
    <3>1. \A i \in numbers : f[i] \in Guests \ {g} /\ names[f[i]] = Append(wanted, i)
      BY DEF Taken
    <3>2. f \in [numbers -> Guests \ {g}]
      BY <3>1
    <3>3. IsFiniteSet(numbers) /\ Cardinality(numbers) = n
      BY <1>1, FS_Interval
    <3>4. IsFiniteSet(Guests \ {g}) /\ Cardinality(Guests \ {g}) = n - 1
      BY PartyAssumption, FS_RemoveElement
    <3> HIDE DEF f
    <3>5. \E i, j \in numbers : i # j /\ f[i] = f[j]
      <4>1. Cardinality(Guests \ {g}) < Cardinality(numbers)
        BY <1>1, <3>3, <3>4
      <4> HIDE DEF numbers
      <4> QED
        BY <3>2, <3>3, <3>4, <4>1, FS_PigeonHole
    <3> QED
      BY <3>1, <3>5, VariantsDiffer
  <2> DEFINE least == CHOOSE i \in free : \A j \in free : i <= j
  <2>2. least \in free
    <3>1. free \subseteq Nat
      BY <1>1
    <3> HIDE DEF free
    <3>2. \E i \in free : \A j \in free : i <= j
      BY <2>1, <3>1, LeastOf
    <3> QED
      BY <3>2
  <2>3. Unique(g, wanted) = Append(wanted, least)
    BY <1>3 DEF Unique
  <2>4. least \in Nat
    BY <1>1, <2>2
  <2> HIDE DEF least
  <2> QED
    BY <2>2, <2>3, <2>4 DEF Taken
<1> QED
  BY <1>2, <1>3

\* The hub's names are apart, and a socket's own copy is the hub's.
NamesInv ==
  /\ guestSeq \in Nat
  /\ DOMAIN own = Guests /\ DOMAIN names = Guests
  /\ \A g, h \in Guests : g # h /\ names[g] # NoName => names[g] # names[h]
  /\ \A g \in Guests : own[g] # NoName => own[g] = names[g]

LEMMA ClaimKeeps ==
  ASSUME NamesInv, NEW g \in Guests, NEW wanted \in Asked, ClaimName(g, wanted), guestSeq' \in Nat
  PROVE  NamesInv'
<1> DEFINE name == Unique(g, wanted)
<1>1. names' = [names EXCEPT ![g] = name] /\ own' = [own EXCEPT ![g] = name]
  BY DEF ClaimName
<1>2. \A h \in Guests \ {g} : names[h] # name
  BY UniqueIsFree
<1> HIDE DEF name
<1>3. \A h \in Guests : /\ names'[h] = IF h = g THEN name ELSE names[h]
                        /\ own'[h] = IF h = g THEN name ELSE own[h]
  BY <1>1 DEF NamesInv
<1> QED
  BY <1>1, <1>2, <1>3 DEF NamesInv

LEMMA NamesInvNext == NamesInv /\ [PartyNext]_partyVars => NamesInv'
<1> SUFFICES ASSUME NamesInv, [PartyNext]_partyVars
             PROVE  NamesInv'
  OBVIOUS
<1>1. ASSUME NEW g \in Guests, NEW wanted \in Wishes, SetIdentity(g, wanted)
      PROVE  NamesInv'
  BY <1>1, ClaimKeeps DEF SetIdentity, Asked, NamesInv
<1>2. ASSUME NEW g \in Guests, ClearIdentity(g) \/ Leave(g)
      PROVE  NamesInv'
  BY <1>2 DEF ClearIdentity, Leave, NamesInv
<1>3. ASSUME UNCHANGED nameVars PROVE NamesInv'
  BY <1>3 DEF nameVars, NamesInv
<1>4. ASSUME NEW g \in Guests, Post(g)
      PROVE  NamesInv'
  <2>1. ResolveName(g)
    BY <1>4 DEF Post
  <2>2. CASE own[g] # NoName
    BY <1>3, <2>1, <2>2 DEF ResolveName
  <2>3. CASE own[g] = NoName
    <3>1. ClaimName(g, <<"guest", guestSeq>>) /\ guestSeq' = guestSeq + 1 /\ guestSeq \in Nat
      BY <2>1, <2>3 DEF ResolveName, NamesInv
    <3>2. <<"guest", guestSeq>> \in Asked
      BY <3>1 DEF Asked
    <3> QED
      BY <3>1, <3>2, ClaimKeeps
  <2> QED BY <2>2, <2>3
<1>5. ASSUME NEW g \in Guests,
             Subscribe(g) \/ History(g) \/ PostSend(g) \/ Hear(g) \/ HearLagged(g)
      PROVE  NamesInv'
  BY <1>3, <1>5 DEF Subscribe, History, PostSend, Hear, HearLagged
<1>6. CASE UNCHANGED partyVars
  BY <1>3, <1>6 DEF partyVars
<1> QED
  BY <1>1, <1>2, <1>4, <1>5, <1>6 DEF PartyNext

\* For any finite number of sockets and any names they ask for: no two people are known by
\* one name.
THEOREM NamesStayApart == PartySpec => []NamesAreApart
<1>1. PartyInit => NamesInv
  BY DEF PartyInit, NamesInv
<1>2. NamesInv => NamesAreApart
  BY DEF NamesInv, NamesAreApart
<1> QED
  BY <1>1, <1>2, NamesInvNext, PTL DEF PartySpec

-----------------------------------------------------------------------------
(* The side chat: talk.                                                    *)

\* The types the argument needs.
TalkTypes ==
  /\ place \in [Guests -> {"off", "joining", "on", "posting"}]
  /\ log \in Seq(Nat) /\ ring \in Seq(Nat) /\ posted \in Nat
  /\ saying \in [Guests -> Nat] /\ next \in [Guests -> Nat]
  /\ DOMAIN heard = Guests /\ lagged \in [Guests -> BOOLEAN]

\* Messages are numbers above 0, which is what a socket says that says nothing; no
\* receiver is beyond the end of the ring.
TalkShape ==
  /\ \A i \in 1 .. Len(log) : log[i] # 0
  /\ \A g \in Guests : place[g] # "posting" => saying[g] = 0
  /\ \A g \in Guests : next[g] >= 1 /\ next[g] <= Len(ring) + 1

\* A message of the log was heard, or is about to be sent, or is ahead on the ring.
Reaches(g, m) ==
  \/ m \in heard[g]
  \/ \E h \in Guests : saying[h] = m
  \/ \E j \in next[g] .. Len(ring) : ring[j] = m
AllReach ==
  \A g \in Guests :
    place[g] \in {"on", "posting"} /\ ~lagged[g] =>
      \A i \in 1 .. Len(log) : Reaches(g, log[i])

TalkInv == TalkTypes /\ TalkShape /\ AllReach

\* What the log keeps it held before, or was just put there.
LEMMA KeepEntries ==
  ASSUME NEW l \in Seq(Nat), NEW m \in Nat
  PROVE  /\ Keep(Append(l, m)) \in Seq(Nat)
         /\ \A i \in 1 .. Len(Keep(Append(l, m))) :
              \/ Keep(Append(l, m))[i] = m
              \/ \E k \in 1 .. Len(l) : Keep(Append(l, m))[i] = l[k]
<1> DEFINE a == Append(l, m)
<1>1. /\ a \in Seq(Nat) /\ a # <<>> /\ Len(a) = Len(l) + 1 /\ Len(l) \in Nat
      /\ \A i \in 1 .. Len(a) : a[i] = IF i = Len(l) + 1 THEN m ELSE l[i]
  BY AppendEntries
<1> HIDE DEF a
<1>2. \A i \in 1 .. Len(a) : a[i] = m \/ \E k \in 1 .. Len(l) : a[i] = l[k]
  BY <1>1
<1>3. CASE Len(a) > LogMax
  <2>1. Keep(a) = Tail(a)
    BY <1>3 DEF Keep
  <2>2. Tail(a) \in Seq(Nat) /\ \A i \in 1 .. Len(Tail(a)) : Tail(a)[i] = a[i + 1] /\ i + 1 \in 1 .. Len(a)
    BY <1>1, TailEntries
  <2> QED BY <1>2, <2>1, <2>2 DEF a
<1>4. CASE ~(Len(a) > LogMax)
  BY <1>1, <1>2, <1>4 DEF Keep, a
<1> QED BY <1>3, <1>4

LEMMA TalkInvNext == TalkInv /\ [PartyNext]_partyVars => TalkInv'
<1> SUFFICES ASSUME TalkInv, [PartyNext]_partyVars
             PROVE  TalkInv'
  OBVIOUS
<1>t. TalkTypes /\ TalkShape /\ AllReach
  BY DEF TalkInv
<1>n. Len(ring) \in Nat /\ Len(log) \in Nat
  BY <1>t DEF TalkTypes
<1>1. ASSUME UNCHANGED <<place, chatVars>> PROVE TalkInv'
  BY <1>t, <1>1 DEF chatVars, TalkInv, TalkTypes, TalkShape, AllReach, Reaches
<1>2. ASSUME NEW g \in Guests, (\E wanted \in Wishes : SetIdentity(g, wanted)) \/ ClearIdentity(g)
      PROVE  TalkInv'
  BY <1>1, <1>2 DEF SetIdentity, ClearIdentity
<1>3. ASSUME NEW g \in Guests, Subscribe(g)
      PROVE  TalkInv'
  <2>1. /\ place[g] = "off" /\ place' = [place EXCEPT ![g] = "joining"]
        /\ next' = [next EXCEPT ![g] = Len(ring) + 1]
        /\ heard' = [heard EXCEPT ![g] = {}] /\ lagged' = [lagged EXCEPT ![g] = FALSE]
        /\ UNCHANGED <<log, ring, posted, saying>>
    BY <1>3 DEF Subscribe
  <2>2. TalkTypes' /\ TalkShape'
    BY <1>t, <1>n, <2>1 DEF TalkTypes, TalkShape
  <2>3. \A h \in Guests \ {g} : place'[h] = place[h] /\ next'[h] = next[h] /\ heard'[h] = heard[h]
                                 /\ lagged'[h] = lagged[h]
    BY <1>t, <2>1 DEF TalkTypes
  <2>4. place'[g] = "joining"
    BY <1>t, <2>1 DEF TalkTypes
  <2>5. AllReach'
    BY <1>t, <2>1, <2>3, <2>4 DEF AllReach, Reaches
  <2> QED BY <2>2, <2>5 DEF TalkInv
<1>4. ASSUME NEW g \in Guests, History(g)
      PROVE  TalkInv'
  <2>1. /\ place[g] = "joining" /\ place' = [place EXCEPT ![g] = "on"]
        /\ heard' = [heard EXCEPT ![g] = Range(log)]
        /\ UNCHANGED <<log, ring, posted, saying, next, lagged>>
    BY <1>4 DEF History
  <2>2. TalkTypes' /\ TalkShape'
    BY <1>t, <2>1 DEF TalkTypes, TalkShape
  <2>3. \A h \in Guests \ {g} : place'[h] = place[h] /\ heard'[h] = heard[h]
    BY <1>t, <2>1 DEF TalkTypes
  <2>4. \A i \in 1 .. Len(log) : log[i] \in heard'[g]
    BY <1>t, <2>1 DEF TalkTypes, Range
  <2>5. AllReach'
    BY <1>t, <2>1, <2>3, <2>4 DEF AllReach, Reaches
  <2> QED BY <2>2, <2>5 DEF TalkInv
<1>5. ASSUME NEW g \in Guests, Post(g)
      PROVE  TalkInv'
  <2> DEFINE m == posted + 1
  <2>1. /\ place[g] = "on" /\ posted' = m /\ log' = Keep(Append(log, m))
        /\ saying' = [saying EXCEPT ![g] = m] /\ place' = [place EXCEPT ![g] = "posting"]
        /\ UNCHANGED <<ring, next, heard, lagged>>
    BY <1>5 DEF Post
  <2>2. m \in Nat /\ m # 0
    BY <1>t DEF TalkTypes
  <2> HIDE DEF m
  <2>3. /\ log' \in Seq(Nat)
        /\ \A i \in 1 .. Len(log') : log'[i] = m \/ \E k \in 1 .. Len(log) : log'[i] = log[k]
    BY <1>t, <2>1, <2>2, KeepEntries DEF TalkTypes
  <2>4. /\ \A h \in Guests : saying'[h] = IF h = g THEN m ELSE saying[h]
        /\ \A h \in Guests : place'[h] = IF h = g THEN "posting" ELSE place[h]
    BY <1>t, <2>1 DEF TalkTypes
  <2>5. saying[g] = 0
    BY <1>t, <2>1 DEF TalkShape
  <2>6. TalkTypes' /\ TalkShape'
    <3>1. saying' \in [Guests -> Nat] /\ place' \in [Guests -> {"off", "joining", "on", "posting"}]
      BY <1>t, <2>1, <2>2 DEF TalkTypes
    <3>2. TalkTypes'
      BY <1>t, <2>1, <2>2, <2>3, <3>1 DEF TalkTypes
    <3>3. \A i \in 1 .. Len(log') : log'[i] # 0
      BY <1>t, <2>2, <2>3 DEF TalkShape
    <3> QED
      BY <1>t, <2>1, <2>4, <3>2, <3>3 DEF TalkShape
  <2>7. \A h \in Guests, x \in Nat \ {0} : Reaches(h, x) \/ x = m =>
          \/ x \in heard'[h]
          \/ \E q \in Guests : saying'[q] = x
          \/ \E j \in next'[h] .. Len(ring') : ring'[j] = x
    BY <2>1, <2>4, <2>5 DEF Reaches
  <2>8. \A h \in Guests : place'[h] \in {"on", "posting"} /\ ~lagged'[h] =>
          \A i \in 1 .. Len(log') : log'[i] \in Nat \ {0} /\ (Reaches(h, log'[i]) \/ log'[i] = m)
    <3> SUFFICES ASSUME NEW h \in Guests, place'[h] \in {"on", "posting"}, ~lagged'[h],
                        NEW i \in 1 .. Len(log')
                 PROVE  log'[i] \in Nat \ {0} /\ (Reaches(h, log'[i]) \/ log'[i] = m)
      OBVIOUS
    <3>1. place[h] \in {"on", "posting"} /\ ~lagged[h]
      BY <2>1, <2>4
    <3>2. \A k \in 1 .. Len(log) : Reaches(h, log[k])
      <4>1. AllReach
        BY <1>t
      <4> QED BY <3>1, <4>1 DEF AllReach
    <3>3. \A k \in 1 .. Len(log) : log[k] \in Nat \ {0}
      BY <1>t, SMTT(30) DEF TalkTypes, TalkShape
    <3> QED
      BY <2>2, <2>3, <3>2, <3>3
  <2>9. AllReach'
    BY <2>7, <2>8 DEF AllReach, Reaches
  <2> QED BY <2>6, <2>9 DEF TalkInv
<1>6. ASSUME NEW g \in Guests, PostSend(g)
      PROVE  TalkInv'
  <2>1. /\ place[g] = "posting" /\ ring' = Append(ring, saying[g])
        /\ saying' = [saying EXCEPT ![g] = 0] /\ place' = [place EXCEPT ![g] = "on"]
        /\ UNCHANGED <<log, posted, next, heard, lagged>>
    BY <1>6 DEF PostSend
  <2>2. /\ ring' \in Seq(Nat) /\ Len(ring') = Len(ring) + 1 /\ ring'[Len(ring) + 1] = saying[g]
        /\ \A j \in 1 .. Len(ring) : ring'[j] = ring[j]
    <3>1. saying[g] \in Nat /\ ring \in Seq(Nat)
      BY <1>t DEF TalkTypes
    <3> QED BY <1>n, <2>1, <3>1, AppendProperties
  <2>4. /\ \A h \in Guests : saying'[h] = IF h = g THEN 0 ELSE saying[h]
        /\ \A h \in Guests : place'[h] = IF h = g THEN "on" ELSE place[h]
    BY <1>t, <2>1 DEF TalkTypes
  <2>5. \A h \in Guests : next[h] \in Nat /\ next[h] >= 1 /\ next[h] <= Len(ring) + 1
    BY <1>t DEF TalkTypes, TalkShape
  <2>6. TalkTypes' /\ TalkShape'
    BY <1>t, <1>n, <2>1, <2>2, <2>4, <2>5 DEF TalkTypes, TalkShape
  <2>7. \A h \in Guests, x \in Nat \ {0} : Reaches(h, x) =>
          \/ x \in heard'[h]
          \/ \E q \in Guests : saying'[q] = x
          \/ \E j \in next'[h] .. Len(ring') : ring'[j] = x
    <3> SUFFICES ASSUME NEW h \in Guests, NEW x \in Nat \ {0}, Reaches(h, x)
                 PROVE  \/ x \in heard'[h]
                        \/ \E q \in Guests : saying'[q] = x
                        \/ \E j \in next'[h] .. Len(ring') : ring'[j] = x
      OBVIOUS
    <3>1. CASE x \in heard[h]
      BY <2>1, <3>1
    <3>2. CASE saying[g] = x
      <4>1. Len(ring) + 1 \in next'[h] .. Len(ring')
        BY <1>n, <2>1, <2>2, <2>5
      <4> QED BY <2>2, <3>2, <4>1
    <3>3. ASSUME NEW q \in Guests, q # g, saying[q] = x
          PROVE  \E p \in Guests : saying'[p] = x
      BY <2>4, <3>3
    <3>4. ASSUME NEW j \in next[h] .. Len(ring), ring[j] = x
          PROVE  \E i \in next'[h] .. Len(ring') : ring'[i] = x
      <4>1. j \in 1 .. Len(ring) /\ j \in next'[h] .. Len(ring')
        BY <1>n, <2>1, <2>2, <2>5
      <4> QED BY <2>2, <3>4, <4>1
    <3> QED BY <3>1, <3>2, <3>3, <3>4 DEF Reaches
  <2>8. AllReach'
    <3>1. \A i \in 1 .. Len(log) : log[i] \in Nat \ {0}
      BY <1>t DEF TalkTypes, TalkShape
    <3>2. \A h \in Guests : place'[h] \in {"on", "posting"} /\ ~lagged'[h] =>
            \A i \in 1 .. Len(log) : Reaches(h, log[i])
      BY <1>t, <2>1, <2>4 DEF AllReach
    <3>3. \A h \in Guests : place'[h] \in {"on", "posting"} /\ ~lagged'[h] =>
            \A i \in 1 .. Len(log') :
              \/ log'[i] \in heard'[h]
              \/ \E q \in Guests : saying'[q] = log'[i]
              \/ \E j \in next'[h] .. Len(ring') : ring'[j] = log'[i]
      <4> SUFFICES ASSUME NEW h \in Guests, place'[h] \in {"on", "posting"}, ~lagged'[h],
                          NEW i \in 1 .. Len(log')
                   PROVE  \/ log'[i] \in heard'[h]
                          \/ \E q \in Guests : saying'[q] = log'[i]
                          \/ \E j \in next'[h] .. Len(ring') : ring'[j] = log'[i]
        OBVIOUS
      <4>1. log' = log /\ i \in 1 .. Len(log)
        BY <2>1
      <4>2. log[i] \in Nat \ {0} /\ Reaches(h, log[i])
        BY <3>1, <3>2, <4>1
      <4>3. PICK x \in Nat \ {0} : x = log[i] /\ Reaches(h, x)
        BY <4>2
      <4>4. \/ x \in heard'[h]
            \/ \E q \in Guests : saying'[q] = x
            \/ \E j \in next'[h] .. Len(ring') : ring'[j] = x
        BY <2>7, <4>3
      <4> QED
        BY <4>1, <4>3, <4>4
    <3> QED
      BY <3>3 DEF AllReach, Reaches
  <2> QED BY <2>6, <2>8 DEF TalkInv
<1>7. ASSUME NEW g \in Guests, Hear(g)
      PROVE  TalkInv'
  <2>1. /\ place[g] = "on" /\ next[g] <= Len(ring)
        /\ heard' = [heard EXCEPT ![g] = @ \cup {ring[next[g]]}]
        /\ next' = [next EXCEPT ![g] = @ + 1]
        /\ UNCHANGED <<place, log, ring, posted, saying, lagged>>
    BY <1>7 DEF Hear
  <2>2. next[g] \in Nat /\ next[g] >= 1
    BY <1>t DEF TalkTypes, TalkShape
  <2>3. TalkTypes' /\ TalkShape'
    BY <1>t, <1>n, <2>1, <2>2 DEF TalkTypes, TalkShape
  <2>4. \A h \in Guests : /\ heard'[h] = IF h = g THEN heard[g] \cup {ring[next[g]]} ELSE heard[h]
                          /\ next'[h] = IF h = g THEN next[g] + 1 ELSE next[h]
    BY <1>t, <2>1 DEF TalkTypes
  <2>5. \A j \in next[g] .. Len(ring) : j = next[g] \/ j \in next[g] + 1 .. Len(ring)
    BY <1>n, <2>2
  <2>6. AllReach'
    BY <1>t, <2>1, <2>4, <2>5 DEF AllReach, Reaches
  <2> QED BY <2>3, <2>6 DEF TalkInv
<1>8. ASSUME NEW g \in Guests, HearLagged(g)
      PROVE  TalkInv'
  <2>1. /\ next' = [next EXCEPT ![g] = OldestOnRing] /\ lagged' = [lagged EXCEPT ![g] = TRUE]
        /\ UNCHANGED <<place, log, ring, posted, saying, heard>>
    BY <1>8 DEF HearLagged
  <2>2. OldestOnRing \in Nat /\ OldestOnRing >= 1 /\ OldestOnRing <= Len(ring) + 1
    BY <1>n, PartyAssumption DEF OldestOnRing
  <2>3. TalkTypes' /\ TalkShape'
    BY <1>t, <2>1, <2>2 DEF TalkTypes, TalkShape
  <2>4. \A h \in Guests : (~lagged'[h] => h # g /\ ~lagged[h]) /\ (h # g => next'[h] = next[h])
    BY <1>t, <2>1 DEF TalkTypes
  <2>5. AllReach'
    BY <1>t, <2>1, <2>4 DEF AllReach, Reaches
  <2> QED BY <2>3, <2>5 DEF TalkInv
<1>9. ASSUME NEW g \in Guests, Leave(g)
      PROVE  TalkInv'
  <2>1. place[g] = "on" /\ place' = [place EXCEPT ![g] = "off"] /\ UNCHANGED chatVars
    BY <1>9 DEF Leave
  <2>2. \A h \in Guests : place'[h] = IF h = g THEN "off" ELSE place[h]
    BY <1>t, <2>1 DEF TalkTypes
  <2>3. TalkTypes' /\ TalkShape'
    BY <1>t, <2>1, <2>2 DEF TalkTypes, TalkShape, chatVars
  <2>4. AllReach'
    BY <1>t, <2>1, <2>2 DEF AllReach, Reaches, chatVars
  <2> QED BY <2>3, <2>4 DEF TalkInv
<1>10. CASE UNCHANGED partyVars
  BY <1>1, <1>10 DEF partyVars
<1> QED
  BY <1>2, <1>3, <1>4, <1>5, <1>6, <1>7, <1>8, <1>9, <1>10 DEF PartyNext

\* For any sockets, log and ring: who has read the ring has got every message of the log
\* that was sent.
THEOREM JoinedHear == PartySpec => []JoinedHearAll
<1>1. PartyInit => TalkInv
  BY DEF PartyInit, TalkInv, TalkTypes, TalkShape, AllReach
<1>2. TalkInv => JoinedHearAll
  <2> SUFFICES ASSUME TalkInv, NEW g \in Guests, place[g] \in {"on", "posting"},
                      next[g] = Len(ring) + 1, ~lagged[g], NEW m \in Range(log) \ Range(saying)
               PROVE  m \in heard[g]
    BY DEF JoinedHearAll
  <2>1. PICK i \in 1 .. Len(log) : log[i] = m
    <3>1. m \in Range(log)
      OBVIOUS
    <3>2. PICK i \in DOMAIN log : log[i] = m
      BY <3>1, Zenon DEF Range
    <3>3. DOMAIN log = 1 .. Len(log)
      BY DEF TalkInv, TalkTypes
    <3> QED
      BY <3>2, <3>3, Zenon
  <2>2. Reaches(g, log[i])
    BY DEF TalkInv, AllReach
  <2>3. \A h \in Guests : saying[h] # m
    BY DEF TalkInv, TalkTypes, Range
  <2>4. next[g] .. Len(ring) = {}
    BY DEF TalkInv, TalkTypes
  <2> QED
    BY <2>1, <2>2, <2>3, <2>4 DEF Reaches
<1> QED
  BY <1>1, <1>2, TalkInvNext, PTL DEF PartySpec

-----------------------------------------------------------------------------
(* The rate limiters.                                                      *)

\* How late a reading of the clock may be used.
Slack(b) == IF b[1] = "socket" THEN 0 ELSE Delay

LEMMA BucketConstants ==
  ASSUME NEW b \in Buckets
  PROVE  /\ Budget(b) \in Nat /\ Budget(b) > 0
         /\ Window(b) \in Nat /\ Slack(b) \in Nat
         /\ Stale \in Nat /\ (b \in HttpBuckets => Window(b) = HttpWindow) /\ Stale > HttpWindow
BY LimitsAssumption DEF Buckets, HttpBuckets, Budget, Window, Slack

\* The hits of a bucket are the readings of the last requests it let through, which it may
\* have taken late; those before them went out of the window; and the requests that are
\* kept are in order, the first of more than the budget out of the last one's stretch.
Fits(b, h, a, t) ==
  LET gone == Len(a) - Len(h) IN
  /\ h \in Seq(Int) /\ a \in Seq(Int) /\ t \in Int
  /\ gone >= 0 /\ Len(h) <= Budget(b) /\ Len(a) <= Budget(b) + 1
  /\ \A k \in 1 .. Len(h) : a[gone + k] - Slack(b) <= h[k]
  /\ \A k \in 1 .. gone : t - a[k] > Window(b) - Slack(b)
  /\ \A i, j \in 1 .. Len(a) : i <= j => a[i] <= a[j]
  /\ \A i \in 1 .. Len(a) : a[i] <= t
  /\ Len(a) = Budget(b) + 1 => a[Budget(b) + 1] - a[1] > Window(b) - Slack(b)

\* What leaves from the front has gone out of the window.
LEMMA DropKeeps ==
  ASSUME NEW b \in Buckets, NEW h, NEW a, NEW t, Fits(b, h, a, t),
         NEW rest, NEW n \in 0 .. Len(h), rest \in Seq(Int), Len(rest) = Len(h) - n,
         \A k \in 1 .. Len(rest) : rest[k] = h[n + k],
         \A k \in 1 .. n : t - h[k] > Window(b)
  PROVE  Fits(b, rest, a, t)
<1> DEFINE gone == Len(a) - Len(h)
           more == Len(a) - Len(rest)
<1>1. /\ Len(h) \in Nat /\ Len(a) \in Nat /\ Len(rest) \in Nat /\ more = gone + n /\ gone \in Nat
      /\ n \in Nat
  BY DEF Fits
<1>2. \A k \in 1 .. Len(rest) : a[more + k] - Slack(b) <= rest[k]
  <2>1. \A k \in 1 .. Len(rest) : n + k \in 1 .. Len(h) /\ gone + (n + k) = more + k
    BY <1>1
  <2> QED
    BY <2>1 DEF Fits
<1>3. \A k \in 1 .. more : t - a[k] > Window(b) - Slack(b)
  <2> SUFFICES ASSUME NEW k \in 1 .. more PROVE t - a[k] > Window(b) - Slack(b)
    OBVIOUS
  <2>1. CASE k <= gone
    BY <1>1, <2>1 DEF Fits
  <2>2. CASE k > gone
    <3>1. k - gone \in 1 .. n /\ k - gone \in 1 .. Len(h) /\ gone + (k - gone) = k /\ k \in 1 .. Len(a)
      BY <1>1, <2>2
    <3>2. a[k] - Slack(b) <= h[k - gone] /\ t - h[k - gone] > Window(b)
      BY <3>1 DEF Fits
    <3>3. a \in Seq(Int) /\ h \in Seq(Int) /\ t \in Int
      BY DEF Fits
    <3> DEFINE ak == a[k]
               hk == h[k - gone]
               slack == Slack(b)
               window == Window(b)
    <3>4. ak \in Int /\ hk \in Int /\ slack \in Nat /\ window \in Nat
      <4>1. a[k] \in Int /\ h[k - gone] \in Int
        <5>1. (\A i \in 1 .. Len(a) : a[i] \in Int) /\ (\A i \in 1 .. Len(h) : h[i] \in Int)
          BY <3>3
        <5>2. a[k] \in Int
          BY <3>1, <5>1
        <5>3. h[k - gone] \in Int
          BY <3>1, <5>1
        <5> QED BY <5>2, <5>3
      <4> QED BY <4>1, BucketConstants
    <3>5. ak - slack <= hk /\ t - hk > window
      BY <3>2
    <3> HIDE DEF ak, hk, slack, window
    <3>6. t - ak > window - slack
      BY <3>3, <3>4, <3>5
    <3> QED
      BY <3>6 DEF ak, slack, window
  <2> QED BY <1>1, <2>1, <2>2
<1>4. /\ h \in Seq(Int) /\ a \in Seq(Int) /\ t \in Int
      /\ Len(h) <= Budget(b) /\ Len(a) <= Budget(b) + 1
      /\ \A i, j \in 1 .. Len(a) : i <= j => a[i] <= a[j]
      /\ \A i \in 1 .. Len(a) : a[i] <= t
      /\ Len(a) = Budget(b) + 1 => a[Budget(b) + 1] - a[1] > Window(b) - Slack(b)
  BY DEF Fits
<1>5. Len(a) - Len(rest) >= 0 /\ Len(rest) <= Budget(b)
  BY <1>1, <1>4, BucketConstants
<1> QED
  BY <1>2, <1>3, <1>4, <1>5 DEF Fits

LEMMA TrimKeeps ==
  ASSUME NEW b \in Buckets, NEW h, NEW a, NEW t, Fits(b, h, a, t), NEW reading \in Int, reading <= t
  PROVE  Fits(b, Trim(h, reading, Window(b)), a, t)
<1> DEFINE live == {i \in 1 .. Len(h) : reading - h[i] <= Window(b)}
           first == CHOOSE i \in live : \A j \in live : i <= j
<1>1. Len(h) \in Nat /\ h \in Seq(Int) /\ t \in Int /\ Window(b) \in Int
  BY BucketConstants DEF Fits
<1>2. \A k \in 1 .. Len(h) : k \notin live => t - h[k] > Window(b)
  <2> SUFFICES ASSUME NEW k \in 1 .. Len(h), k \notin live PROVE t - h[k] > Window(b)
    OBVIOUS
  <2>1. h[k] \in Int /\ ~(reading - h[k] <= Window(b))
    BY <1>1
  <2> QED
    BY <1>1, <2>1
<1>3. CASE live = {}
  <2>1. Trim(h, reading, Window(b)) = <<>>
    BY <1>3 DEF Trim
  <2>2. <<>> \in Seq(Int) /\ Len(<<>>) = 0 /\ Len(h) \in 0 .. Len(h) /\ Len(h) - Len(h) = 0
    BY <1>1
  <2>3. \A k \in 1 .. Len(h) : t - h[k] > Window(b)
    BY <1>2, <1>3
  <2> HIDE DEF live
  <2>4. \A k \in 1 .. Len(<<>>) : <<>>[k] = h[Len(h) + k]
    BY <2>2
  <2> QED
    BY <2>1, <2>2, <2>3, <2>4, DropKeeps
<1>4. CASE live # {}
  <2>1. first \in live /\ \A j \in live : first <= j
    <3>1. live \subseteq Nat
      BY <1>1
    <3> HIDE DEF live
    <3>2. \E i \in live : \A j \in live : i <= j
      BY <1>4, <3>1, LeastOf
    <3> QED BY <3>2
  <2>2. Trim(h, reading, Window(b)) = SubSeq(h, first, Len(h))
    BY <1>4 DEF Trim
  <2>3. first \in 1 .. Len(h)
    BY <2>1
  <2> DEFINE rest == SubSeq(h, first, Len(h))
             n == first - 1
  <2>4. \A k \in 1 .. n : t - h[k] > Window(b)
    <3>1. \A k \in 1 .. n : k \in 1 .. Len(h) /\ k \notin live
      <4> SUFFICES ASSUME NEW k \in 1 .. n PROVE k \in 1 .. Len(h) /\ k \notin live
        OBVIOUS
      <4>1. k \in Nat /\ k < first /\ k \in 1 .. Len(h)
        BY <1>1, <2>3
      <4> HIDE DEF live, first
      <4>2. k \in live => first <= k
        BY <2>1
      <4> QED BY <1>1, <2>3, <4>1, <4>2
    <3> QED BY <1>2, <3>1
  <2> HIDE DEF first
  <2>5. /\ rest \in Seq(Int) /\ Len(rest) = Len(h) - n
        /\ \A k \in 1 .. Len(rest) : rest[k] = h[n + k]
    <3>1. \A i \in first .. Len(h) : h[i] \in Int
      BY <1>1, <2>3
    <3>2. /\ rest \in Seq(Int) /\ Len(rest) = Len(h) - first + 1
          /\ \A i \in 1 .. Len(h) - first + 1 : rest[i] = h[first + i - 1]
      BY <1>1, <2>3, <3>1, SubSeqProperties
    <3>3. Len(h) - first + 1 = Len(h) - n
          /\ \A i \in 1 .. Len(h) - first + 1 : first + i - 1 = n + i
      BY <1>1, <2>3
    <3> QED BY <3>2, <3>3
  <2>6. n \in 0 .. Len(h)
    BY <1>1, <2>3
  <2> HIDE DEF rest, n
  <2>7. Fits(b, rest, a, t)
    BY <2>4, <2>5, <2>6, DropKeeps
  <2> QED
    BY <2>2, <2>7 DEF rest
<1> QED
  BY <1>3, <1>4

\* A key that the sweep drops has no hit in the window: its last hit is stale, and the
\* requests before it were let through no later.
LEMMA SweepKeeps ==
  ASSUME NEW b \in HttpBuckets, NEW h, NEW a, NEW t, Fits(b, h, a, t), h # <<>>,
         NEW reading \in Int, reading <= t, reading - Last(h) >= Stale
  PROVE  Fits(b, <<>>, a, t)
<1>1. Len(h) \in Nat /\ Len(h) > 0 /\ Len(a) \in Nat /\ Len(a) >= Len(h)
      /\ h \in Seq(Int) /\ a \in Seq(Int) /\ t \in Int /\ b \in Buckets
  BY DEF Fits, Buckets, HttpBuckets
<1>2. Last(h) = h[Len(h)] /\ h[Len(h)] \in Int /\ a[Len(a)] \in Int
  BY <1>1 DEF Last
<1>3. a[Len(a)] - Slack(b) <= h[Len(h)]
  <2>1. Len(h) \in 1 .. Len(h) /\ (Len(a) - Len(h)) + Len(h) = Len(a)
    BY <1>1
  <2> QED BY <2>1 DEF Fits
<1>4. \A k \in 1 .. Len(a) : t - a[k] > Window(b) - Slack(b)
  <2> SUFFICES ASSUME NEW k \in 1 .. Len(a) PROVE t - a[k] > Window(b) - Slack(b)
    OBVIOUS
  <2>1. a[k] \in Int /\ a[k] <= a[Len(a)]
    <3>1. Len(a) \in 1 .. Len(a) /\ k <= Len(a)
      BY <1>1
    <3> QED BY <1>1, <3>1 DEF Fits
  <2>2. /\ Window(b) \in Nat /\ Slack(b) \in Nat /\ Stale \in Nat /\ Stale > Window(b)
    BY <1>1, BucketConstants
  <2> DEFINE last == h[Len(h)]
             final == a[Len(a)]
             each == a[k]
             slack == Slack(b)
             window == Window(b)
  <2>3. /\ last \in Int /\ final \in Int /\ each \in Int /\ slack \in Nat /\ window \in Nat
        /\ reading - last >= Stale /\ final - slack <= last /\ each <= final /\ Stale > window
    BY <1>2, <1>3, <2>1, <2>2
  <2> HIDE DEF last, final, each, slack, window
  <2>4. t - each > window - slack
    BY <1>1, <2>2, <2>3
  <2> QED
    BY <2>4 DEF each, slack, window
<1>5. <<>> \in Seq(Int) /\ Len(<<>>) = 0
  OBVIOUS
<1>6. Budget(b) \in Nat
  BY <1>1, BucketConstants
<1> QED
  BY <1>1, <1>4, <1>5, <1>6 DEF Fits

\* A request that is let through.
LEMMA AcceptKeeps ==
  ASSUME NEW b \in Buckets, NEW h, NEW a, NEW t, Fits(b, h, a, t), Len(h) < Budget(b),
         NEW reading \in Int, reading >= t - Slack(b)
  PROVE  Fits(b, Append(h, reading), Recent(b, Append(a, t)), t)
<1> DEFINE h2 == Append(h, reading)
           a2 == Append(a, t)
           B == Budget(b)
<1>1. /\ Len(h) \in Nat /\ Len(a) \in Nat /\ h \in Seq(Int) /\ a \in Seq(Int) /\ t \in Int
      /\ Len(a) >= Len(h) /\ Len(a) <= B + 1
  BY DEF Fits
<1>2. B \in Nat /\ B > 0 /\ Window(b) \in Nat /\ Slack(b) \in Nat
  BY BucketConstants
<1>3. /\ h2 \in Seq(Int) /\ Len(h2) = Len(h) + 1
      /\ \A k \in 1 .. Len(h2) : h2[k] = IF k = Len(h) + 1 THEN reading ELSE h[k]
  BY <1>1, AppendEntries
<1>4. /\ a2 \in Seq(Int) /\ Len(a2) = Len(a) + 1 /\ a2 # <<>>
      /\ \A k \in 1 .. Len(a2) : a2[k] = IF k = Len(a) + 1 THEN t ELSE a[k]
  <2>1. a \in Seq(Int) /\ t \in Int
    BY <1>1
  <2> QED BY <2>1, AppendEntries
<1>5. \A k \in 1 .. Len(h2) : a2[(Len(a) - Len(h)) + k] - Slack(b) <= h2[k]
  <2> SUFFICES ASSUME NEW k \in 1 .. Len(h2)
               PROVE  a2[(Len(a) - Len(h)) + k] - Slack(b) <= h2[k]
    OBVIOUS
  <2>1. CASE k = Len(h) + 1
    BY <1>1, <1>2, <1>3, <1>4, <2>1
  <2>2. CASE k # Len(h) + 1
    <3>1. k \in 1 .. Len(h) /\ (Len(a) - Len(h)) + k \in 1 .. Len(a)
      BY <1>1, <1>3, <2>2
    <3>2. a2[(Len(a) - Len(h)) + k] = a[(Len(a) - Len(h)) + k] /\ h2[k] = h[k]
      BY <1>1, <1>3, <1>4, <2>2, <3>1
    <3> QED BY <3>1, <3>2 DEF Fits
  <2> QED BY <2>1, <2>2
<1>6. \A k \in 1 .. Len(a) - Len(h) : t - a2[k] > Window(b) - Slack(b)
  BY <1>1, <1>4 DEF Fits
<1>7. \A i, j \in 1 .. Len(a2) : i <= j => a2[i] <= a2[j]
  <2>1. \A i \in 1 .. Len(a) : a[i] \in Int /\ a[i] <= t
    BY <1>1 DEF Fits
  <2>2. \A i, j \in 1 .. Len(a) : i <= j => a[i] <= a[j]
    BY DEF Fits
  <2> QED BY <1>1, <1>4, <2>1, <2>2
<1>8. \A i \in 1 .. Len(a2) : a2[i] <= t
  BY <1>1, <1>4 DEF Fits
<1> HIDE DEF h2, a2
<1>9. CASE Len(a2) <= B + 1
  <2>1. Recent(b, a2) = a2
    BY <1>1, <1>2, <1>4, <1>9 DEF Recent
  <2>2. Len(a2) = B + 1 => a2[B + 1] - a2[1] > Window(b) - Slack(b)
    <3> SUFFICES ASSUME Len(a2) = B + 1 PROVE a2[B + 1] - a2[1] > Window(b) - Slack(b)
      OBVIOUS
    <3>1. 1 \in 1 .. Len(a) - Len(h) /\ a2[B + 1] = t
      BY <1>1, <1>2, <1>4, SMTT(30)
    <3> QED BY <1>6, <3>1
  <2>3. Len(a2) - Len(h2) = Len(a) - Len(h) /\ Len(h2) <= B
    BY <1>1, <1>2, <1>3, <1>4
  <2>4. Fits(b, h2, a2, t)
    BY <1>1, <1>3, <1>4, <1>5, <1>6, <1>7, <1>8, <1>9, <2>2, <2>3 DEF Fits
  <2> QED BY <2>1, <2>4 DEF h2, a2
<1>10. CASE Len(a2) > B + 1
  <2> DEFINE a3 == Tail(a2)
  <2>1. Recent(b, a2) = a3 /\ Len(a) = B + 1
    BY <1>1, <1>2, <1>4, <1>10, SMTT(30) DEF Recent
  <2>2. /\ a3 \in Seq(Int) /\ Len(a3) = Len(a)
        /\ \A k \in 1 .. Len(a3) : a3[k] = a2[k + 1] /\ k + 1 \in 1 .. Len(a2)
    BY <1>1, <1>4, TailEntries
  <2> HIDE DEF a3
  <2>3. Len(a3) - Len(h2) = (Len(a) - Len(h)) - 1 /\ Len(a) - Len(h) >= 2 /\ Len(h2) <= B
    <3> DEFINE n == Len(h)
               m == Len(a)
    <3>1. /\ n \in Nat /\ m \in Nat /\ m = B + 1 /\ n < B /\ Len(h2) = n + 1 /\ Len(a3) = m
      BY <1>1, <1>3, <2>1, <2>2
    <3> HIDE DEF n, m, B
    <3>2. m - (n + 1) = (m - n) - 1 /\ m - n >= 2 /\ n + 1 <= B
      BY <1>2, <3>1
    <3> QED BY <3>1, <3>2 DEF n, m
  <2>4. \A k \in 1 .. Len(h2) : a3[(Len(a3) - Len(h2)) + k] - Slack(b) <= h2[k]
    <3>1. \A k \in 1 .. Len(h2) : /\ (Len(a3) - Len(h2)) + k \in 1 .. Len(a3)
                                  /\ (Len(a3) - Len(h2)) + k + 1 = (Len(a) - Len(h)) + k
      <4> SUFFICES ASSUME NEW k \in 1 .. Len(h2)
                   PROVE  /\ (Len(a3) - Len(h2)) + k \in 1 .. Len(a3)
                          /\ (Len(a3) - Len(h2)) + k + 1 = (Len(a) - Len(h)) + k
        OBVIOUS
      <4> DEFINE n == Len(h)
                 m == Len(a)
                 p == Len(h2)
                 q == Len(a3)
      <4>1. /\ n \in Nat /\ m \in Nat /\ p \in Nat /\ q \in Nat /\ p = n + 1 /\ q = m
            /\ k \in 1 .. p /\ m - n >= 2
        BY <1>1, <1>3, <2>2, <2>3
      <4> HIDE DEF n, m, p, q
      <4>2. (q - p) + k \in 1 .. q /\ (q - p) + k + 1 = (m - n) + k
        BY <4>1
      <4> QED BY <4>2 DEF n, m, p, q
    <3> QED BY <1>5, <2>2, <3>1
  <2>5. \A k \in 1 .. Len(a3) - Len(h2) : t - a3[k] > Window(b) - Slack(b)
    <3>1. \A k \in 1 .. Len(a3) - Len(h2) : k \in 1 .. Len(a3) /\ k + 1 \in 1 .. Len(a) - Len(h)
      BY <1>1, <1>3, <2>2, <2>3
    <3> QED BY <1>6, <2>2, <3>1
  <2>6. \A i, j \in 1 .. Len(a3) : i <= j => a3[i] <= a3[j]
    BY <1>7, <2>2
  <2>7. \A i \in 1 .. Len(a3) : a3[i] <= t
    BY <1>8, <2>2
  <2>8. a3[B + 1] - a3[1] > Window(b) - Slack(b)
    <3>1. B + 1 \in 1 .. Len(a3) /\ 1 \in 1 .. Len(a3) /\ 2 \in 1 .. Len(a) - Len(h)
      BY <1>1, <1>2, <2>1, <2>2, <2>3
    <3>2. a3[B + 1] = t /\ a3[1] = a2[2]
      BY <1>1, <1>2, <1>4, <2>1, <2>2, <3>1
    <3> QED BY <1>6, <3>1, <3>2
  <2>9. Fits(b, h2, a3, t)
    BY <1>1, <1>3, <2>1, <2>2, <2>3, <2>4, <2>5, <2>6, <2>7, <2>8 DEF Fits
  <2> QED BY <2>1, <2>9 DEF h2, a2
<1> QED
  BY <1>2, <1>4, <1>9, <1>10

LEMMA TickKeeps ==
  ASSUME NEW b \in Buckets, NEW h, NEW a, NEW t, Fits(b, h, a, t)
  PROVE  Fits(b, h, a, t + 1)
<1>1. t \in Int /\ Len(a) \in Nat /\ Len(h) \in Nat /\ \A i \in 1 .. Len(a) : a[i] \in Int
  BY DEF Fits
<1>2. Window(b) \in Nat /\ Slack(b) \in Nat
  BY BucketConstants
<1>3. \A k \in 1 .. Len(a) - Len(h) : (t + 1) - a[k] > Window(b) - Slack(b)
  <2> SUFFICES ASSUME NEW k \in 1 .. Len(a) - Len(h)
               PROVE  (t + 1) - a[k] > Window(b) - Slack(b)
    OBVIOUS
  <2>1. k \in 1 .. Len(a) /\ t - a[k] > Window(b) - Slack(b)
    BY <1>1 DEF Fits
  <2>2. a[k] \in Int
    BY <1>1, <2>1
  <2> QED BY <1>1, <1>2, <2>1, <2>2
<1>4. \A i \in 1 .. Len(a) : a[i] <= t + 1
  BY <1>1 DEF Fits
<1> QED
  BY <1>1, <1>3, <1>4 DEF Fits

-----------------------------------------------------------------------------
LimitsInv ==
  /\ tick \in Nat
  /\ DOMAIN hits = Buckets /\ DOMAIN accepted = Buckets
  /\ DOMAIN read = Workers
  /\ \A w \in Workers : read[w] = <<>> \/
       (\E b \in HttpBuckets, reading \in Nat :
          read[w] = <<b, reading>> /\ reading <= tick /\ tick <= reading + Delay)
  /\ \A b \in Buckets : Fits(b, hits[b], accepted[b], tick)

LEMMA LimitsInvInit == LimitsInit => LimitsInv
<1> SUFFICES ASSUME LimitsInit PROVE LimitsInv
  OBVIOUS
<1>1. ASSUME NEW b \in Buckets PROVE Fits(b, <<>>, <<>>, 0)
  BY BucketConstants DEF Fits
<1> QED
  BY <1>1 DEF LimitsInit, LimitsInv

\* Counting a request.
LEMMA CountKeeps ==
  ASSUME LimitsInv, NEW b \in Buckets, NEW h, DOMAIN h = Buckets,
         \A c \in Buckets : Fits(c, h[c], accepted[c], tick),
         NEW reading \in Int, reading <= tick, reading >= tick - Slack(b), Count(b, h, reading)
  PROVE  /\ DOMAIN hits' = Buckets /\ DOMAIN accepted' = Buckets
         /\ \A c \in Buckets : Fits(c, hits'[c], accepted'[c], tick)
<1> DEFINE stay == Trim(h[b], reading, Window(b))
<1>1. Fits(b, stay, accepted[b], tick)
  BY TrimKeeps
<1>2. CASE Len(stay) < Budget(b)
  <2>1. /\ hits' = [h EXCEPT ![b] = Append(stay, reading)]
        /\ accepted' = [accepted EXCEPT ![b] = Recent(b, Append(accepted[b], tick))]
    BY <1>2 DEF Count
  <2>2. Fits(b, Append(stay, reading), Recent(b, Append(accepted[b], tick)), tick)
    BY <1>1, <1>2, AcceptKeeps
  <2> HIDE DEF stay
  <2> QED
    BY <2>1, <2>2 DEF LimitsInv
<1>3. CASE ~(Len(stay) < Budget(b))
  <2>1. /\ hits' = [h EXCEPT ![b] = stay]
        /\ accepted' = [accepted EXCEPT ![b] = accepted[b]]
    BY <1>3 DEF Count
  <2> HIDE DEF stay
  <2> QED
    BY <1>1, <2>1 DEF LimitsInv
<1> QED BY <1>2, <1>3

LEMMA LimitsInvNext == LimitsInv /\ [LimitsNext]_limitVars => LimitsInv'
<1> SUFFICES ASSUME LimitsInv, [LimitsNext]_limitVars
             PROVE  LimitsInv'
  OBVIOUS
<1>1. ASSUME NEW w \in Workers, NEW b \in HttpBuckets, ReadClock(w, b)
      PROVE  LimitsInv'
  <2>1. read' = [read EXCEPT ![w] = <<b, tick>>] /\ UNCHANGED <<tick, hits, accepted>>
    BY <1>1 DEF ReadClock
  <2>2. tick <= tick + Delay
    BY LimitsAssumption DEF LimitsInv
  <2> QED
    BY <2>1, <2>2 DEF LimitsInv
<1>2. ASSUME NEW w \in Workers, Allow(w)
      PROVE  LimitsInv'
  <2>1. PICK b \in HttpBuckets, reading \in Nat :
          read[w] = <<b, reading>> /\ reading <= tick /\ tick <= reading + Delay
    BY <1>2 DEF Allow, LimitsInv
  <2> DEFINE h == IF calls = 0 THEN Sweep(hits, reading) ELSE hits
  <2>2. /\ Count(b, h, reading) /\ read' = [read EXCEPT ![w] = <<>>] /\ UNCHANGED tick
    BY <1>2, <2>1 DEF Allow
  <2>3. DOMAIN h = Buckets /\ \A c \in Buckets : Fits(c, h[c], accepted[c], tick)
    <3>1. CASE calls = 0
      <4>1. h = [c \in Buckets |->
              IF c \in HttpBuckets /\ hits[c] # <<>> /\ reading - Last(hits[c]) >= Stale
              THEN <<>> ELSE hits[c]]
        BY <3>1 DEF Sweep
      <4>2. ASSUME NEW c \in Buckets PROVE Fits(c, h[c], accepted[c], tick)
        <5>1. Fits(c, hits[c], accepted[c], tick)
          BY DEF LimitsInv
        <5>2. CASE c \in HttpBuckets /\ hits[c] # <<>> /\ reading - Last(hits[c]) >= Stale
          <6>1. Fits(c, <<>>, accepted[c], tick)
            BY <2>1, <5>1, <5>2, SweepKeeps
          <6>2. h[c] = <<>>
            BY <4>1, <5>2
          <6> HIDE DEF h
          <6> QED BY <6>1, <6>2
        <5>3. CASE ~(c \in HttpBuckets /\ hits[c] # <<>> /\ reading - Last(hits[c]) >= Stale)
          <6>1. h[c] = hits[c]
            BY <4>1, <5>3
          <6> HIDE DEF h
          <6> QED BY <5>1, <6>1
        <5> QED BY <5>2, <5>3
      <4> HIDE DEF h
      <4> QED BY <4>1, <4>2
    <3>2. CASE calls # 0
      BY <3>2 DEF LimitsInv
    <3> QED BY <3>1, <3>2
  <2> HIDE DEF h
  <2>4. b \in Buckets /\ Slack(b) = Delay
    BY DEF Buckets, HttpBuckets, Slack
  <2>5. reading \in Int /\ reading >= tick - Slack(b)
    BY <2>1, <2>4, LimitsAssumption DEF LimitsInv
  <2>6. /\ DOMAIN hits' = Buckets /\ DOMAIN accepted' = Buckets
        /\ \A c \in Buckets : Fits(c, hits'[c], accepted'[c], tick)
    BY <2>1, <2>2, <2>3, <2>4, <2>5, CountKeeps
  <2> QED
    BY <2>2, <2>6 DEF LimitsInv
<1>3. ASSUME NEW s \in Sockets, AllowFrame(s)
      PROVE  LimitsInv'
  <2> DEFINE b == <<"socket", s>>
  <2>1. Count(b, hits, tick) /\ UNCHANGED <<tick, read>>
    BY <1>3 DEF AllowFrame
  <2>2. b \in Buckets /\ Slack(b) = 0
    BY DEF Buckets, Slack
  <2> HIDE DEF b
  <2>3. tick \in Int /\ tick <= tick /\ tick >= tick - Slack(b) /\ DOMAIN hits = Buckets
        /\ \A c \in Buckets : Fits(c, hits[c], accepted[c], tick)
    BY <2>2 DEF LimitsInv
  <2>4. /\ DOMAIN hits' = Buckets /\ DOMAIN accepted' = Buckets
        /\ \A c \in Buckets : Fits(c, hits'[c], accepted'[c], tick)
    BY <2>1, <2>2, <2>3, CountKeeps
  <2> QED
    BY <2>1, <2>4 DEF LimitsInv
<1>4. CASE Tick
  <2>1. /\ \A w \in Workers : read[w] # <<>> => tick - read[w][2] < Delay
        /\ tick' = tick + 1 /\ UNCHANGED <<hits, read, accepted>>
    BY <1>4 DEF Tick
  <2>2. \A b \in Buckets : Fits(b, hits[b], accepted[b], tick + 1)
    BY TickKeeps DEF LimitsInv
  <2>3. ASSUME NEW w \in Workers, read[w] # <<>>
        PROVE  \E b \in HttpBuckets, reading \in Nat :
                 read[w] = <<b, reading>> /\ reading <= tick + 1 /\ tick + 1 <= reading + Delay
    <3>1. PICK b \in HttpBuckets, reading \in Nat : read[w] = <<b, reading>> /\ reading <= tick
      BY <2>3 DEF LimitsInv
    <3>2. tick - reading < Delay /\ tick \in Nat
      <4>1. tick - read[w][2] < Delay /\ read[w][2] = reading
        BY <2>1, <2>3, <3>1, SMTT(30)
      <4> QED BY <4>1, SMTT(30) DEF LimitsInv
    <3>3. reading <= tick + 1 /\ tick + 1 <= reading + Delay
      BY <3>1, <3>2, LimitsAssumption
    <3> QED BY <3>1, <3>3
  <2> QED
    BY <2>1, <2>2, <2>3 DEF LimitsInv
<1>5. CASE UNCHANGED limitVars
  BY <1>5 DEF limitVars, LimitsInv
<1> QED
  BY <1>1, <1>2, <1>3, <1>4, <1>5 DEF LimitsNext, HttpNext, FrameNext

\* For any budgets, windows, sweeps and delays that are within the window: no stretch of a
\* window lets through more than the budget.
THEOREM BudgetsHold == LimitsSpec => []WithinBudget
<1>1. LimitsInv => WithinBudget
  <2> SUFFICES ASSUME LimitsInv, NEW b \in Buckets,
                      NEW i \in 1 .. Len(accepted[b]) - Budget(b)
               PROVE  accepted[b][i + Budget(b)] - accepted[b][i] > Window(b) - Slack(b)
    BY DEF WithinBudget, Slack
  <2>1. Fits(b, hits[b], accepted[b], tick)
    BY DEF LimitsInv
  <2>2. Budget(b) \in Nat /\ Len(accepted[b]) \in Nat /\ Len(accepted[b]) <= Budget(b) + 1
    BY <2>1, BucketConstants DEF Fits
  <2>3. i = 1 /\ Len(accepted[b]) = Budget(b) + 1
    BY <2>2
  <2> QED
    BY <2>1, <2>2, <2>3 DEF Fits
<1> QED
  BY LimitsInvInit, LimitsInvNext, <1>1, PTL DEF LimitsSpec

-----------------------------------------------------------------------------
(* The token store.                                                        *)

SaveSteps == {"load", "open", "write", "rename", "remove"}

\* The types the argument needs.
WriteTypes ==
  /\ DOMAIN temp = Processes
  /\ step \in [Writers -> SaveSteps]
  /\ DOMAIN handle = Writers
  /\ overlapped \in BOOLEAN

\* Saves that have not overlapped have their process to themselves.
SavesAreAlone ==
  \A v, w \in Writers : v # w /\ Saving(v) /\ Saving(w) => ProcessOf(v) # ProcessOf(w)

\* A save that is alone writes to an empty temporary file and renames a whole one.
SavesAreWhole ==
  \A w \in Writers :
    /\ step[w] = "write" => handle[w] = "temp" /\ temp[ProcessOf(w)].state = "empty"
    /\ step[w] = "rename" => temp[ProcessOf(w)].state = "whole"

WholeInv ==
  WriteTypes /\ (overlapped \/ (SavesAreAlone /\ SavesAreWhole /\ file.state \in {"absent", "whole"}))

LEMMA WholeInvInit == TokensInit => WholeInv
<1> SUFFICES ASSUME TokensInit PROVE WholeInv
  OBVIOUS
<1>1. WriteTypes
  BY DEF TokensInit, WriteTypes, SaveSteps
<1>2. \A w \in Writers : step[w] = "load"
  BY DEF TokensInit
<1>3. file.state = "absent"
  BY DEF TokensInit, Holds
<1> QED
  BY <1>1, <1>2, <1>3 DEF WholeInv, SavesAreAlone, SavesAreWhole, Saving

LEMMA OwnProcess == \A w \in Writers : ProcessOf(w) \in Processes
BY DEF Writers, ProcessOf, Processes

\* Every step keeps it.
LEMMA WholeInvNext == WholeInv /\ [TokensNext]_tokenVars => WholeInv'
<1> SUFFICES ASSUME WholeInv, [TokensNext]_tokenVars
             PROVE  WholeInv'
  OBVIOUS
<1>t. WriteTypes
  BY DEF WholeInv
<1>a. ASSUME ~overlapped PROVE SavesAreAlone /\ SavesAreWhole /\ file.state \in {"absent", "whole"}
  BY <1>a DEF WholeInv
<1>1. ASSUME NEW w \in Writers, step' = [step EXCEPT ![w] = "open"],
             UNCHANGED <<file, temp, handle, overlapped>>
      PROVE  WholeInv'
  BY <1>t, <1>a, <1>1 DEF WholeInv, WriteTypes, SavesAreAlone, SavesAreWhole, Saving, SaveSteps
<1>2. ASSUME NEW w \in Writers, Truncate(w)
      PROVE  WholeInv'
  <2>1. /\ temp' = [temp EXCEPT ![ProcessOf(w)] = Holds("empty")]
        /\ handle' = [handle EXCEPT ![w] = "temp"]
        /\ step' = [step EXCEPT ![w] = "write"]
        /\ overlapped' = (overlapped \/ \E v \in Writers \ {w} :
                                           ProcessOf(v) = ProcessOf(w) /\ Saving(v))
        /\ UNCHANGED file
    BY <1>2 DEF Truncate, TempOf
  <2>2. WriteTypes'
    BY <1>t, <2>1 DEF WriteTypes, SaveSteps
  <2>3. ASSUME ~overlapped'
        PROVE  SavesAreAlone' /\ SavesAreWhole' /\ file'.state \in {"absent", "whole"}
    <3>1. ~overlapped /\ \A v \in Writers \ {w} : Saving(v) => ProcessOf(v) # ProcessOf(w)
      BY <2>1, <2>3
    <3>2. SavesAreAlone /\ SavesAreWhole /\ file.state \in {"absent", "whole"}
      BY <1>a, <3>1
    <3>3. \A v \in Writers \ {w} : step'[v] = step[v] /\ handle'[v] = handle[v]
      BY <1>t, <2>1 DEF WriteTypes
    <3>4. step'[w] = "write" /\ handle'[w] = "temp" /\ temp'[ProcessOf(w)].state = "empty"
      BY <1>t, <2>1, OwnProcess DEF WriteTypes, Holds
    <3>5. \A p \in Processes \ {ProcessOf(w)} : temp'[p] = temp[p]
      BY <1>t, <2>1 DEF WriteTypes
    <3>6. SavesAreAlone'
      BY <3>1, <3>2, <3>3 DEF SavesAreAlone, Saving
    <3>7. SavesAreWhole'
      BY <3>1, <3>2, <3>3, <3>4, <3>5, OwnProcess DEF SavesAreWhole, Saving
    <3> QED
      BY <2>1, <3>2, <3>6, <3>7
  <2> QED
    BY <2>2, <2>3 DEF WholeInv
<1>3. ASSUME NEW w \in Writers, WriteOut(w)
      PROVE  WholeInv'
  <2>1. step[w] = "write" /\ step' = [step EXCEPT ![w] = "rename"] /\ UNCHANGED <<handle, overlapped>>
    BY <1>3 DEF WriteOut
  <2>2. DOMAIN temp' = DOMAIN temp
    BY <1>3 DEF WriteOut
  <2>3. WriteTypes'
    BY <1>t, <2>1, <2>2 DEF WriteTypes, SaveSteps
  <2>4. ASSUME ~overlapped
        PROVE  SavesAreAlone' /\ SavesAreWhole' /\ file'.state \in {"absent", "whole"}
    <3>1. SavesAreAlone /\ SavesAreWhole /\ file.state \in {"absent", "whole"}
      BY <1>a, <2>4
    <3>2. handle[w] = "temp" /\ temp[ProcessOf(w)].state = "empty"
      BY <2>1, <3>1 DEF SavesAreWhole
    <3>3. temp' = [temp EXCEPT ![ProcessOf(w)] = Whole(draft[w])] /\ UNCHANGED file
      BY <1>3, <3>2 DEF WriteOut, Written, TempOf
    <3>4. \A v \in Writers \ {w} : step'[v] = step[v]
      BY <1>t, <2>1 DEF WriteTypes
    <3>5. step'[w] = "rename" /\ temp'[ProcessOf(w)].state = "whole"
      BY <1>t, <2>1, <3>3, OwnProcess DEF WriteTypes, Whole
    <3>6. \A p \in Processes \ {ProcessOf(w)} : temp'[p] = temp[p]
      BY <1>t, <3>3 DEF WriteTypes
    <3>7. \A v \in Writers \ {w} : Saving(v) => ProcessOf(v) # ProcessOf(w)
      BY <2>1, <3>1 DEF SavesAreAlone, Saving
    <3>8. SavesAreAlone'
      BY <3>1, <3>4, <3>7 DEF SavesAreAlone, Saving
    <3>9. SavesAreWhole'
      BY <2>1, <3>1, <3>4, <3>5, <3>6, <3>7, OwnProcess DEF SavesAreWhole, Saving
    <3> QED
      BY <3>1, <3>3, <3>8, <3>9
  <2> QED
    BY <2>1, <2>3, <2>4 DEF WholeInv
<1>4. ASSUME NEW w \in Writers, Rename(w)
      PROVE  WholeInv'
  <2>1. /\ step[w] = "rename" /\ file' = temp[ProcessOf(w)]
        /\ temp' = [temp EXCEPT ![ProcessOf(w)] = Holds("absent")]
        /\ handle' = [v \in Writers |-> IF v = w THEN "gone" ELSE Moved(v, w)]
        /\ step' = [step EXCEPT ![w] = "load"]
        /\ UNCHANGED overlapped
    BY <1>4 DEF Rename, Finish, TempOf
  <2>2. WriteTypes'
    BY <1>t, <2>1 DEF WriteTypes, SaveSteps
  <2>3. ASSUME ~overlapped
        PROVE  SavesAreAlone' /\ SavesAreWhole' /\ file'.state \in {"absent", "whole"}
    <3>1. SavesAreAlone /\ SavesAreWhole
      BY <1>a, <2>3
    <3>2. file'.state = "whole"
      BY <2>1, <3>1 DEF SavesAreWhole
    <3>3. \A v \in Writers \ {w} : step'[v] = step[v] /\ (Saving(v) => ProcessOf(v) # ProcessOf(w))
      BY <1>t, <2>1, <3>1 DEF WriteTypes, SavesAreAlone, Saving
    <3>4. step'[w] = "load"
      BY <1>t, <2>1 DEF WriteTypes
    <3>5. \A p \in Processes \ {ProcessOf(w)} : temp'[p] = temp[p]
      BY <1>t, <2>1 DEF WriteTypes
    <3>6. \A v \in Writers \ {w} : step[v] = "write" => handle'[v] = "temp"
      BY <2>1, <3>1, <3>3 DEF Moved, TempOf, SavesAreWhole, Saving
    <3>7. SavesAreAlone'
      BY <3>1, <3>3, <3>4 DEF SavesAreAlone, Saving
    <3>8. SavesAreWhole'
      BY <3>1, <3>3, <3>4, <3>5, <3>6, OwnProcess DEF SavesAreWhole, Saving
    <3> QED
      BY <3>2, <3>7, <3>8
  <2> QED
    BY <2>1, <2>2, <2>3 DEF WholeInv
<1>5. ASSUME NEW w \in Writers, RenameFails(w)
      PROVE  WholeInv'
  <2>1. /\ step[w] = "rename" /\ temp[ProcessOf(w)].state = "absent"
        /\ step' = [step EXCEPT ![w] = "remove"] /\ UNCHANGED <<file, temp, handle, overlapped>>
    BY <1>5 DEF RenameFails, TempOf
  <2>2. overlapped
    BY <1>a, <2>1 DEF SavesAreWhole
  <2> QED
    BY <1>t, <2>1, <2>2 DEF WholeInv, WriteTypes, SaveSteps
<1>6. ASSUME NEW w \in Writers, RemoveTemp(w)
      PROVE  WholeInv'
  <2>1. /\ step[w] = "remove"
        /\ temp' = [temp EXCEPT ![ProcessOf(w)] = Holds("absent")]
        /\ handle' = [v \in Writers |->
             IF v = w \/ (handle[v] = "temp" /\ ProcessOf(v) = ProcessOf(w)) THEN "gone"
             ELSE handle[v]]
        /\ step' = [step EXCEPT ![w] = "load"]
        /\ UNCHANGED <<file, overlapped>>
    BY <1>6 DEF RemoveTemp, Finish, TempOf
  <2>2. WriteTypes'
    BY <1>t, <2>1 DEF WriteTypes, SaveSteps
  <2>3. ASSUME ~overlapped
        PROVE  SavesAreAlone' /\ SavesAreWhole' /\ file'.state \in {"absent", "whole"}
    <3>1. SavesAreAlone /\ SavesAreWhole /\ file.state \in {"absent", "whole"}
      BY <1>a, <2>3
    <3>3. \A v \in Writers \ {w} : step'[v] = step[v] /\ (Saving(v) => ProcessOf(v) # ProcessOf(w))
      BY <1>t, <2>1, <3>1 DEF WriteTypes, SavesAreAlone, Saving
    <3>4. step'[w] = "load"
      BY <1>t, <2>1 DEF WriteTypes
    <3>5. \A p \in Processes \ {ProcessOf(w)} : temp'[p] = temp[p]
      BY <1>t, <2>1 DEF WriteTypes
    <3>6. \A v \in Writers \ {w} : step[v] = "write" => handle'[v] = "temp"
      BY <2>1, <3>1, <3>3 DEF SavesAreWhole, Saving
    <3>7. SavesAreAlone'
      BY <3>1, <3>3, <3>4 DEF SavesAreAlone, Saving
    <3>8. SavesAreWhole'
      BY <3>1, <3>3, <3>4, <3>5, <3>6, OwnProcess DEF SavesAreWhole, Saving
    <3> QED
      BY <2>1, <3>1, <3>7, <3>8
  <2> QED
    BY <2>1, <2>2, <2>3 DEF WholeInv
<1>7. ASSUME NEW p \in Processes, Die(p)
      PROVE  WholeInv'
  <2> DEFINE dead == {w \in Writers : ProcessOf(w) = p}
  <2>1. /\ temp' = [temp EXCEPT ![p] = Holds("absent")]
        /\ step' = [w \in Writers |-> IF w \in dead THEN "load" ELSE step[w]]
        /\ handle' = [w \in Writers |-> IF w \in dead THEN "gone" ELSE handle[w]]
        /\ UNCHANGED <<file, overlapped>>
    BY <1>7 DEF Die
  <2>2. WriteTypes'
    BY <1>t, <2>1 DEF WriteTypes, SaveSteps
  <2>3. \A w \in Writers : Saving(w)' => Saving(w) /\ ProcessOf(w) # p /\ step'[w] = step[w]
                                          /\ handle'[w] = handle[w]
    BY <2>1 DEF Saving
  <2>4. \A q \in Processes \ {p} : temp'[q] = temp[q]
    BY <1>t, <2>1 DEF WriteTypes
  <2>5. ASSUME ~overlapped
        PROVE  SavesAreAlone' /\ SavesAreWhole'
    <3>1. SavesAreAlone /\ SavesAreWhole
      BY <1>a, <2>5
    <3> QED
      BY <2>3, <2>4, <3>1, OwnProcess DEF SavesAreAlone, SavesAreWhole, Saving
  <2> QED
    BY <1>a, <2>1, <2>2, <2>5 DEF WholeInv
<1>8. ASSUME UNCHANGED <<file, temp, step, handle, overlapped>>
      PROVE  WholeInv'
  BY <1>t, <1>a, <1>8 DEF WholeInv, WriteTypes, SavesAreAlone, SavesAreWhole, Saving
<1>9. ASSUME NEW h \in Chargers, NEW t \in TokenIds, Authorize(h, t) \/ RefuseToken(h, t)
      PROVE  WholeInv'
  BY <1>1, <1>8, <1>9 DEF Authorize, RefuseToken, Begin, tokenVars, Writers
<1>10. ASSUME NEW c \in Commands, NEW t \in TokenIds, Mint(c, t) \/ Revoke(c, t)
       PROVE  WholeInv'
  BY <1>1, <1>10 DEF Mint, Revoke, Begin, Writers
<1>11. ASSUME NEW t \in TokenIds, Expire(t)
       PROVE  WholeInv'
  BY <1>8, <1>11 DEF Expire
<1>12. CASE UNCHANGED tokenVars
  BY <1>8, <1>12 DEF tokenVars
<1> QED
  BY <1>2, <1>3, <1>4, <1>5, <1>6, <1>7, <1>9, <1>10, <1>11, <1>12 DEF TokensNext

\* For any handlers, commands and tokens: the store is whole unless two saves of one
\* process have overlapped.
THEOREM StoreIsWhole == TokensSpec => []TornOnlyByOverlap
<1>1. WholeInv => TornOnlyByOverlap
  BY DEF WholeInv, TornOnlyByOverlap
<1> QED
  BY WholeInvInit, WholeInvNext, <1>1, PTL DEF TokensSpec

-----------------------------------------------------------------------------
(* The token store: its counts.                                            *)

\* What is minted, revoked and charged once an operation has ended.
MintedThen(op, t) == IF op = "mint" THEN minted \cup {t} ELSE minted
RevokedThen(op, t) == IF op = "revoke" THEN revoked \cup {t} ELSE revoked
ChargedThen(op, t) == IF op = "charge" THEN [charged EXCEPT ![t] = @ + 1] ELSE charged

\* What was done is possible, and within the budgets.
Ledger(m, r, c) ==
  /\ m \subseteq TokenIds /\ r \subseteq m /\ c \in [TokenIds -> Nat]
  /\ \A t \in TokenIds : c[t] # 0 => t \in m
  /\ MaxRequests # 0 => \A t \in TokenIds : c[t] <= MaxRequests

\* A store holds what was done.
Agrees(used, m, r, c) ==
  /\ m \ (r \cup expired) \subseteq DOMAIN used
  /\ DOMAIN used \subseteq m /\ DOMAIN used \cap r = {}
  /\ \A t \in DOMAIN used : used[t] = c[t]

\* The plan of an operation: a store that holds what will have been done.
Plans(counts, op, t) ==
  /\ Ledger(MintedThen(op, t), RevokedThen(op, t), ChargedThen(op, t))
  /\ Agrees(counts, MintedThen(op, t), RevokedThen(op, t), ChargedThen(op, t))

PlanTypes ==
  /\ DOMAIN job = Writers /\ DOMAIN step = Writers /\ DOMAIN draft = Writers
  /\ DOMAIN handle = Writers /\ DOMAIN temp = Processes
  /\ raced \in BOOLEAN

\* Operations that have not overlapped come one at a time, and each is going to save its plan.
OneAtATime == \A v, w \in Writers : v # w => job[v] = <<>> \/ job[w] = <<>>
PlansAreSaved ==
  \A w \in Writers :
    /\ step[w] \in {"load", "open", "write", "rename"}
    /\ job[w] = <<>> <=> step[w] = "load"
    /\ job[w] # <<>> => Plans(draft[w], job[w][1], job[w][2])
    /\ step[w] = "write" => handle[w] = "temp" /\ temp[ProcessOf(w)].state = "empty"
    /\ step[w] = "rename" => temp[ProcessOf(w)] = Whole(draft[w])
FileAgrees ==
  /\ file.state \in {"absent", "whole"}
  /\ Ledger(minted, revoked, charged)
  /\ Agrees(file.used, minted, revoked, charged)

PlanInv == PlanTypes /\ (raced \/ (OneAtATime /\ PlansAreSaved /\ FileAgrees))

LEMMA PlanInvInit == TokensInit => PlanInv
<1> SUFFICES ASSUME TokensInit PROVE PlanInv
  OBVIOUS
<1>1. PlanTypes
  BY DEF TokensInit, PlanTypes
<1>2. \A w \in Writers : step[w] = "load" /\ job[w] = <<>>
  BY DEF TokensInit
<1>3. file.state = "absent" /\ DOMAIN file.used = {}
  BY DEF TokensInit, Holds, NoTokens
<1>4. Ledger(minted, revoked, charged)
  BY TokensAssumption DEF TokensInit, Ledger
<1>5. Agrees(file.used, minted, revoked, charged)
  BY <1>3 DEF TokensInit, Agrees
<1> QED
  BY <1>1, <1>2, <1>3, <1>4, <1>5 DEF PlanInv, OneAtATime, PlansAreSaved, FileAgrees

\* An operation begins with a plan.
LEMMA BeginKeeps ==
  ASSUME PlanInv, NEW w \in Writers, NEW op, NEW t, NEW counts, job[w] = <<>>,
         Begin(w, op, t, counts), <<op, t>> # <<>>, ~raced => Plans(counts, op, t)
  PROVE  PlanInv'
<1>1. /\ job' = [job EXCEPT ![w] = <<op, t>>]
      /\ step' = [step EXCEPT ![w] = "open"]
      /\ draft' = [draft EXCEPT ![w] = counts]
      /\ raced' = (raced \/ \E v \in Writers \ {w} : job[v] # <<>>)
      /\ UNCHANGED <<file, temp, handle, minted, revoked, expired, charged>>
  BY DEF Begin
<1>2. PlanTypes'
  BY <1>1 DEF PlanInv, PlanTypes
<1>3. ASSUME ~raced' PROVE OneAtATime' /\ PlansAreSaved' /\ FileAgrees'
  <2>1. ~raced /\ \A v \in Writers \ {w} : job[v] = <<>>
    BY <1>1, <1>3
  <2>2. OneAtATime /\ PlansAreSaved /\ FileAgrees /\ Plans(counts, op, t)
    BY <2>1 DEF PlanInv
  <2>3. /\ job'[w] = <<op, t>> /\ step'[w] = "open" /\ draft'[w] = counts
        /\ \A v \in Writers \ {w} : job'[v] = <<>> /\ step'[v] = step[v] /\ draft'[v] = draft[v]
    BY <1>1, <2>1 DEF PlanInv, PlanTypes
  <2>4. OneAtATime'
    BY <2>3 DEF OneAtATime
  <2>5. FileAgrees'
    BY <1>1, <2>2 DEF FileAgrees, Ledger, Agrees
  <2>6. Plans(draft[w], job[w][1], job[w][2])'
    <3>1. job'[w][1] = op /\ job'[w][2] = t
      BY <2>3
    <3> QED
      BY <1>1, <2>2, <2>3, <3>1
      DEF Plans, Ledger, Agrees, MintedThen, RevokedThen, ChargedThen
  <2>7. \A v \in Writers \ {w} : step[v] = "load"
    BY <2>1, <2>2 DEF PlansAreSaved
  <2>8. PlansAreSaved'
    BY <2>3, <2>6, <2>7 DEF PlansAreSaved
  <2> QED
    BY <2>4, <2>5, <2>8
<1> QED
  BY <1>2, <1>3 DEF PlanInv

\* An operation ends, and the file holds its plan.
LEMMA FinishKeeps ==
  ASSUME PlanInv, NEW w \in Writers, Finish(w), job[w] # <<>>, UNCHANGED <<expired, raced>>,
         DOMAIN temp' = Processes, DOMAIN handle' = Writers,
         ~raced => file' = Whole(draft[w])
  PROVE  PlanInv'
<1>1. /\ job' = [job EXCEPT ![w] = <<>>]
      /\ step' = [step EXCEPT ![w] = "load"]
      /\ draft' = [draft EXCEPT ![w] = NoTokens]
      /\ minted' = MintedThen(job[w][1], job[w][2])
      /\ revoked' = RevokedThen(job[w][1], job[w][2])
      /\ charged' = ChargedThen(job[w][1], job[w][2])
  BY DEF Finish, MintedThen, RevokedThen, ChargedThen
<1>2. PlanTypes'
  BY <1>1 DEF PlanInv, PlanTypes
<1>3. ASSUME ~raced PROVE OneAtATime' /\ PlansAreSaved' /\ FileAgrees'
  <2>1. OneAtATime /\ PlansAreSaved /\ FileAgrees
    BY <1>3 DEF PlanInv
  <2>2. \A v \in Writers : job'[v] = <<>> /\ step'[v] = "load"
    BY <1>1, <2>1 DEF OneAtATime, PlansAreSaved, PlanInv, PlanTypes
  <2>3. Plans(draft[w], job[w][1], job[w][2])
    BY <2>1 DEF PlansAreSaved
  <2>4. file'.state = "whole" /\ file'.used = draft[w]
    BY <1>3 DEF Whole
  <2>5. FileAgrees'
    <3>1. Ledger(minted', revoked', charged')
      BY <1>1, <2>3 DEF Plans
    <3>2. Agrees(file'.used, minted', revoked', charged')
      BY <1>1, <2>3, <2>4 DEF Plans
    <3>3. Agrees(file.used, minted, revoked, charged)'
      BY <3>2 DEF Agrees
    <3>4. Ledger(minted, revoked, charged)'
      BY <3>1 DEF Ledger
    <3> QED
      BY <2>4, <3>3, <3>4 DEF FileAgrees
  <2> QED
    BY <2>2, <2>5 DEF OneAtATime, PlansAreSaved
<1> QED
  BY <1>2, <1>3 DEF PlanInv

\* Every step keeps it.
LEMMA PlanInvNext == PlanInv /\ [TokensNext]_tokenVars => PlanInv'
<1> SUFFICES ASSUME PlanInv, [TokensNext]_tokenVars
             PROVE  PlanInv'
  OBVIOUS
<1>t. PlanTypes
  BY DEF PlanInv
<1>a. ASSUME ~raced PROVE OneAtATime /\ PlansAreSaved /\ FileAgrees
  BY <1>a DEF PlanInv
<1>s. ASSUME UNCHANGED tokenVars PROVE PlanInv'
  <2>1. /\ file' = file /\ temp' = temp /\ job' = job /\ step' = step /\ draft' = draft
        /\ handle' = handle /\ minted' = minted /\ revoked' = revoked /\ expired' = expired
        /\ charged' = charged /\ raced' = raced
    BY <1>s DEF tokenVars
  <2>2. PlanTypes'
    BY <1>t, <2>1 DEF PlanTypes
  <2>3. ASSUME ~raced PROVE OneAtATime' /\ PlansAreSaved' /\ FileAgrees'
    <3>1. OneAtATime'
      BY <1>a, <2>1, <2>3 DEF OneAtATime
    <3>2. FileAgrees'
      BY <1>a, <2>1, <2>3 DEF FileAgrees, Ledger, Agrees
    <3>3. ASSUME NEW w \in Writers, job[w] # <<>>
          PROVE  Plans(draft[w], job[w][1], job[w][2])'
      <4>1. Plans(draft[w], job[w][1], job[w][2])
        BY <1>a, <2>3, <3>3 DEF PlansAreSaved
      <4> QED
        BY <2>1, <4>1 DEF Plans, Ledger, Agrees, MintedThen, RevokedThen, ChargedThen
    <3>4. PlansAreSaved'
      BY <1>a, <2>1, <2>3, <3>3 DEF PlansAreSaved
    <3> QED BY <3>1, <3>2, <3>4
  <2> QED BY <2>1, <2>2, <2>3 DEF PlanInv
<1>1. ASSUME NEW h \in Chargers, NEW t \in TokenIds, Authorize(h, t)
      PROVE  PlanInv'
  <2>1. /\ job[h] = <<>> /\ Honoured(t)
        /\ Begin(h, "charge", t, [Loaded EXCEPT ![t] = @ + 1])
    BY <1>1 DEF Authorize
  <2>2. ASSUME ~raced PROVE Plans([Loaded EXCEPT ![t] = @ + 1], "charge", t)
    <3>1. FileAgrees
      BY <1>a, <2>2
    <3>2. /\ MintedThen("charge", t) = minted /\ RevokedThen("charge", t) = revoked
          /\ ChargedThen("charge", t) = [charged EXCEPT ![t] = @ + 1]
      BY DEF MintedThen, RevokedThen, ChargedThen
    <3>3. t \in DOMAIN Loaded /\ (MaxRequests # 0 => Loaded[t] < MaxRequests)
          /\ Loaded[t] = charged[t] /\ t \in minted
      BY <2>1, <3>1 DEF Honoured, FileAgrees, Agrees, Loaded
    <3>4. Ledger(minted, revoked, [charged EXCEPT ![t] = @ + 1])
      BY <3>1, <3>3, TokensAssumption DEF FileAgrees, Ledger
    <3>5. Agrees([Loaded EXCEPT ![t] = @ + 1], minted, revoked, [charged EXCEPT ![t] = @ + 1])
      BY <3>1, <3>3 DEF FileAgrees, Ledger, Agrees, Loaded
    <3> QED
      BY <3>2, <3>4, <3>5 DEF Plans
  <2>3. h \in Writers /\ <<"charge", t>> # <<>>
    BY DEF Writers
  <2> QED
    BY <2>1, <2>2, <2>3, BeginKeeps
<1>2. ASSUME NEW c \in Commands, NEW t \in TokenIds, Mint(c, t)
      PROVE  PlanInv'
  <2> DEFINE counts == [u \in (DOMAIN Loaded \ expired) \cup {t} |-> IF u = t THEN 0 ELSE Loaded[u]]
  <2>1. job[c] = <<>> /\ t \notin minted /\ Begin(c, "mint", t, counts)
    BY <1>2 DEF Mint
  <2>2. ASSUME ~raced PROVE Plans(counts, "mint", t)
    <3>1. FileAgrees
      BY <1>a, <2>2
    <3>2. /\ MintedThen("mint", t) = minted \cup {t} /\ RevokedThen("mint", t) = revoked
          /\ ChargedThen("mint", t) = charged
      BY DEF MintedThen, RevokedThen, ChargedThen
    <3>3. Ledger(minted \cup {t}, revoked, charged)
      BY <3>1 DEF FileAgrees, Ledger
    <3>4. charged[t] = 0 /\ t \notin revoked
      BY <2>1, <3>1 DEF FileAgrees, Ledger
    <3>5. Agrees(counts, minted \cup {t}, revoked, charged)
      BY <3>1, <3>4 DEF FileAgrees, Agrees, Loaded
    <3> QED
      BY <3>2, <3>3, <3>5 DEF Plans
  <2>3. c \in Writers /\ <<"mint", t>> # <<>>
    BY DEF Writers
  <2> HIDE DEF counts
  <2> QED
    BY <2>1, <2>2, <2>3, BeginKeeps
<1>3. ASSUME NEW c \in Commands, NEW t \in TokenIds, Revoke(c, t)
      PROVE  PlanInv'
  <2> DEFINE counts == Restrict(Loaded, DOMAIN Loaded \ {t})
  <2>1. job[c] = <<>> /\ t \in minted /\ Begin(c, "revoke", t, counts)
    BY <1>3 DEF Revoke
  <2>2. ASSUME ~raced PROVE Plans(counts, "revoke", t)
    <3>1. FileAgrees
      BY <1>a, <2>2
    <3>2. /\ MintedThen("revoke", t) = minted /\ RevokedThen("revoke", t) = revoked \cup {t}
          /\ ChargedThen("revoke", t) = charged
      BY DEF MintedThen, RevokedThen, ChargedThen
    <3>3. Ledger(minted, revoked \cup {t}, charged)
      BY <2>1, <3>1 DEF FileAgrees, Ledger
    <3>4. DOMAIN counts = DOMAIN Loaded \ {t} /\ \A u \in DOMAIN counts : counts[u] = Loaded[u]
      BY DEF Restrict
    <3> HIDE DEF counts
    <3>5. Agrees(counts, minted, revoked \cup {t}, charged)
      BY <3>1, <3>4 DEF FileAgrees, Agrees, Loaded
    <3> QED
      BY <3>2, <3>3, <3>5 DEF Plans
  <2>3. c \in Writers /\ <<"revoke", t>> # <<>>
    BY DEF Writers
  <2> HIDE DEF counts
  <2> QED
    BY <2>1, <2>2, <2>3, BeginKeeps
<1>4. ASSUME NEW w \in Writers, Truncate(w)
      PROVE  PlanInv'
  <2>1. /\ step[w] = "open" /\ step' = [step EXCEPT ![w] = "write"]
        /\ temp' = [temp EXCEPT ![ProcessOf(w)] = Holds("empty")]
        /\ handle' = [handle EXCEPT ![w] = "temp"]
        /\ UNCHANGED <<file, job, draft, minted, revoked, expired, charged, raced>>
    BY <1>4 DEF Truncate, TempOf
  <2>2. PlanTypes'
    BY <1>t, <2>1 DEF PlanTypes
  <2>3. ASSUME ~raced PROVE OneAtATime' /\ PlansAreSaved' /\ FileAgrees'
    <3>1. OneAtATime /\ PlansAreSaved /\ FileAgrees
      BY <1>a, <2>3
    <3>2. \A v \in Writers \ {w} : job[v] = <<>> /\ step'[v] = "load"
      BY <1>t, <2>1, <3>1 DEF PlanTypes, OneAtATime, PlansAreSaved
    <3>3. step'[w] = "write" /\ handle'[w] = "temp" /\ temp'[ProcessOf(w)].state = "empty"
      BY <1>t, <2>1, OwnProcess DEF PlanTypes, Holds
    <3>4. FileAgrees' /\ OneAtATime'
      BY <2>1, <3>1 DEF FileAgrees, Ledger, Agrees, OneAtATime
    <3>5. job[w] # <<>> /\ Plans(draft[w], job[w][1], job[w][2])'
      BY <2>1, <3>1 DEF PlansAreSaved, Plans, Ledger, Agrees, MintedThen, RevokedThen, ChargedThen
    <3>6. PlansAreSaved'
      BY <2>1, <3>2, <3>3, <3>5 DEF PlansAreSaved
    <3> QED
      BY <3>4, <3>6
  <2> QED
    BY <2>1, <2>2, <2>3 DEF PlanInv
<1>5. ASSUME NEW w \in Writers, WriteOut(w)
      PROVE  PlanInv'
  <2>1. /\ step[w] = "write" /\ step' = [step EXCEPT ![w] = "rename"]
        /\ UNCHANGED <<job, draft, handle, minted, revoked, expired, charged, raced>>
        /\ DOMAIN temp' = DOMAIN temp
    BY <1>5 DEF WriteOut
  <2>2. PlanTypes'
    BY <1>t, <2>1 DEF PlanTypes
  <2>3. ASSUME ~raced PROVE OneAtATime' /\ PlansAreSaved' /\ FileAgrees'
    <3>1. OneAtATime /\ PlansAreSaved /\ FileAgrees
      BY <1>a, <2>3
    <3>2. handle[w] = "temp" /\ temp[ProcessOf(w)].state = "empty"
      BY <2>1, <3>1 DEF PlansAreSaved
    <3>3. temp' = [temp EXCEPT ![ProcessOf(w)] = Whole(draft[w])] /\ UNCHANGED file
      BY <1>5, <3>2 DEF WriteOut, Written, TempOf
    <3>4. \A v \in Writers \ {w} : job[v] = <<>> /\ step'[v] = "load"
      BY <1>t, <2>1, <3>1 DEF PlanTypes, OneAtATime, PlansAreSaved
    <3>5. step'[w] = "rename" /\ temp'[ProcessOf(w)] = Whole(draft[w])
      BY <1>t, <2>1, <3>3, OwnProcess DEF PlanTypes
    <3>6. FileAgrees' /\ OneAtATime'
      BY <2>1, <3>1, <3>3 DEF FileAgrees, Ledger, Agrees, OneAtATime
    <3>7. job[w] # <<>> /\ Plans(draft[w], job[w][1], job[w][2])'
      BY <2>1, <3>1 DEF PlansAreSaved, Plans, Ledger, Agrees, MintedThen, RevokedThen, ChargedThen
    <3>8. Whole(draft[w])' = Whole(draft[w])
      BY <2>1
    <3>9. PlansAreSaved'
      BY <2>1, <3>4, <3>5, <3>7, <3>8 DEF PlansAreSaved
    <3> QED
      BY <3>6, <3>9
  <2> QED
    BY <2>1, <2>2, <2>3 DEF PlanInv
<1>6. ASSUME NEW w \in Writers, Rename(w)
      PROVE  PlanInv'
  <2>1. /\ step[w] = "rename" /\ file' = temp[ProcessOf(w)] /\ Finish(w) /\ UNCHANGED <<expired, raced>>
        /\ DOMAIN temp' = DOMAIN temp /\ DOMAIN handle' = Writers
    BY <1>6 DEF Rename, TempOf
  <2>2. ~raced => file' = Whole(draft[w]) /\ job[w] # <<>>
    BY <1>a, <2>1 DEF PlansAreSaved
  <2>3. CASE ~raced
    BY <1>t, <2>1, <2>2, <2>3, FinishKeeps DEF PlanTypes
  <2>4. CASE raced
    BY <1>t, <2>1, <2>4 DEF PlanInv, PlanTypes, Finish
  <2> QED BY <2>3, <2>4
<1>7. ASSUME NEW w \in Writers, RenameFails(w) \/ RemoveTemp(w)
      PROVE  PlanInv'
  <2>1. raced
    <3>1. CASE RenameFails(w)
      <4>1. step[w] = "rename" /\ temp[ProcessOf(w)].state = "absent"
        BY <3>1 DEF RenameFails, TempOf
      <4> QED
        <5>1. ~raced => temp[ProcessOf(w)] = Whole(draft[w])
          BY <1>a, <4>1 DEF PlansAreSaved
        <5>2. Whole(draft[w]).state = "whole"
          BY DEF Whole
        <5> QED
          BY <4>1, <5>1, <5>2
    <3>2. CASE RemoveTemp(w)
      BY <1>a, <3>2 DEF RemoveTemp, PlansAreSaved
    <3> QED BY <1>7, <3>1, <3>2
  <2> QED
    BY <1>t, <1>7, <2>1 DEF RenameFails, RemoveTemp, PlanInv, PlanTypes, Finish
<1>8. ASSUME NEW t \in TokenIds, Expire(t)
      PROVE  PlanInv'
  <2>1. /\ expired' = expired \cup {t}
        /\ UNCHANGED <<file, temp, job, step, draft, handle, minted, revoked, charged, raced>>
    BY <1>8 DEF Expire
  <2>2. ASSUME ~raced PROVE OneAtATime' /\ PlansAreSaved' /\ FileAgrees'
    <3>1. OneAtATime /\ PlansAreSaved /\ FileAgrees
      BY <1>a, <2>2
    <3>2. FileAgrees' /\ OneAtATime'
      BY <2>1, <3>1 DEF FileAgrees, Ledger, Agrees, OneAtATime
    <3>3. \A w \in Writers : job[w] # <<>> => Plans(draft[w], job[w][1], job[w][2])'
      BY <2>1, <3>1 DEF PlansAreSaved, Plans, Ledger, Agrees, MintedThen, RevokedThen, ChargedThen
    <3>4. PlansAreSaved'
      BY <2>1, <3>1, <3>3 DEF PlansAreSaved, Whole
    <3> QED
      BY <3>2, <3>4
  <2> QED
    BY <1>t, <2>1, <2>2 DEF PlanInv, PlanTypes
<1>9. ASSUME NEW p \in Processes, Die(p)
      PROVE  PlanInv'
  <2> DEFINE dead == {w \in Writers : ProcessOf(w) = p}
  <2>1. /\ temp' = [temp EXCEPT ![p] = Holds("absent")]
        /\ job' = [w \in Writers |-> IF w \in dead THEN <<>> ELSE job[w]]
        /\ step' = [w \in Writers |-> IF w \in dead THEN "load" ELSE step[w]]
        /\ draft' = [w \in Writers |-> IF w \in dead THEN NoTokens ELSE draft[w]]
        /\ handle' = [w \in Writers |-> IF w \in dead THEN "gone" ELSE handle[w]]
        /\ UNCHANGED <<file, minted, revoked, expired, charged, raced>>
    BY <1>9 DEF Die
  <2>2. PlanTypes'
    BY <1>t, <2>1 DEF PlanTypes
  <2>3. ASSUME ~raced PROVE OneAtATime' /\ PlansAreSaved' /\ FileAgrees'
    <3>1. OneAtATime /\ PlansAreSaved /\ FileAgrees
      BY <1>a, <2>3
    <3>2. FileAgrees' /\ OneAtATime'
      BY <2>1, <3>1 DEF FileAgrees, Ledger, Agrees, OneAtATime
    <3>3. \A w \in Writers : job[w] # <<>> => Plans(draft[w], job[w][1], job[w][2])
      BY <3>1 DEF PlansAreSaved
    <3>4. \A w \in Writers \ dead : /\ ProcessOf(w) # p /\ job'[w] = job[w] /\ step'[w] = step[w]
                                    /\ draft'[w] = draft[w] /\ handle'[w] = handle[w]
                                    /\ temp'[ProcessOf(w)] = temp[ProcessOf(w)]
      BY <1>t, <2>1, OwnProcess DEF PlanTypes
    <3>5. \A w \in dead : job'[w] = <<>> /\ step'[w] = "load"
      BY <2>1
    <3> HIDE DEF dead
    <3>6. ASSUME NEW w \in Writers, job'[w] # <<>>
          PROVE  Plans(draft[w], job[w][1], job[w][2])'
      <4>1. w \notin dead /\ job[w] # <<>>
        BY <3>4, <3>5, <3>6
      <4>2. Plans(draft[w], job[w][1], job[w][2]) /\ draft'[w] = draft[w] /\ job'[w] = job[w]
        BY <3>3, <3>4, <4>1
      <4> QED
        BY <2>1, <4>2 DEF Plans, Ledger, Agrees, MintedThen, RevokedThen, ChargedThen
    <3>7. PlansAreSaved'
      BY <3>1, <3>4, <3>5, <3>6 DEF PlansAreSaved, Whole
    <3> QED
      BY <3>2, <3>7
  <2> QED
    BY <2>1, <2>2, <2>3 DEF PlanInv
<1>10. ASSUME NEW h \in Chargers, NEW t \in TokenIds, RefuseToken(h, t)
       PROVE  PlanInv'
  BY <1>s, <1>10 DEF RefuseToken
<1> QED
  BY <1>s, <1>1, <1>2, <1>3, <1>4, <1>5, <1>6, <1>7, <1>8, <1>9, <1>10 DEF TokensNext

\* For any handlers, commands, tokens and budgets: until two operations overlap the store
\* is exact, crashes included.
THEOREM StoreIsExact == TokensSpec => []ExactUntilRaced
<1>1. PlanInv => ExactUntilRaced
  BY DEF PlanInv, FileAgrees, Agrees, Ledger, ExactUntilRaced
<1> QED
  BY PlanInvInit, PlanInvNext, <1>1, PTL DEF TokensSpec

-----------------------------------------------------------------------------
(* Guest access.                                                           *)

\* The types the argument needs.
Edits == [at : {"idle", "read", "saved", "push"}, codes : SUBSET Codes]
SeatTypes ==
  /\ now \in Nat /\ now > 0
  /\ lastsTo \in [Codes -> Nat]
  /\ hostCodes \subseteq Codes /\ vmCodes \subseteq Codes
  /\ edit \in [Editors -> Edits]
  /\ DOMAIN entering = Browsers /\ DOMAIN cookie = Browsers

\* Codes that were revoked, are in the store or in an editor's hand were minted, and the
\* store has none that was revoked unless it was set back.
RevokedAreOut ==
  /\ \A k \in withdrawn : k \in Codes /\ lastsTo[k] # 0
  /\ \A k \in hostCodes : lastsTo[k] # 0
  /\ \A e \in Editors : \A k \in edit[e].codes : lastsTo[k] # 0
  /\ undone \/ hostCodes \cap withdrawn = {}

\* Unless the store was set back or the machine was not told, one copy at most is under
\* way, and once no editor is about to take another it has no revoked code, nor has the
\* machine when none is under way.
CopyIsTrue ==
  \/ undone \/ astray
  \/ /\ \A e, f \in Editors : edit[e].at = "push" /\ edit[f].at = "push" => e = f
     /\ (\A e \in Editors : edit[e].at # "saved") =>
          /\ \A e \in Editors : edit[e].at = "push" => edit[e].codes \cap withdrawn = {}
          /\ (\A e \in Editors : edit[e].at # "push") => vmCodes \cap withdrawn = {}

\* A login knows when its code expires and has not paused for longer than it may.
TimedLogin(e) ==
  /\ e.code \in Codes /\ e.ttl \in Nat /\ e.at \in Nat
  /\ lastsTo[e.code] = e.at + e.ttl /\ lastsTo[e.code] # 0
  /\ e.at <= now /\ now <= e.at + MaxPause
  /\ e.revoked => e.stale

\* A cookie outlives its code by no more than that.
TimedSeat(e) ==
  /\ e.code \in Codes /\ e.exp \in Nat
  /\ lastsTo[e.code] # 0 /\ e.exp <= lastsTo[e.code] + MaxPause
  /\ e.revoked => e.stale

SeatInv ==
  /\ SeatTypes /\ RevokedAreOut /\ CopyIsTrue
  /\ \A g \in Browsers : entering[g] # Absent => TimedLogin(entering[g])
  /\ \A g \in Browsers : cookie[g] # Absent => TimedSeat(cookie[g])

LEMMA SeatInvInit == SeatsInit => SeatInv
<1> SUFFICES ASSUME SeatsInit PROVE SeatInv
  OBVIOUS
<1>1. /\ now = 1 /\ hostCodes = {} /\ vmCodes = {} /\ withdrawn = {}
      /\ lastsTo = [k \in Codes |-> 0] /\ edit = [e \in Editors |-> Idle]
      /\ entering = [g \in Browsers |-> Absent] /\ cookie = [g \in Browsers |-> Absent]
  BY DEF SeatsInit
<1>2. Idle \in Edits /\ Idle.at = "idle" /\ Idle.codes = {}
  BY DEF Idle, Edits
<1>3. SeatTypes
  BY <1>1, <1>2 DEF SeatTypes
<1>4. RevokedAreOut /\ CopyIsTrue
  BY <1>1, <1>2 DEF RevokedAreOut, CopyIsTrue
<1> QED
  BY <1>1, <1>3, <1>4 DEF SeatInv

\* What an editor can be about.
LEMMA EditsAre ==
  ASSUME NEW codes \in SUBSET Codes, NEW at \in {"idle", "read", "saved", "push"}
  PROVE  /\ Doing(at, codes) \in Edits /\ Doing(at, codes).at = at
         /\ Doing(at, codes).codes = codes
         /\ Idle \in Edits /\ Idle.at = "idle" /\ Idle.codes = {}
BY DEF Doing, Idle, Edits

\* Every step keeps it.
LEMMA SeatInvNext == SeatInv /\ [SeatsNext]_seatVars => SeatInv'
<1> SUFFICES ASSUME SeatInv, [SeatsNext]_seatVars
             PROVE  SeatInv'
  OBVIOUS
<1>t. SeatTypes /\ RevokedAreOut /\ CopyIsTrue
  BY DEF SeatInv
<1>s. MaxPause \in Nat /\ Lives \subseteq Nat
  BY SeatsAssumption
<1> USE DEF ownerVars, vmVars, loginVars
<1>k. ASSUME UNCHANGED <<now, entering, cookie>>,
             \A k \in Codes : lastsTo[k] # 0 => lastsTo'[k] = lastsTo[k]
      PROVE  /\ \A g \in Browsers : entering'[g] # Absent => TimedLogin(entering[g])'
             /\ \A g \in Browsers : cookie'[g] # Absent => TimedSeat(cookie[g])'
  BY <1>k DEF SeatInv, TimedLogin, TimedSeat
\* An editor turns to something else.
<1>e. ASSUME NEW e \in Editors, NEW x \in Edits, edit' = [edit EXCEPT ![e] = x]
      PROVE  /\ edit' \in [Editors -> Edits]
             /\ \A f \in Editors : edit'[f] = IF f = e THEN x ELSE edit[f]
  BY <1>t, <1>e DEF SeatTypes
<1>i. /\ Idle \in Edits /\ Idle.at = "idle" /\ Idle.codes = {}
      /\ \A codes \in SUBSET Codes : \A at \in {"read", "saved", "push"} :
           /\ Doing(at, codes) \in Edits /\ Doing(at, codes).at = at
           /\ Doing(at, codes).codes = codes
  BY EditsAre
<1>0. ASSUME NEW e \in Editors, ReadStore(e)
      PROVE  SeatInv'
  <2> DEFINE x == Doing("read", hostCodes)
  <2>1. /\ edit[e] = Idle /\ edit' = [edit EXCEPT ![e] = x]
        /\ UNCHANGED <<now, hostCodes, lastsTo, withdrawn, undone, vmCodes, astray, entering, cookie>>
    BY <1>0 DEF ReadStore
  <2>2. x \in Edits /\ x.at = "read" /\ x.codes = hostCodes
    BY <1>t, <1>i DEF SeatTypes
  <2> HIDE DEF x
  <2>3. /\ edit' \in [Editors -> Edits]
        /\ \A f \in Editors : edit'[f] = IF f = e THEN x ELSE edit[f]
    BY <1>e, <2>1, <2>2
  <2>4. SeatTypes' /\ RevokedAreOut' /\ CopyIsTrue'
    BY <1>t, <1>i, <2>1, <2>2, <2>3 DEF SeatTypes, RevokedAreOut, CopyIsTrue
  <2> QED
    BY <1>k, <2>1, <2>4 DEF SeatInv
<1>1. ASSUME NEW e \in Editors, NEW k \in Codes, NEW life \in Lives,
             NEW by \in {"route", "command"}, MintCode(e, k, life, by)
      PROVE  SeatInv'
  <2> DEFINE x == IF by = "route" THEN Doing("saved", {}) ELSE Idle
             fresh == {j \in edit[e].codes : lastsTo[j] > now}
  <2>1. /\ edit[e].at = "read" /\ lastsTo[k] = 0 /\ lastsTo' = [lastsTo EXCEPT ![k] = now + life]
        /\ hostCodes' = fresh \cup {k}
        /\ undone' = (undone \/ hostCodes' \cap withdrawn # {})
        /\ edit' = [edit EXCEPT ![e] = x]
        /\ UNCHANGED <<now, withdrawn, vmCodes, astray, entering, cookie>>
    BY <1>1 DEF MintCode, SaveStore
  <2>2. now + life \in Nat /\ now + life # 0
    BY <1>t, <1>s DEF SeatTypes
  <2>3. x \in Edits /\ x.at \in {"idle", "saved"} /\ x.codes = {}
    BY <1>i
  <2>4. fresh \subseteq edit[e].codes /\ edit[e].codes \subseteq Codes
    BY <1>t DEF SeatTypes, Edits
  <2> HIDE DEF x, fresh
  <2>5. /\ edit' \in [Editors -> Edits]
        /\ \A f \in Editors : edit'[f] = IF f = e THEN x ELSE edit[f]
    BY <1>e, <2>1, <2>3
  <2>6. /\ lastsTo' \in [Codes -> Nat] /\ lastsTo'[k] # 0
        /\ \A j \in Codes \ {k} : lastsTo'[j] = lastsTo[j]
    BY <1>t, <2>1, <2>2 DEF SeatTypes
  <2>7. SeatTypes'
    BY <1>t, <2>1, <2>4, <2>5, <2>6 DEF SeatTypes
  <2>8. RevokedAreOut'
    <3>1. \A j \in Codes : lastsTo[j] # 0 => lastsTo'[j] # 0
      BY <2>6
    <3>2. \A f \in Editors : edit[f].codes \subseteq Codes
      BY <1>t DEF SeatTypes, Edits
    <3>3. /\ \A j \in withdrawn : j \in Codes /\ lastsTo[j] # 0
          /\ \A f \in Editors : \A j \in edit[f].codes : lastsTo[j] # 0
      BY <1>t DEF RevokedAreOut
    <3>4. \A j \in withdrawn' : j \in Codes /\ lastsTo'[j] # 0
      BY <2>1, <3>1, <3>3
    <3>5. \A j \in hostCodes' : lastsTo'[j] # 0
      BY <2>1, <2>4, <2>6, <3>1, <3>3
    <3>6. \A f \in Editors : \A j \in edit'[f].codes : lastsTo'[j] # 0
      BY <2>3, <2>5, <3>1, <3>2, <3>3
    <3>7. undone' \/ hostCodes' \cap withdrawn' = {}
      BY <2>1
    <3> QED
      BY <3>4, <3>5, <3>6, <3>7 DEF RevokedAreOut
  <2>9. CopyIsTrue'
    BY <1>t, <2>1, <2>3, <2>5 DEF CopyIsTrue
  <2> QED
    BY <1>k, <2>1, <2>6, <2>7, <2>8, <2>9 DEF SeatInv
<1>2. ASSUME NEW e \in Editors, NEW k \in Codes,
             NEW by \in {"route", "command"}, RevokeCode(e, k, by)
      PROVE  SeatInv'
  <2> DEFINE x == IF by = "route" THEN Doing("saved", {}) ELSE Idle
             codes == edit[e].codes
  <2>1. /\ edit[e].at = "read"
        /\ withdrawn' = withdrawn \cup ({k} \cap codes)
        /\ hostCodes' = codes \ {k}
        /\ undone' = (undone \/ hostCodes' \cap withdrawn' # {})
        /\ edit' = [edit EXCEPT ![e] = x]
        /\ astray' = (astray \/ (by = "command" /\ k \in codes))
        /\ UNCHANGED <<now, lastsTo, vmCodes, entering, cookie>>
    BY <1>2 DEF RevokeCode, SaveStore
  <2>2. x \in Edits /\ x.codes = {} /\ (by = "route" => x.at = "saved") /\ (by = "command" => x.at = "idle")
    BY <1>i
  <2>3. codes \subseteq Codes /\ \A j \in codes : lastsTo[j] # 0
    BY <1>t DEF SeatTypes, Edits, RevokedAreOut
  <2> HIDE DEF x, codes
  <2>4. /\ edit' \in [Editors -> Edits]
        /\ \A f \in Editors : edit'[f] = IF f = e THEN x ELSE edit[f]
    BY <1>e, <2>1, <2>2
  <2>5. SeatTypes'
    BY <1>t, <2>1, <2>3, <2>4 DEF SeatTypes
  <2>6. RevokedAreOut'
    BY <1>t, <2>1, <2>2, <2>3, <2>4 DEF RevokedAreOut
  <2>7. CopyIsTrue'
    <3>1. CASE by = "route"
      <4>1. edit'[e].at = "saved" /\ \A f \in Editors : edit'[f].at = "push" => edit[f].at = "push"
        BY <2>2, <2>4, <3>1
      <4>2. (undone => undone') /\ (astray => astray')
        BY <2>1
      <4>3. CASE undone \/ astray
        BY <4>2, <4>3 DEF CopyIsTrue
      <4>4. CASE \A f, g \in Editors : edit[f].at = "push" /\ edit[g].at = "push" => f = g
        BY <4>1, <4>4 DEF CopyIsTrue
      <4> QED
        BY <1>t, <4>3, <4>4 DEF CopyIsTrue
    <3>2. CASE by = "command" /\ k \in codes
      BY <2>1, <3>2 DEF CopyIsTrue
    <3>3. CASE by = "command" /\ k \notin codes
      <4>1. withdrawn' = withdrawn /\ (undone => undone') /\ (astray => astray')
        BY <2>1, <3>3
      <4>2. edit'[e].at = "idle" /\ \A f \in Editors : f # e => edit'[f] = edit[f]
        BY <2>2, <2>4, <3>3
      <4> QED
        BY <1>t, <2>1, <2>4, <4>1, <4>2 DEF CopyIsTrue
    <3> QED
      BY <3>1, <3>2, <3>3
  <2> QED
    BY <1>k, <2>1, <2>5, <2>6, <2>7 DEF SeatInv
<1>3. ASSUME NEW e \in Editors, CopyStore(e)
      PROVE  SeatInv'
  <2> DEFINE x == Doing("push", hostCodes)
  <2>1. /\ edit[e].at = "saved" /\ edit' = [edit EXCEPT ![e] = x]
        /\ astray' = \E f \in Editors : edit[f].at = "push"
        /\ UNCHANGED <<now, hostCodes, lastsTo, withdrawn, undone, vmCodes, entering, cookie>>
    BY <1>3 DEF CopyStore
  <2>2. x \in Edits /\ x.at = "push" /\ x.codes = hostCodes
    BY <1>t, <1>i DEF SeatTypes
  <2> HIDE DEF x
  <2>3. /\ edit' \in [Editors -> Edits]
        /\ \A f \in Editors : edit'[f] = IF f = e THEN x ELSE edit[f]
    BY <1>e, <2>1, <2>2
  <2>4. SeatTypes' /\ RevokedAreOut'
    BY <1>t, <2>1, <2>2, <2>3 DEF SeatTypes, RevokedAreOut
  <2>5. CopyIsTrue'
    BY <1>t, <2>1, <2>2, <2>3 DEF RevokedAreOut, CopyIsTrue
  <2> QED
    BY <1>k, <2>1, <2>4, <2>5 DEF SeatInv
<1>4. ASSUME NEW e \in Editors, PushArrives(e)
      PROVE  SeatInv'
  <2>1. /\ edit[e].at = "push" /\ edit' = [edit EXCEPT ![e] = Idle]
        /\ \/ vmCodes' = edit[e].codes /\ UNCHANGED astray
           \/ vmCodes' = vmCodes /\ astray' = TRUE
        /\ UNCHANGED <<now, hostCodes, lastsTo, withdrawn, undone, entering, cookie>>
    BY <1>4 DEF PushArrives
  <2>2. /\ edit' \in [Editors -> Edits]
        /\ \A f \in Editors : edit'[f] = IF f = e THEN Idle ELSE edit[f]
    BY <1>e, <1>i, <2>1
  <2>3. edit[e].codes \subseteq Codes
    BY <1>t DEF SeatTypes, Edits
  <2>4. SeatTypes' /\ RevokedAreOut'
    BY <1>t, <1>i, <2>1, <2>2, <2>3 DEF SeatTypes, RevokedAreOut
  <2>5. CopyIsTrue'
    BY <1>t, <1>i, <2>1, <2>2 DEF CopyIsTrue
  <2> QED
    BY <1>k, <2>1, <2>4, <2>5 DEF SeatInv
<1>12. ASSUME NEW e \in Editors, VmStarts(e)
       PROVE  SeatInv'
  <2> DEFINE x == Doing("saved", {})
  <2>1. /\ edit[e] = Idle /\ edit' = [edit EXCEPT ![e] = x] /\ vmCodes' = {}
        /\ UNCHANGED <<now, hostCodes, lastsTo, withdrawn, undone, astray, entering, cookie>>
    BY <1>12 DEF VmStarts
  <2>2. x \in Edits /\ x.at = "saved" /\ x.codes = {}
    BY <1>i
  <2> HIDE DEF x
  <2>3. /\ edit' \in [Editors -> Edits]
        /\ \A f \in Editors : edit'[f] = IF f = e THEN x ELSE edit[f]
    BY <1>e, <2>1, <2>2
  <2>4. SeatTypes' /\ RevokedAreOut' /\ CopyIsTrue'
    BY <1>t, <2>1, <2>2, <2>3 DEF SeatTypes, RevokedAreOut, CopyIsTrue
  <2> QED
    BY <1>k, <2>1, <2>4 DEF SeatInv
<1>5. ASSUME NEW g \in Browsers, NEW k \in Codes, VerifyCode(g, k)
      PROVE  SeatInv'
  <2> DEFINE e == [code |-> k, ttl |-> lastsTo[k] - now, at |-> now,
                   stale |-> CopyIsOld, revoked |-> k \in withdrawn]
  <2>1. /\ k \in vmCodes /\ lastsTo[k] > now /\ entering' = [entering EXCEPT ![g] = e]
        /\ UNCHANGED <<now, hostCodes, lastsTo, withdrawn, undone, edit, vmCodes, astray, cookie>>
    BY <1>5 DEF VerifyCode
  <2>2. k \in withdrawn => CopyIsOld
    BY <1>t, <2>1 DEF CopyIsTrue, CopyIsOld
  <2>3. lastsTo[k] \in Nat /\ now \in Nat
    BY <1>t DEF SeatTypes
  <2>4. TimedLogin(e)
    <3>1. /\ e.code = k /\ e.ttl = lastsTo[k] - now /\ e.at = now
          /\ e.stale = CopyIsOld /\ e.revoked = (k \in withdrawn)
      OBVIOUS
    <3>2. k \in Codes /\ lastsTo[k] - now \in Nat /\ lastsTo[k] = now + (lastsTo[k] - now)
          /\ lastsTo[k] # 0 /\ now <= now + MaxPause
      BY <1>s, <2>1, <2>3
    <3>3. e.revoked => e.stale
      BY <2>2, <3>1
    <3> HIDE DEF e
    <3> QED
      BY <2>3, <3>1, <3>2, <3>3 DEF TimedLogin
  <2> HIDE DEF e
  <2>5. \A h \in Browsers : entering'[h] = IF h = g THEN e ELSE entering[h]
    BY <1>t, <2>1 DEF SeatTypes
  <2>6. SeatTypes' /\ RevokedAreOut' /\ CopyIsTrue'
    BY <1>t, <2>1 DEF SeatTypes, RevokedAreOut, CopyIsTrue
  <2> QED
    BY <2>1, <2>4, <2>5, <2>6 DEF SeatInv, TimedLogin, TimedSeat
<1>6. ASSUME NEW g \in Browsers, GrantSeat(g)
      PROVE  SeatInv'
  <2> DEFINE e == entering[g]
             seat == [code |-> e.code, exp |-> now + e.ttl, stale |-> e.stale, revoked |-> e.revoked]
  <2>1. /\ e # Absent /\ cookie' = [cookie EXCEPT ![g] = seat]
        /\ entering' = [entering EXCEPT ![g] = Absent]
        /\ UNCHANGED <<now, hostCodes, lastsTo, withdrawn, undone, edit, vmCodes, astray>>
    BY <1>6 DEF GrantSeat, SeatExpiry
  <2>2. TimedLogin(e) /\ lastsTo[e.code] \in Nat /\ now \in Nat
    BY <1>t, <2>1 DEF SeatInv, SeatTypes, TimedLogin
  <2>3. TimedSeat(seat)
    BY <1>s, <2>2 DEF TimedLogin, TimedSeat
  <2> HIDE DEF seat
  <2>4. \A h \in Browsers : /\ cookie'[h] = IF h = g THEN seat ELSE cookie[h]
                            /\ entering'[h] = IF h = g THEN Absent ELSE entering[h]
    BY <1>t, <2>1 DEF SeatTypes
  <2>5. SeatTypes' /\ RevokedAreOut' /\ CopyIsTrue'
    BY <1>t, <2>1 DEF SeatTypes, RevokedAreOut, CopyIsTrue
  <2> QED
    BY <2>1, <2>3, <2>4, <2>5 DEF SeatInv, TimedLogin, TimedSeat
<1>7. CASE SecondPasses
  <2>1. /\ \A g \in Browsers : entering[g] # Absent => now - entering[g].at < MaxPause
        /\ now' = now + 1
        /\ UNCHANGED <<hostCodes, lastsTo, withdrawn, undone, edit, vmCodes, astray, entering, cookie>>
    BY <1>7 DEF SecondPasses
  <2>2. SeatTypes' /\ RevokedAreOut' /\ CopyIsTrue'
    BY <1>t, <2>1 DEF SeatTypes, RevokedAreOut, CopyIsTrue
  <2>3. ASSUME NEW g \in Browsers, entering[g] # Absent
        PROVE  TimedLogin(entering[g])'
    <3>1. TimedLogin(entering[g]) /\ now - entering[g].at < MaxPause
      BY <2>1, <2>3 DEF SeatInv
    <3> QED
      BY <1>t, <1>s, <2>1, <3>1 DEF TimedLogin, SeatTypes
  <2>4. \A g \in Browsers : cookie[g] # Absent => TimedSeat(cookie[g])'
    BY <2>1 DEF SeatInv, TimedSeat
  <2> QED
    BY <2>1, <2>2, <2>3, <2>4 DEF SeatInv
<1>8. ASSUME UNCHANGED <<now, hostCodes, lastsTo, withdrawn, undone, edit, vmCodes, astray, entering, cookie>>
      PROVE  SeatInv'
  BY <1>t, <1>k, <1>8 DEF SeatInv, SeatTypes, RevokedAreOut, CopyIsTrue
<1>9. CASE VmStops
  BY <1>8, <1>9 DEF VmStops
<1>10. ASSUME NEW g \in Browsers, NEW k \in Codes, InvalidCode(g, k)
       PROVE  SeatInv'
  BY <1>8, <1>10 DEF InvalidCode, seatVars
<1>11. CASE UNCHANGED seatVars
  BY <1>8, <1>11 DEF seatVars
<1> QED
  BY <1>0, <1>1, <1>2, <1>3, <1>4, <1>5, <1>6, <1>7, <1>9, <1>10, <1>11, <1>12 DEF SeatsNext

\* For any codes, lives, editors and guests: a page is served only while the code of the
\* session lasts, give or take one login, and for a code revoked before the login only
\* where the machine was not told, or the store was set back by an overlapping edit.
THEOREM SeatsHaveCodes == SeatsSpec => []ServedHadCode
<1>1. SeatInv => ServedHadCode
  <2> SUFFICES ASSUME SeatInv, NEW g \in Browsers, Gate(g, "page") = "served"
               PROVE  /\ now < lastsTo[cookie[g].code] + MaxPause
                      /\ cookie[g].revoked => cookie[g].stale
    BY DEF ServedHadCode
  <2>1. cookie[g] # Absent /\ cookie[g].exp > now
    BY DEF Gate, SessionActive
  <2>2. TimedSeat(cookie[g]) /\ now \in Nat /\ lastsTo[cookie[g].code] \in Nat
    BY <2>1 DEF SeatInv, SeatTypes, TimedSeat
  <2> QED
    BY <2>1, <2>2, SeatsAssumption DEF TimedSeat
<1> QED
  BY SeatInvInit, SeatInvNext, <1>1, PTL DEF SeatsSpec

-----------------------------------------------------------------------------
(* The metadata store.                                                     *)

Snapshots == [Chats -> [title : BOOLEAN, total : Nat, models : [Models -> Nat]]]

\* The types the argument needs.
SaveTypes ==
  /\ map \in Snapshots /\ queue \in Seq(Snapshots)
  /\ inHand = <<>> \/ (\E m \in Snapshots : inHand = <<m>>)
  /\ disk \in Snapshots
  /\ deleting \in [Chats -> {"no", "files", "meta", "done"}]

\* What is to be written last is the map.
NewestIsMap ==
  /\ queue # <<>> => queue[Len(queue)] = map
  /\ queue = <<>> /\ inHand # <<>> => inHand[1] = map

\* A deletion that has removed the files has removed them all, unless they came back.
FilesAreGone ==
  \A c \in Chats :
    deleting[c] \in {"meta", "done"} /\ c \notin rewritten => \A f \in files : f[2] # c

SaveInv == SaveTypes /\ NewestIsMap /\ QuietFileIsCurrent /\ FilesAreGone /\ DeletedIsGone

LEMMA SaveInvInit == MetaInit => SaveInv
<1> SUFFICES ASSUME MetaInit PROVE SaveInv
  OBVIOUS
<1>1. map \in Snapshots
  BY DEF MetaInit, Snapshots, NoEntry
<1> QED
  <2>1. /\ disk = map /\ queue = <<>> /\ inHand = <<>> /\ unsaved = FALSE
        /\ deleting = [c \in Chats |-> "no"]
    BY DEF MetaInit
  <2>2. SaveTypes
    BY <1>1, <2>1 DEF SaveTypes
  <2> QED
    BY <2>1, <2>2 DEF SaveInv, NewestIsMap, QuietFileIsCurrent, FilesAreGone, DeletedIsGone

\* The whole map is sent with every change.
LEMMA ChangeKeeps ==
  ASSUME SaveTypes, NEW m \in Snapshots, Change(m), UNCHANGED <<inHand, disk, unsaved>>
  PROVE  /\ map' = m /\ queue' \in Seq(Snapshots)
         /\ NewestIsMap' /\ QuietFileIsCurrent'
<1>1. map' = m /\ queue' = Append(queue, m) /\ queue \in Seq(Snapshots)
  BY DEF Change, SaveTypes
<1>2. queue' \in Seq(Snapshots) /\ queue' # <<>> /\ queue'[Len(queue')] = m
  BY <1>1
<1> QED
  BY <1>1, <1>2 DEF NewestIsMap, QuietFileIsCurrent

\* A chat that is written again comes back, and says so.
LEMMA RewriteKeeps ==
  ASSUME SaveTypes, FilesAreGone, DeletedIsGone, NEW c \in Chats, Rewrite(c), UNCHANGED deleting,
         \A d \in Chats \ {c} : map'[d] = map[d],
         \A f \in files' : f \in files \/ f[2] = c
  PROVE  FilesAreGone' /\ DeletedIsGone'
<1>1. \A d \in Chats : d \notin rewritten' /\ deleting[d] # "no" => d # c /\ d \notin rewritten
  BY DEF Rewrite
<1>2. \A d \in Chats : d \notin rewritten' /\ deleting[d] \in {"meta", "done"} =>
         \A f \in files' : f[2] # d
  BY <1>1 DEF FilesAreGone
<1> QED
  BY <1>1, <1>2 DEF FilesAreGone, DeletedIsGone, Present

\* Every step keeps it.
LEMMA SaveInvNext == SaveInv /\ [MetaNext]_metaVars => SaveInv'
<1> SUFFICES ASSUME SaveInv, [MetaNext]_metaVars
             PROVE  SaveInv'
  OBVIOUS
<1>t. SaveTypes /\ NewestIsMap /\ QuietFileIsCurrent /\ FilesAreGone /\ DeletedIsGone
  BY DEF SaveInv
<1>1. ASSUME NEW c \in Chats, NEW title \in BOOLEAN, SetMeta(c, title)
      PROVE  SaveInv'
  <2> DEFINE m == [map EXCEPT ![c].title = title]
  <2>1. m \in Snapshots /\ \A d \in Chats \ {c} : m[d] = map[d]
    <3>1. map \in Snapshots /\ DOMAIN map = Chats
          /\ map[c] \in [title : BOOLEAN, total : Nat, models : [Models -> Nat]]
      BY <1>t DEF SaveTypes, Snapshots
    <3>2. [map[c] EXCEPT !.title = title] \in [title : BOOLEAN, total : Nat, models : [Models -> Nat]]
      BY <3>1
    <3>3. m = [map EXCEPT ![c] = [map[c] EXCEPT !.title = title]]
      BY <3>1
    <3> HIDE DEF m
    <3>4. \A d \in Chats \ {c} : m[d] = map[d]
      BY <3>1, <3>3
    <3> QED
      BY <3>1, <3>2, <3>3, <3>4 DEF Snapshots
  <2>2. Change(m) /\ Rewrite(c) /\ files' = files \cup {<<Engine, c>>}
        /\ UNCHANGED <<inHand, disk, unsaved, deleting>>
    BY <1>1 DEF SetMeta
  <2> HIDE DEF m
  <2>3. map' = m /\ queue' \in Seq(Snapshots) /\ NewestIsMap' /\ QuietFileIsCurrent'
    BY <1>t, <2>1, <2>2, ChangeKeeps
  <2>4. FilesAreGone' /\ DeletedIsGone'
    BY <1>t, <2>1, <2>2, <2>3, RewriteKeeps
  <2> QED
    BY <1>t, <2>1, <2>2, <2>3, <2>4 DEF SaveInv, SaveTypes
<1>2. ASSUME NEW c \in Chats, SaveTranscript(c)
      PROVE  SaveInv'
  <2>1. Rewrite(c) /\ files' = files \cup {<<Engine, c>>}
        /\ UNCHANGED <<map, queue, inHand, disk, unsaved, deleting>>
    BY <1>2 DEF SaveTranscript
  <2>2. FilesAreGone' /\ DeletedIsGone'
    BY <1>t, <2>1, RewriteKeeps
  <2> QED
    BY <1>t, <2>1, <2>2 DEF SaveInv, SaveTypes, NewestIsMap, QuietFileIsCurrent
<1>3. ASSUME NEW c \in Chats, NEW model \in AllModels, ResultLine(c, model)
      PROVE  SaveInv'
  <2> DEFINE used == IF model = NoModel THEN tracker[c] ELSE model
             m == [map EXCEPT ![c] = RecordTurn(@, used)]
  <2>1. m \in Snapshots /\ \A d \in Chats \ {c} : m[d] = map[d]
    <3>1. map[c] \in [title : BOOLEAN, total : Nat, models : [Models -> Nat]]
      BY <1>t DEF SaveTypes, Snapshots
    <3>2. RecordTurn(map[c], used) \in [title : BOOLEAN, total : Nat, models : [Models -> Nat]]
      <4> DEFINE e == map[c]
                 counts == [n \in Models |-> IF n = used THEN e.models[n] + 1 ELSE e.models[n]]
      <4>1. counts \in [Models -> Nat] /\ e.total + 1 \in Nat
        <5>1. e.models \in [Models -> Nat] /\ e.total \in Nat
          BY <3>1
        <5>2. \A n \in Models : e.models[n] \in Nat /\ e.models[n] + 1 \in Nat
          BY <5>1
        <5> HIDE DEF used
        <5> QED
          BY <5>1, <5>2
      <4>2. RecordTurn(e, used) = [e EXCEPT !.total = e.total + 1, !.models = counts]
        BY DEF RecordTurn
      <4> HIDE DEF counts
      <4> QED
        BY <3>1, <4>1, <4>2
    <3>3. m = [map EXCEPT ![c] = RecordTurn(map[c], used)]
      OBVIOUS
    <3> QED
      BY <1>t, <3>2, <3>3 DEF SaveTypes, Snapshots
  <2>2. Change(m) /\ Rewrite(c) /\ UNCHANGED <<inHand, disk, unsaved, deleting, files>>
    BY <1>3 DEF ResultLine
  <2> HIDE DEF m
  <2>3. map' = m /\ queue' \in Seq(Snapshots) /\ NewestIsMap' /\ QuietFileIsCurrent'
    BY <1>t, <2>1, <2>2, ChangeKeeps
  <2>4. FilesAreGone' /\ DeletedIsGone'
    BY <1>t, <2>1, <2>2, <2>3, RewriteKeeps
  <2> QED
    BY <1>t, <2>1, <2>2, <2>3, <2>4 DEF SaveInv, SaveTypes
<1>4. ASSUME NEW c \in Chats, DeleteChat(c)
      PROVE  SaveInv'
  <2>1. /\ deleting' = [deleting EXCEPT ![c] = "files"] /\ rewritten' = rewritten \ {c}
        /\ UNCHANGED <<map, queue, inHand, disk, unsaved, files>>
    BY <1>4 DEF DeleteChat
  <2>2. SaveTypes' /\ NewestIsMap' /\ QuietFileIsCurrent'
    BY <1>t, <2>1 DEF SaveTypes, NewestIsMap, QuietFileIsCurrent
  <2>3. \A d \in Chats : deleting'[d] = IF d = c THEN "files" ELSE deleting[d]
    BY <1>t, <2>1 DEF SaveTypes
  <2>4. FilesAreGone' /\ DeletedIsGone'
    BY <1>t, <2>1, <2>3 DEF FilesAreGone, DeletedIsGone, Present
  <2> QED
    BY <2>2, <2>4 DEF SaveInv
<1>5. ASSUME NEW c \in Chats, DeleteFiles(c)
      PROVE  SaveInv'
  <2>1. PICK spared \in SUBSET {f \in files : f[2] = c} :
          /\ files' = {f \in files : f[2] # c} \cup spared
          /\ rewritten' = IF spared = {} THEN rewritten ELSE rewritten \cup {c}
    BY <1>5 DEF DeleteFiles
  <2>2. /\ deleting' = [deleting EXCEPT ![c] = "meta"]
        /\ UNCHANGED <<map, queue, inHand, disk, unsaved>>
    BY <1>5 DEF DeleteFiles
  <2>3. SaveTypes' /\ NewestIsMap' /\ QuietFileIsCurrent'
    BY <1>t, <2>1, <2>2 DEF SaveTypes, NewestIsMap, QuietFileIsCurrent
  <2>4. \A d \in Chats : deleting'[d] = IF d = c THEN "meta" ELSE deleting[d]
    BY <1>t, <2>2 DEF SaveTypes
  <2>5. \A d \in Chats : d \notin rewritten' =>
          d \notin rewritten /\ (d = c => \A f \in files' : f[2] # c)
    BY <2>1
  <2>6. \A f \in files' : f \in files
    BY <2>1
  <2>7. FilesAreGone'
    BY <1>t, <2>4, <2>5, <2>6 DEF FilesAreGone
  <2>8. DeletedIsGone'
    BY <1>t, <2>2, <2>4, <2>5, <2>6 DEF DeletedIsGone, Present
  <2> QED
    BY <2>3, <2>7, <2>8 DEF SaveInv
<1>6. ASSUME NEW c \in Chats, DeleteMeta(c)
      PROVE  SaveInv'
  <2> DEFINE m == [map EXCEPT ![c] = NoEntry]
  <2>1. /\ deleting' = [deleting EXCEPT ![c] = "done"]
        /\ UNCHANGED <<inHand, disk, unsaved, files, rewritten>>
        /\ IF c \in Present(map) THEN Change(m) ELSE UNCHANGED <<map, queue>>
    BY <1>6 DEF DeleteMeta
  <2>2. m \in Snapshots
    BY <1>t DEF SaveTypes, Snapshots, NoEntry
  <2>a. m[c] = NoEntry /\ \A d \in Chats \ {c} : m[d] = map[d]
    BY <1>t DEF SaveTypes, Snapshots
  <2> HIDE DEF m
  <2>3. map' \in Snapshots /\ queue' \in Seq(Snapshots) /\ NewestIsMap' /\ QuietFileIsCurrent'
    <3>1. CASE c \in Present(map)
      BY <1>t, <2>1, <2>2, <3>1, ChangeKeeps
    <3>2. CASE c \notin Present(map)
      BY <1>t, <2>1, <3>2 DEF SaveTypes, NewestIsMap, QuietFileIsCurrent
    <3> QED BY <3>1, <3>2
  <2>4. map'[c] = NoEntry /\ \A d \in Chats \ {c} : map'[d] = map[d]
    BY <1>t, <2>1, <2>a DEF Change, Present
  <2>5. \A d \in Chats : deleting'[d] = IF d = c THEN "done" ELSE deleting[d]
    BY <1>t, <2>1 DEF SaveTypes
  <2>6. deleting[c] = "meta"
    BY <1>6 DEF DeleteMeta
  <2>7. FilesAreGone'
    BY <1>t, <2>1, <2>5, <2>6 DEF FilesAreGone
  <2>8. DeletedIsGone'
    BY <1>t, <2>1, <2>4, <2>5, <2>6 DEF FilesAreGone, DeletedIsGone, Present
  <2>9. SaveTypes'
    BY <1>t, <2>1, <2>3 DEF SaveTypes
  <2> QED
    BY <2>3, <2>7, <2>8, <2>9 DEF SaveInv
<1>7. CASE WriterTakes
  <2>1. /\ inHand = <<>> /\ queue # <<>> /\ inHand' = <<Last(queue)>> /\ queue' = <<>>
        /\ UNCHANGED <<map, disk, unsaved, files, deleting, rewritten>>
    BY <1>7 DEF WriterTakes
  <2>2. Last(queue) = map /\ map \in Snapshots
    BY <1>t, <2>1 DEF NewestIsMap, Last, SaveTypes
  <2>3. SaveTypes' /\ NewestIsMap' /\ QuietFileIsCurrent'
    BY <1>t, <2>1, <2>2 DEF SaveTypes, NewestIsMap, QuietFileIsCurrent
  <2> QED
    BY <1>t, <2>1, <2>3 DEF SaveInv, FilesAreGone, DeletedIsGone
<1>8. CASE WriterWrites
  <2>1. /\ inHand # <<>> /\ inHand' = <<>>
        /\ \/ disk' = inHand[1] /\ unsaved' = FALSE
           \/ disk' = disk /\ unsaved' = TRUE
        /\ UNCHANGED <<map, queue, files, deleting, rewritten>>
    BY <1>8 DEF WriterWrites
  <2>2. inHand[1] \in Snapshots
    BY <1>t, <2>1 DEF SaveTypes
  <2>3. SaveTypes' /\ NewestIsMap' /\ QuietFileIsCurrent'
    BY <1>t, <2>1, <2>2 DEF SaveTypes, NewestIsMap, QuietFileIsCurrent
  <2> QED
    BY <1>t, <2>1, <2>3 DEF SaveInv, FilesAreGone, DeletedIsGone
<1>9. CASE ServerRestarts
  <2>1. /\ map' = disk /\ queue' = <<>> /\ inHand' = <<>> /\ disk' = disk
        /\ deleting' = [c \in Chats |-> "no"]
    BY <1>9 DEF ServerRestarts
  <2>2. SaveTypes'
    BY <1>t, <2>1 DEF SaveTypes
  <2> QED
    BY <2>1, <2>2 DEF SaveInv, NewestIsMap, QuietFileIsCurrent, FilesAreGone, DeletedIsGone
<1>10. ASSUME UNCHANGED <<map, queue, inHand, disk, unsaved, files, deleting, rewritten>>
       PROVE  SaveInv'
  BY <1>t, <1>10 DEF SaveInv, SaveTypes, NewestIsMap, QuietFileIsCurrent, FilesAreGone,
                     DeletedIsGone
<1>11. ASSUME NEW c \in Chats, TurnBegins(c) \/ TurnLeavesNothing(c)
       PROVE  SaveInv'
  BY <1>10, <1>11 DEF TurnBegins, TurnLeavesNothing
<1>12. ASSUME NEW c \in Chats, NEW m \in Models, AssistantLine(c, m)
       PROVE  SaveInv'
  BY <1>10, <1>12 DEF AssistantLine
<1>13. CASE UNCHANGED metaVars
  BY <1>10, <1>13 DEF metaVars
<1> QED
  BY <1>1, <1>2, <1>3, <1>4, <1>5, <1>6, <1>7, <1>8, <1>9, <1>11, <1>12, <1>13 DEF MetaNext

\* For any chats and models, and any bounds of turns and names: a writer that is idle has
\* written the map as it is, and
THEOREM FileIsCurrent == MetaSpec => []QuietFileIsCurrent
<1>1. SaveInv => QuietFileIsCurrent
  BY DEF SaveInv
<1> QED
  BY SaveInvInit, SaveInvNext, <1>1, PTL DEF MetaSpec

\* a chat whose deletion has ended is gone, unless it was written again.
THEOREM DeletedStaysGone == MetaSpec => []DeletedIsGone
<1>1. SaveInv => DeletedIsGone
  BY DEF SaveInv
<1> QED
  BY SaveInvInit, SaveInvNext, <1>1, PTL DEF MetaSpec

-----------------------------------------------------------------------------
(* The MCP client.                                                         *)

InFlight == {"registered", "writing", "waiting", "late"}

\* The types the argument needs.
ServeTypes ==
  /\ next_id \in Nat /\ next_id >= 2
  /\ callAt \in [McpCalls -> InFlight \cup {"none", "done"}]
  /\ idOf \in [McpCalls -> Nat]
  /\ outcome \in [McpCalls -> Outcomes] /\ box \in [McpCalls -> Outcomes]

\* Calls in flight have ids, fresh ones, each its own.
IdsAreOwn ==
  \A c \in McpCalls :
    /\ idOf[c] # 0 => idOf[c] \in 3 .. next_id
    /\ callAt[c] \in InFlight => idOf[c] # 0 /\ outcome[c] = Empty
    /\ callAt[c] = "none" => idOf[c] = 0 /\ outcome[c] = Empty
    /\ \A d \in McpCalls : idOf[c] = idOf[d] /\ idOf[c] # 0 => c = d

\* What waits is in flight, under its own id, and was sent nothing.
WaitersOwn ==
  \A i \in DOMAIN waiters :
    /\ waiters[i] \in McpCalls
    /\ idOf[waiters[i]] = i /\ i # 0
    /\ callAt[waiters[i]] \in InFlight /\ box[waiters[i]] = Empty

\* What a call was sent, and what it returned, bears its id or is a failure.
SentIsOwn ==
  \A c \in McpCalls :
    /\ HasId(box[c]) => box[c].id = idOf[c]
    /\ callAt[c] = "none" => box[c] = Empty
    /\ HasId(outcome[c]) => outcome[c].id = idOf[c]

\* The first half of WaitersAreExact.
WaitingAreKnown ==
  \A c \in McpCalls :
    callAt[c] \in {"registered", "writing", "waiting"} /\ box[c] = Empty =>
      idOf[c] \in DOMAIN waiters /\ waiters[idOf[c]] = c

ServeInv == ServeTypes /\ IdsAreOwn /\ WaitersOwn /\ SentIsOwn /\ WaitingAreKnown

\* The requests in the pipe, for which there is room, and those read were numbered.
RequestsKnown ==
  /\ toServer \in Seq(1 .. next_id) /\ Len(toServer) <= PipeCap
  /\ taken \subseteq 1 .. next_id

\* Whatever is an answer, in the pipe, at the call or returned, is one to a request that
\* the server has read.
AnswersRead ==
  /\ lines \in Seq(McpLines)
  /\ \A i \in 1 .. Len(lines) : lines[i].what = "answer" => lines[i].id \in taken
  /\ \A c \in McpCalls :
       /\ box[c].what = "answer" => box[c].id \in taken
       /\ outcome[c].what = "answer" => outcome[c].id \in taken

\* No failure is a line with an id.
LEMMA FailuresHaveNoId ==
  \A what \in {"nothing", "closed", "timed out", "not written", "not found"} :
    Failure(what) \in Outcomes /\ ~HasId(Failure(what)) /\ Failure(what).what # "answer"
BY DEF Failure, HasId, Outcomes

LEMMA EmptyIsNothing == Empty \in Outcomes /\ ~HasId(Empty) /\ Empty.what # "answer"
BY FailuresHaveNoId DEF Empty

LEMMA ServeInvInit == McpInit => ServeInv /\ RequestsKnown /\ AnswersRead
<1> SUFFICES ASSUME McpInit PROVE ServeInv /\ RequestsKnown /\ AnswersRead
  OBVIOUS
<1>1. /\ next_id = 2 /\ lines = <<>> /\ toServer = <<1>> /\ taken = {}
      /\ \A c \in McpCalls : callAt[c] = "none" /\ idOf[c] = 0 /\ outcome[c] = Empty /\ box[c] = Empty
      /\ callAt = [c \in McpCalls |-> "none"] /\ idOf = [c \in McpCalls |-> 0]
      /\ outcome = [c \in McpCalls |-> Empty] /\ box = [c \in McpCalls |-> Empty]
      /\ DOMAIN waiters = {}
  BY DEF McpInit
<1>2. ServeTypes
  BY <1>1, EmptyIsNothing DEF ServeTypes
<1>3. IdsAreOwn /\ WaitersOwn /\ SentIsOwn /\ WaitingAreKnown
  BY <1>1, EmptyIsNothing DEF IdsAreOwn, WaitersOwn, SentIsOwn, WaitingAreKnown, InFlight
<1>4. AnswersRead
  BY <1>1, EmptyIsNothing DEF AnswersRead
<1>5. RequestsKnown
  <2>1. 1 \in 1 .. next_id /\ Len(toServer) = 1
    BY <1>1
  <2> QED BY <1>1, <2>1, McpAssumption DEF RequestsKnown
<1> QED
  BY <1>2, <1>3, <1>4, <1>5 DEF ServeInv

\* A call moves on, in flight, and nothing else that matters changes.
LEMMA MovesOn ==
  ASSUME ServeInv, NEW c \in McpCalls, NEW stage \in InFlight, callAt[c] \in InFlight \ {"late"},
         callAt' = [callAt EXCEPT ![c] = stage],
         UNCHANGED <<idOf, outcome, next_id, waiters, box>>
  PROVE  ServeInv'
<1>1. \A d \in McpCalls : callAt'[d] = IF d = c THEN stage ELSE callAt[d]
  BY DEF ServeInv, ServeTypes
<1>2. callAt' \in [McpCalls -> InFlight \cup {"none", "done"}]
  BY DEF ServeInv, ServeTypes
<1> QED
  BY <1>1, <1>2 DEF ServeInv, ServeTypes, IdsAreOwn, WaitersOwn, SentIsOwn, WaitingAreKnown, InFlight

\* A call returns, and is no longer waited for.
LEMMA Returns ==
  ASSUME ServeInv, NEW c \in McpCalls, NEW what \in Outcomes, Return(c, what),
         HasId(what) => what.id = idOf[c],
         \A i \in DOMAIN waiters' :
           i \in DOMAIN waiters /\ waiters'[i] = waiters[i] /\ waiters[i] # c,
         \A i \in DOMAIN waiters : waiters[i] # c => i \in DOMAIN waiters',
         UNCHANGED <<idOf, next_id, box>>
  PROVE  ServeInv'
<1>1. /\ \A d \in McpCalls : callAt'[d] = IF d = c THEN "done" ELSE callAt[d]
      /\ \A d \in McpCalls : outcome'[d] = IF d = c THEN what ELSE outcome[d]
      /\ callAt' \in [McpCalls -> InFlight \cup {"none", "done"}]
      /\ outcome' \in [McpCalls -> Outcomes]
  BY DEF ServeInv, ServeTypes, Return
<1>2. ServeTypes' /\ IdsAreOwn'
  BY <1>1 DEF ServeInv, ServeTypes, IdsAreOwn, InFlight
<1>5. SentIsOwn'
  BY <1>1 DEF ServeInv, SentIsOwn
<1>3. WaitersOwn'
  BY <1>1 DEF ServeInv, WaitersOwn, InFlight
<1>4. WaitingAreKnown'
  BY <1>1 DEF ServeInv, WaitingAreKnown, InFlight
<1> QED
  BY <1>2, <1>3, <1>4, <1>5 DEF ServeInv

\* Only its own entry of the table names a call.
LEMMA UnwaitOwn ==
  ASSUME ServeInv, NEW c \in McpCalls, callAt[c] \in InFlight, Unwait(idOf[c])
  PROVE  /\ \A i \in DOMAIN waiters' :
              i \in DOMAIN waiters /\ waiters'[i] = waiters[i] /\ waiters[i] # c
         /\ \A i \in DOMAIN waiters : waiters[i] # c => i \in DOMAIN waiters'
<1>1. waiters' = [i \in DOMAIN waiters \ {idOf[c]} |-> waiters[i]]
  BY DEF Unwait, Restrict
<1>2. \A i \in DOMAIN waiters : waiters[i] = c => i = idOf[c]
  BY DEF ServeInv, WaitersOwn
<1>3. \A i \in DOMAIN waiters : i = idOf[c] => waiters[i] = c
  BY DEF ServeInv, WaitersOwn, IdsAreOwn
<1> QED
  BY <1>1, <1>2, <1>3

\* Every step keeps it.
LEMMA ServeInvNext == ServeInv /\ AnswersRead /\ [McpNext]_mcpVars => ServeInv'
<1> SUFFICES ASSUME ServeInv, AnswersRead, [McpNext]_mcpVars
             PROVE  ServeInv'
  OBVIOUS
<1>t. ServeTypes /\ IdsAreOwn /\ WaitersOwn /\ SentIsOwn /\ WaitingAreKnown
  BY DEF ServeInv
<1> USE DEF wireVars
<1>1. ASSUME NEW c \in McpCalls, CallNotFound(c)
      PROVE  ServeInv'
  <2>1. callAt[c] = "none" /\ Return(c, Failure("not found")) /\ UNCHANGED <<idOf, next_id, waiters, box>>
    BY <1>1 DEF CallNotFound
  <2>2. \A i \in DOMAIN waiters : waiters[i] # c
    BY <1>t, <2>1 DEF WaitersOwn, InFlight
  <2> QED
    BY <2>1, <2>2, Returns, FailuresHaveNoId
<1>2. ASSUME NEW c \in McpCalls, Register(c)
      PROVE  ServeInv'
  <2> DEFINE id == next_id + 1
  <2>1. /\ callAt[c] = "none" /\ callAt' = [callAt EXCEPT ![c] = "registered"]
        /\ idOf' = [idOf EXCEPT ![c] = id] /\ next_id' = id
        /\ waiters' = [i \in DOMAIN waiters \cup {id} |-> IF i = id THEN c ELSE waiters[i]]
        /\ UNCHANGED <<outcome, box>>
    BY <1>2 DEF Register
  <2>2. id \in Nat /\ id >= 3 /\ \A d \in McpCalls : idOf[d] < id
    BY <1>t DEF ServeTypes, IdsAreOwn
  <2>3. /\ \A d \in McpCalls : callAt'[d] = IF d = c THEN "registered" ELSE callAt[d]
        /\ \A d \in McpCalls : idOf'[d] = IF d = c THEN id ELSE idOf[d]
        /\ callAt' \in [McpCalls -> InFlight \cup {"none", "done"}]
        /\ idOf' \in [McpCalls -> Nat]
    BY <1>t, <2>1, <2>2 DEF ServeTypes, InFlight
  <2>4. outcome[c] = Empty /\ box[c] = Empty /\ idOf[c] = 0
    BY <1>t, <2>1 DEF IdsAreOwn, SentIsOwn
  <2>5. \A i \in DOMAIN waiters : i < id /\ waiters[i] # c
    BY <1>t, <2>1, <2>2 DEF WaitersOwn, InFlight
  <2>6. /\ id \in DOMAIN waiters' /\ waiters'[id] = c
        /\ \A i \in DOMAIN waiters : i \in DOMAIN waiters' /\ waiters'[i] = waiters[i]
        /\ \A i \in DOMAIN waiters' : i = id \/ i \in DOMAIN waiters
    BY <2>1, <2>2, <2>5
  <2> HIDE DEF id
  <2>7. ServeTypes'
    BY <1>t, <2>1, <2>2, <2>3 DEF ServeTypes
  <2>8. IdsAreOwn'
    <3>1. \A d \in McpCalls : idOf[d] # 0 => idOf[d] \in 3 .. id
      BY <1>t, <2>2 DEF IdsAreOwn, ServeTypes
    <3> QED
      BY <1>t, <2>1, <2>2, <2>3, <2>4, <3>1 DEF IdsAreOwn, InFlight
  <2>9. WaitersOwn'
    BY <1>t, <2>1, <2>2, <2>3, <2>4, <2>5, <2>6 DEF WaitersOwn, InFlight
  <2>10. SentIsOwn'
    BY <1>t, <2>1, <2>3, <2>4, EmptyIsNothing DEF SentIsOwn
  <2>11. WaitingAreKnown'
    BY <1>t, <2>1, <2>3, <2>6 DEF WaitingAreKnown
  <2> QED
    BY <2>7, <2>8, <2>9, <2>10, <2>11 DEF ServeInv
<1>3. ASSUME NEW c \in McpCalls, LockStdin(c) \/ WriteLine(c) \/ TimeOut(c)
      PROVE  ServeInv'
  BY <1>3, MovesOn DEF LockStdin, WriteLine, TimeOut, InFlight
<1>4. ASSUME NEW c \in McpCalls, WriteFails(c) \/ GiveUp(c)
      PROVE  ServeInv'
  <2>1. /\ callAt[c] \in InFlight /\ Unwait(idOf[c]) /\ UNCHANGED <<idOf, next_id, box>>
        /\ Return(c, Failure("not written")) \/ Return(c, Failure("timed out"))
    BY <1>4 DEF WriteFails, GiveUp, InFlight
  <2> QED
    BY <2>1, UnwaitOwn, Returns, FailuresHaveNoId
<1>5. ASSUME NEW c \in McpCalls, TakeAnswer(c)
      PROVE  ServeInv'
  <2>1. /\ callAt[c] = "waiting" /\ box[c] # Empty /\ Return(c, box[c])
        /\ UNCHANGED <<idOf, next_id, waiters, box>>
    BY <1>5 DEF TakeAnswer
  <2>2. box[c] \in Outcomes /\ (HasId(box[c]) => box[c].id = idOf[c])
    BY <1>t DEF ServeTypes, SentIsOwn
  <2>3. \A i \in DOMAIN waiters : waiters[i] # c
    BY <1>t, <2>1 DEF WaitersOwn
  <2> QED
    BY <2>1, <2>2, <2>3, Returns
<1>6. CASE Route
  <2> DEFINE line == Head(lines)
             i == line.id
  <2>1. /\ UNCHANGED <<callAt, idOf, outcome, next_id>>
        /\ \/ /\ HasId(line) /\ i \in DOMAIN waiters
              /\ waiters' = [j \in DOMAIN waiters \ {i} |-> waiters[j]]
              /\ box' = [box EXCEPT ![waiters[i]] = line]
           \/ UNCHANGED <<waiters, box>>
    BY <1>6 DEF Route, Unwait, Restrict
  <2>2. line \in McpLines /\ (HasId(line) => line \in Outcomes)
    <3>1. lines # <<>> /\ lines \in Seq(McpLines)
      BY <1>6 DEF Route, AnswersRead
    <3>2. line \in McpLines
      BY <3>1, TailEntries
    <3> HIDE DEF line
    <3> QED
      BY <3>2 DEF McpLines, Outcomes, HasId
  <2> HIDE DEF line
  <2>3. ASSUME HasId(line), i \in DOMAIN waiters,
               waiters' = [j \in DOMAIN waiters \ {i} |-> waiters[j]],
               box' = [box EXCEPT ![waiters[i]] = line]
        PROVE  ServeInv'
    <3> HIDE DEF i
    <3> DEFINE c == waiters[i]
    <3>1. c \in McpCalls /\ idOf[c] = i /\ i # 0 /\ callAt[c] \in InFlight
      BY <1>t, <2>3 DEF WaitersOwn
    <3>2. line.id = i /\ line # Empty /\ line \in Outcomes
      BY <2>2, <2>3, EmptyIsNothing DEF i
    <3>3. /\ \A d \in McpCalls : box'[d] = IF d = c THEN line ELSE box[d]
          /\ box' \in [McpCalls -> Outcomes]
      BY <1>t, <2>3, <3>1, <3>2 DEF ServeTypes
    <3>4. \A j \in DOMAIN waiters : j # i => waiters[j] # c
      BY <1>t, <3>1 DEF WaitersOwn
    <3> HIDE DEF c
    <3>5. ServeTypes' /\ IdsAreOwn'
      BY <1>t, <2>1, <3>3 DEF ServeTypes, IdsAreOwn
    <3>6. WaitersOwn'
      BY <1>t, <2>1, <2>3, <3>3, <3>4 DEF WaitersOwn
    <3>7. SentIsOwn'
      BY <1>t, <2>1, <3>1, <3>2, <3>3 DEF SentIsOwn, InFlight
    <3>8. WaitingAreKnown'
      BY <1>t, <2>1, <2>3, <3>1, <3>2, <3>3 DEF WaitingAreKnown, IdsAreOwn, InFlight
    <3> QED
      BY <3>5, <3>6, <3>7, <3>8 DEF ServeInv
  <2>4. CASE UNCHANGED <<waiters, box>>
    BY <1>t, <2>1, <2>4 DEF ServeInv, ServeTypes, IdsAreOwn, WaitersOwn, SentIsOwn, WaitingAreKnown
  <2> QED
    BY <2>1, <2>3, <2>4
<1>7. CASE ReaderEnds
  <2>1. /\ box' = [c \in McpCalls |-> IF c \in Range(waiters) THEN Failure("closed") ELSE box[c]]
        /\ waiters' = [j \in {} |-> 0]
        /\ UNCHANGED <<callAt, idOf, outcome, next_id>>
    BY <1>7 DEF ReaderEnds
  <2>2. \A c \in McpCalls : c \in Range(waiters) => callAt[c] \in InFlight
    BY <1>t DEF WaitersOwn, Range
  <2>3. \A c \in McpCalls : callAt[c] \in {"registered", "writing", "waiting"} /\ box[c] = Empty
          => c \in Range(waiters)
    BY <1>t DEF WaitingAreKnown, Range
  <2>4. /\ Failure("closed") \in Outcomes /\ ~HasId(Failure("closed"))
        /\ Failure("closed") # Empty
    BY FailuresHaveNoId DEF Failure, Empty
  <2>5. ServeTypes' /\ IdsAreOwn' /\ WaitersOwn'
    BY <1>t, <2>1, <2>4 DEF ServeTypes, IdsAreOwn, WaitersOwn
  <2>6. SentIsOwn'
    BY <1>t, <2>1, <2>2, <2>4 DEF SentIsOwn, InFlight
  <2>7. WaitingAreKnown'
    BY <1>t, <2>1, <2>3, <2>4 DEF WaitingAreKnown
  <2> QED
    BY <2>5, <2>6, <2>7 DEF ServeInv
<1>8. ASSUME UNCHANGED <<callAt, idOf, outcome, next_id, waiters, box>>
      PROVE  ServeInv'
  BY <1>t, <1>8 DEF ServeInv, ServeTypes, IdsAreOwn, WaitersOwn, SentIsOwn, WaitingAreKnown
<1>9. CASE HandshakeLine \/ HandshakeFails
  BY <1>8, <1>9 DEF HandshakeLine, HandshakeFails
<1>10. CASE ServerReads \/ ServerClosesOut \/ ServerDies
  BY <1>8, <1>10 DEF ServerReads, ServerClosesOut, ServerDies
<1>11. ASSUME NEW line, ServerSays(line)
       PROVE  ServeInv'
  BY <1>8, <1>11 DEF ServerSays
<1>12. CASE UNCHANGED mcpVars
  BY <1>8, <1>12 DEF mcpVars
<1> QED
  BY <1>1, <1>2, <1>3, <1>4, <1>5, <1>6, <1>7, <1>9, <1>10, <1>11, <1>12 DEF McpNext

\* Requests are written under ids that were given, where there is room.
LEMMA RequestsKnownNext == ServeInv /\ RequestsKnown /\ [McpNext]_mcpVars => RequestsKnown'
<1> SUFFICES ASSUME ServeInv, RequestsKnown, [McpNext]_mcpVars PROVE RequestsKnown'
  OBVIOUS
<1> USE DEF wireVars
<1>t. /\ toServer \in Seq(1 .. next_id) /\ Len(toServer) <= PipeCap
      /\ taken \subseteq 1 .. next_id
  BY DEF RequestsKnown
<1>n. next_id \in Nat /\ next_id >= 2 /\ PipeCap \in Nat /\ PipeCap >= 1 /\ Len(toServer) \in Nat
  BY <1>t, McpAssumption DEF ServeInv, ServeTypes
<1>w. ASSUME NEW i \in 1 .. next_id, Len(toServer) < PipeCap, toServer' = Append(toServer, i),
             UNCHANGED <<next_id, taken>>
      PROVE  RequestsKnown'
  <2>1. toServer' \in Seq(1 .. next_id) /\ Len(toServer') = Len(toServer) + 1
    BY <1>t, <1>w, AppendEntries
  <2> QED BY <1>t, <1>n, <1>w, <2>1 DEF RequestsKnown
<1>0. ASSUME UNCHANGED <<toServer, taken>>, next_id' \in {next_id, next_id + 1} PROVE RequestsKnown'
  <2>1. 1 .. next_id \subseteq 1 .. next_id'
    BY <1>n, <1>0
  <2>2. toServer \in Seq(1 .. next_id')
    BY <1>t, <2>1, SeqGrows
  <2> QED BY <1>t, <1>0, <2>1, <2>2 DEF RequestsKnown
<1>1. CASE HandshakeLine
  <2>1. /\ UNCHANGED <<next_id, taken>>
        /\ \/ Len(toServer) < PipeCap /\ toServer' = Append(toServer, 2)
           \/ UNCHANGED toServer
    BY <1>1 DEF HandshakeLine
  <2>2. 2 \in 1 .. next_id
    BY <1>n
  <2> QED BY <1>0, <1>w, <2>1, <2>2
<1>2. CASE HandshakeFails \/ ServerDies
  <2>1. toServer' = <<>> /\ UNCHANGED <<next_id, taken>>
    BY <1>2 DEF HandshakeFails, ServerDies
  <2>2. <<>> \in Seq(1 .. next_id) /\ Len(<<>>) = 0
    OBVIOUS
  <2> QED BY <1>t, <1>n, <2>1, <2>2 DEF RequestsKnown
<1>3. ASSUME NEW c \in McpCalls, WriteLine(c) PROVE RequestsKnown'
  <2>1. /\ callAt[c] = "writing" /\ Len(toServer) < PipeCap
        /\ toServer' = Append(toServer, idOf[c]) /\ UNCHANGED <<next_id, taken>>
    BY <1>3 DEF WriteLine
  <2>2. idOf[c] \in 1 .. next_id
    BY <1>n, <2>1 DEF ServeInv, IdsAreOwn, InFlight
  <2> QED BY <1>w, <2>1, <2>2
<1>4. CASE ServerReads
  <2>1. /\ toServer # <<>> /\ taken' = taken \cup {Head(toServer)} /\ toServer' = Tail(toServer)
        /\ UNCHANGED next_id
    BY <1>4 DEF ServerReads
  <2>2. /\ Tail(toServer) \in Seq(1 .. next_id) /\ Head(toServer) \in 1 .. next_id
        /\ Len(Tail(toServer)) = Len(toServer) - 1
    <3> DEFINE S == 1 .. next_id
    <3>1. toServer \in Seq(S) /\ toServer # <<>>
      BY <1>t, <2>1
    <3> HIDE DEF S
    <3>2. /\ Tail(toServer) \in Seq(S) /\ Head(toServer) \in S
          /\ Len(Tail(toServer)) = Len(toServer) - 1
      BY <3>1, TailEntries
    <3> QED BY <3>2 DEF S
  <2> DEFINE h == Head(toServer)
             rest == Tail(toServer)
  <2>3. toServer' = rest /\ taken' = taken \cup {h} /\ rest \in Seq(1 .. next_id)
        /\ h \in 1 .. next_id /\ Len(rest) = Len(toServer) - 1
    BY <2>1, <2>2
  <2> HIDE DEF h, rest
  <2>4. Len(rest) <= PipeCap
    BY <1>t, <1>n, <2>3
  <2> QED BY <1>t, <2>1, <2>3, <2>4 DEF RequestsKnown
<1>5. ASSUME NEW c \in McpCalls, CallNotFound(c) \/ LockStdin(c) \/ WriteFails(c)
        \/ TakeAnswer(c) \/ TimeOut(c) \/ GiveUp(c)
      PROVE  RequestsKnown'
  BY <1>0, <1>5 DEF CallNotFound, LockStdin, WriteFails, TakeAnswer, TimeOut, GiveUp
<1>6. ASSUME NEW c \in McpCalls, Register(c) PROVE RequestsKnown'
  BY <1>0, <1>6 DEF Register
<1>7. CASE Route \/ ReaderEnds \/ ServerClosesOut
  BY <1>0, <1>7 DEF Route, ReaderEnds, ServerClosesOut
<1>8. ASSUME NEW line, ServerSays(line) PROVE RequestsKnown'
  BY <1>0, <1>8 DEF ServerSays
<1>9. CASE UNCHANGED mcpVars
  BY <1>0, <1>9 DEF mcpVars
<1> QED
  BY <1>1, <1>2, <1>3, <1>4, <1>5, <1>6, <1>7, <1>8, <1>9 DEF McpNext

\* An answer is given to what was read, and what was read stays read.
LEMMA AnswersReadNext == ServeInv /\ RequestsKnown /\ AnswersRead /\ [McpNext]_mcpVars => AnswersRead'
<1> SUFFICES ASSUME ServeInv, RequestsKnown, AnswersRead, [McpNext]_mcpVars
             PROVE  AnswersRead'
  OBVIOUS
<1> USE DEF wireVars
<1>t. /\ lines \in Seq(McpLines)
      /\ \A i \in 1 .. Len(lines) : lines[i].what = "answer" => lines[i].id \in taken
      /\ \A c \in McpCalls :
           /\ box[c].what = "answer" => box[c].id \in taken
           /\ outcome[c].what = "answer" => outcome[c].id \in taken
  BY DEF AnswersRead
<1>b. box \in [McpCalls -> Outcomes] /\ outcome \in [McpCalls -> Outcomes]
  BY DEF ServeInv, ServeTypes
\* What the pipe holds after a step.
<1>l. ASSUME \/ UNCHANGED lines
             \/ lines # <<>> /\ lines' = Tail(lines)
             \/ lines' = <<>>
             \/ \E line \in SayableLines : lines' = Append(lines, line)
      PROVE  /\ lines' \in Seq(McpLines)
             /\ \A i \in 1 .. Len(lines') : lines'[i].what = "answer" => lines'[i].id \in taken
  <2>1. CASE UNCHANGED lines
    BY <1>t, <2>1
  <2>2. CASE lines # <<>> /\ lines' = Tail(lines)
    <3>1. /\ lines' \in Seq(McpLines)
          /\ \A i \in 1 .. Len(lines') : \E j \in 1 .. Len(lines) : lines'[i] = lines[j]
      BY <1>t, <2>2, TailEntries
    <3> QED
      BY <1>t, <3>1
  <2>3. CASE lines' = <<>>
    BY <2>3
  <2>4. ASSUME NEW line \in SayableLines, lines' = Append(lines, line)
        PROVE  /\ lines' \in Seq(McpLines)
               /\ \A i \in 1 .. Len(lines') : lines'[i].what = "answer" => lines'[i].id \in taken
    <3>1. line \in McpLines /\ (line.what = "answer" => line.id \in taken)
      <4>1. taken \subseteq Nat
        BY DEF RequestsKnown, ServeInv, ServeTypes
      <4>2. \/ \E i \in taken : line = [what |-> "answer", id |-> i]
            \/ \E i \in OwnIds : line = [what |-> "own", id |-> i]
            \/ line = [what |-> "noise", id |-> 0]
            \/ line = [what |-> "not text", id |-> 0]
        BY DEF SayableLines, AnswerTo, OwnRequest, Noise, NotText
      <4>3. CASE \E i \in taken : line = [what |-> "answer", id |-> i]
        BY <4>1, <4>3 DEF McpLines
      <4>4. CASE \E i \in OwnIds : line = [what |-> "own", id |-> i]
        BY <4>4, McpAssumption DEF McpLines
      <4>5. CASE line = [what |-> "noise", id |-> 0]
        BY <4>5 DEF McpLines
      <4>6. CASE line = [what |-> "not text", id |-> 0]
        BY <4>6 DEF McpLines
      <4> QED
        BY <4>2, <4>3, <4>4, <4>5, <4>6
    <3> HIDE DEF SayableLines
    <3>2. /\ lines' \in Seq(McpLines)
          /\ \A i \in 1 .. Len(lines') :
               lines'[i] = line \/ (i \in 1 .. Len(lines) /\ lines'[i] = lines[i])
      BY <1>t, <2>4, <3>1, AppendEntries
    <3> QED
      BY <1>t, <3>1, <3>2
  <2> QED
    BY <1>l, <2>1, <2>2, <2>3, <2>4
<1>m. ASSUME NEW c \in McpCalls, NEW what \in Outcomes, outcome' = [outcome EXCEPT ![c] = what],
             what.what = "answer" => what.id \in taken, UNCHANGED <<lines, taken, box>>
      PROVE  AnswersRead'
  <2>1. \A d \in McpCalls : outcome'[d] = IF d = c THEN what ELSE outcome[d]
    BY <1>b, <1>m
  <2> QED
    BY <1>t, <1>m, <2>1 DEF AnswersRead
<1>0. ASSUME UNCHANGED <<lines, taken, box, outcome>> PROVE AnswersRead'
  BY <1>t, <1>0 DEF AnswersRead
<1>1. ASSUME NEW c \in McpCalls, CallNotFound(c) \/ WriteFails(c) \/ GiveUp(c)
      PROVE  AnswersRead'
  <2>1. /\ UNCHANGED <<lines, taken, box>>
        /\ \E what \in {"not found", "not written", "timed out"} :
             outcome' = [outcome EXCEPT ![c] = Failure(what)]
    BY <1>1 DEF CallNotFound, WriteFails, GiveUp, Return
  <2> QED
    BY <1>m, <2>1, FailuresHaveNoId
<1>2. ASSUME NEW c \in McpCalls, TakeAnswer(c) PROVE AnswersRead'
  <2>1. UNCHANGED <<lines, taken, box>> /\ outcome' = [outcome EXCEPT ![c] = box[c]]
    BY <1>2 DEF TakeAnswer, Return
  <2> QED
    BY <1>t, <1>b, <1>m, <2>1
<1>3. ASSUME NEW c \in McpCalls, Register(c) \/ LockStdin(c) \/ WriteLine(c) \/ TimeOut(c)
      PROVE  AnswersRead'
  BY <1>0, <1>3 DEF Register, LockStdin, WriteLine, TimeOut
<1>4. CASE HandshakeLine \/ HandshakeFails
  <2>1. UNCHANGED <<taken, box, outcome>>
        /\ ((lines # <<>> /\ lines' = Tail(lines)) \/ lines' = <<>>)
    BY <1>4 DEF HandshakeLine, HandshakeFails
  <2> QED
    BY <1>t, <1>l, <2>1 DEF AnswersRead
<1>5. CASE Route
  <2>1. /\ lines # <<>> /\ lines' = Tail(lines) /\ UNCHANGED <<taken, outcome>>
        /\ \/ box' = [box EXCEPT ![waiters[Head(lines).id]] = Head(lines)]
           \/ UNCHANGED box
    BY <1>5 DEF Route
  <2>2. \A c \in McpCalls : box'[c] \in {box[c], Head(lines)}
    BY <1>b, <2>1
  <2>3. Head(lines).what = "answer" => Head(lines).id \in taken
    BY <1>t, <2>1, TailEntries
  <2> QED
    BY <1>t, <1>l, <2>1, <2>2, <2>3 DEF AnswersRead
<1>6. CASE ReaderEnds
  <2>1. UNCHANGED <<lines, taken, outcome>>
        /\ \A c \in McpCalls : box'[c] \in {box[c], Failure("closed")}
    BY <1>6 DEF ReaderEnds
  <2> QED
    BY <1>t, <2>1, FailuresHaveNoId DEF AnswersRead
<1>7. CASE ServerReads
  <2>1. UNCHANGED <<lines, box, outcome>> /\ taken \subseteq taken'
    BY <1>7 DEF ServerReads
  <2> QED
    BY <1>t, <2>1 DEF AnswersRead
<1>8. CASE ServerClosesOut \/ ServerDies
  BY <1>0, <1>8 DEF ServerClosesOut, ServerDies
<1>9. ASSUME NEW line \in SayableLines, ServerSays(line) PROVE AnswersRead'
  <2>1. lines' = Append(lines, line) /\ UNCHANGED <<taken, box, outcome>>
    BY <1>9 DEF ServerSays
  <2> QED
    BY <1>t, <1>l, <2>1 DEF AnswersRead
<1>10. CASE UNCHANGED mcpVars
  BY <1>0, <1>10 DEF mcpVars
<1> QED
  BY <1>1, <1>2, <1>3, <1>4, <1>5, <1>6, <1>7, <1>8, <1>9, <1>10 DEF McpNext

\* For any number of calls, any capacity of the pipe, and any lines of the server, its own
\* requests under any ids included: a call returns a line under its own id or a failure,
\* an answer only to what was read, and the table of waiters is exact.
THEOREM CallsServed == McpSpec => []CallsAreServed
<1>1. ServeInv /\ AnswersRead => CallsAreServed
  <2> SUFFICES ASSUME ServeInv, AnswersRead PROVE LineIsOwn /\ WaitersAreExact
    BY DEF CallsAreServed
  <2>1. LineIsOwn
    BY DEF ServeInv, SentIsOwn, AnswersRead, LineIsOwn, HasId
  <2>2. WaitersAreExact
    BY DEF ServeInv, WaitersOwn, WaitingAreKnown, WaitersAreExact, Range, InFlight
  <2> QED
    BY <2>1, <2>2
<1> QED
  BY ServeInvInit, ServeInvNext, RequestsKnownNext, AnswersReadNext, <1>1, PTL DEF McpSpec

-----------------------------------------------------------------------------
(* The guest machine.                                                      *)

GuestSteps == {"idle", "boot", "ssh", "undrain", "halt", "plug", "wait", "app"}

\* The types the argument needs.
DrainTypes ==
  /\ doing \in [Admins -> GuestSteps]
  /\ polls \in [Admins -> Nat] /\ misses \in [Admins -> Nat] /\ silent \in [Admins -> Nat]
  /\ busyFlag \in [GuestKeepers -> BOOLEAN]
  /\ seen \in [Admins -> [GuestKeepers -> SUBSET BOOLEAN]]
  /\ owedTo \in [Admins -> SUBSET GuestKeepers]
  /\ gaveUp \in [Admins -> BOOLEAN]

\* The keepers a drain is owed are busy, and no poll under way has met one idle.
OwedAreBusy ==
  \A a \in Admins : \A k \in owedTo[a] :
    busyFlag[k] = TRUE /\ (doing[a] = "wait" => FALSE \notin seen[a][k])

\* While a drain waits, its count of missing answers is the true one.
MissesAreTrue == \A a \in Admins : doing[a] = "wait" => misses[a] = silent[a]

DrainInv == DrainTypes /\ OwedAreBusy /\ MissesAreTrue /\ DrainWaitsForTurns

LEMMA DrainInvInit == GuestInit => DrainInv
<1> SUFFICES ASSUME GuestInit PROVE DrainInv
  OBVIOUS
<1>1. /\ doing = [a \in Admins |-> "idle"] /\ polls = [a \in Admins |-> 0]
      /\ misses = [a \in Admins |-> 0] /\ silent = [a \in Admins |-> 0]
      /\ owedTo = [a \in Admins |-> {}] /\ gaveUp = [a \in Admins |-> FALSE]
      /\ busyFlag = [k \in GuestKeepers |-> FALSE] /\ seen = [a \in Admins |-> Unseen]
  BY DEF GuestInit
<1>2. Unseen \in [GuestKeepers -> SUBSET BOOLEAN]
  BY DEF Unseen
<1> QED
  BY <1>1, <1>2 DEF DrainInv, DrainTypes, GuestSteps, OwedAreBusy, MissesAreTrue, DrainWaitsForTurns

\* What a poll that is sent now has seen.
LEMMA NowIsSeen ==
  ASSUME DrainTypes
  PROVE  /\ SeenNow \in [GuestKeepers -> SUBSET BOOLEAN] /\ Unseen \in [GuestKeepers -> SUBSET BOOLEAN]
         /\ \A k \in GuestKeepers : busyFlag[k] = TRUE => FALSE \notin SeenNow[k]
<1>1. \A k \in GuestKeepers : busyFlag[k] \in BOOLEAN
  BY DEF DrainTypes
<1>2. \A k \in GuestKeepers : SeenNow[k] = {busyFlag[k]} /\ SeenNow = [j \in GuestKeepers |-> {busyFlag[j]}]
  BY DEF SeenNow
<1> QED
  BY <1>1, <1>2 DEF SeenNow, Unseen

\* A poll that is not the last, or that is and gives up.
LEMMA PollAgainKeeps ==
  ASSUME DrainInv, NEW a \in Admins, PollAgain(a), UNCHANGED <<busyFlag, owedTo>>,
         NEW m \in Nat, misses' = [misses EXCEPT ![a] = m], silent' = [silent EXCEPT ![a] = m]
  PROVE  DrainInv'
<1>t. DrainTypes
  BY DEF DrainInv
<1>1. misses' \in [Admins -> Nat] /\ silent' \in [Admins -> Nat]
      /\ \A b \in Admins : misses[b] = silent[b] => misses'[b] = silent'[b]
      /\ misses'[a] = silent'[a]
  BY <1>t DEF DrainTypes
<1>s. ASSUME NEW sight \in {SeenNow, Unseen}, seen' = [seen EXCEPT ![a] = sight]
      PROVE  /\ seen' \in [Admins -> [GuestKeepers -> SUBSET BOOLEAN]]
             /\ \A b \in Admins : seen'[b] = IF b = a THEN sight ELSE seen[b]
  BY <1>t, <1>s, NowIsSeen DEF DrainTypes
<1>2. CASE polls[a] + 1 < MaxPolls
  <2>1. /\ polls' = [polls EXCEPT ![a] = polls[a] + 1] /\ UNCHANGED <<doing, gaveUp>>
        /\ seen' = [seen EXCEPT ![a] = SeenNow]
    BY <1>2 DEF PollAgain, Again
  <2>2. DrainTypes'
    BY <1>t, <1>1, <1>s, <2>1 DEF DrainTypes
  <2>3. OwedAreBusy'
    BY <1>t, <1>s, <2>1, NowIsSeen DEF DrainInv, DrainTypes, OwedAreBusy
  <2> QED
    BY <1>1, <2>1, <2>2, <2>3 DEF DrainInv, MissesAreTrue, DrainWaitsForTurns
<1>3. CASE ~(polls[a] + 1 < MaxPolls)
  <2>1. /\ polls' = [polls EXCEPT ![a] = 0] /\ doing' = [doing EXCEPT ![a] = "app"]
        /\ gaveUp' = [gaveUp EXCEPT ![a] = TRUE] /\ seen' = [seen EXCEPT ![a] = Unseen]
    BY <1>3 DEF PollAgain, Goto
  <2>2. DrainTypes'
    BY <1>t, <1>1, <1>s, <2>1 DEF DrainTypes, GuestSteps
  <2>3. OwedAreBusy'
    BY <1>t, <1>s, <2>1 DEF DrainInv, DrainTypes, OwedAreBusy
  <2>4. MissesAreTrue' /\ DrainWaitsForTurns'
    BY <1>t, <1>1, <2>1 DEF DrainInv, DrainTypes, MissesAreTrue, DrainWaitsForTurns
  <2> QED
    BY <2>2, <2>3, <2>4 DEF DrainInv
<1> QED
  BY <1>2, <1>3

\* A flag is set to a value.
LEMMA FlagSet ==
  ASSUME DrainInv, NEW k \in GuestKeepers, NEW value \in BOOLEAN, SetFlag(k, value),
         UNCHANGED <<doing, polls, misses, silent, gaveUp>>
  PROVE  DrainInv'
<1>t. DrainTypes
  BY DEF DrainInv
<1>1. /\ busyFlag' \in [GuestKeepers -> BOOLEAN]
      /\ \A j \in GuestKeepers : busyFlag'[j] = IF j = k THEN value ELSE busyFlag[j]
  BY <1>t DEF SetFlag, DrainTypes
<1>2. \A a \in Admins :
        /\ seen'[a] \in [GuestKeepers -> SUBSET BOOLEAN]
        /\ \A j \in GuestKeepers : FALSE \in seen'[a][j] =>
             FALSE \in seen[a][j] \/ (j = k /\ value = FALSE)
  <2> SUFFICES ASSUME NEW a \in Admins
               PROVE  /\ seen'[a] \in [GuestKeepers -> SUBSET BOOLEAN]
                      /\ \A j \in GuestKeepers : FALSE \in seen'[a][j] =>
                           FALSE \in seen[a][j] \/ (j = k /\ value = FALSE)
    OBVIOUS
  <2>1. seen[a] \in [GuestKeepers -> SUBSET BOOLEAN]
    BY <1>t DEF DrainTypes
  <2>2. CASE doing[a] = "wait"
    <3>1. seen'[a] = [seen[a] EXCEPT ![k] = @ \cup {value}]
      BY <2>2 DEF SetFlag
    <3>2. \A j \in GuestKeepers : seen'[a][j] = IF j = k THEN seen[a][k] \cup {value} ELSE seen[a][j]
      BY <2>1, <3>1
    <3> QED
      BY <2>1, <3>1, <3>2
  <2>3. CASE doing[a] # "wait"
    BY <2>1, <2>3 DEF SetFlag
  <2> QED
    BY <2>2, <2>3
<1>3. /\ owedTo' \in [Admins -> SUBSET GuestKeepers]
      /\ \A a \in Admins : owedTo'[a] \subseteq owedTo[a] /\ (value = FALSE => k \notin owedTo'[a])
  BY <1>t DEF SetFlag, DrainTypes
<1>4. seen' \in [Admins -> [GuestKeepers -> SUBSET BOOLEAN]]
  <2>1. DOMAIN seen' = Admins /\ seen' = [a \in DOMAIN seen' |-> seen'[a]]
    BY DEF SetFlag
  <2> QED
    BY <1>2, <2>1
<1>5. DrainTypes'
  BY <1>t, <1>1, <1>3, <1>4 DEF DrainTypes
<1>6. OwedAreBusy'
  <2> SUFFICES ASSUME NEW a \in Admins, NEW j \in owedTo'[a]
               PROVE  busyFlag'[j] = TRUE /\ (doing'[a] = "wait" => FALSE \notin seen'[a][j])
    BY DEF OwedAreBusy
  <2>1. j \in GuestKeepers /\ j \in owedTo[a] /\ ~(j = k /\ value = FALSE)
    BY <1>t, <1>3 DEF DrainTypes
  <2>2. busyFlag[j] = TRUE /\ (doing[a] = "wait" => FALSE \notin seen[a][j])
    BY <2>1 DEF DrainInv, OwedAreBusy
  <2>3. busyFlag'[j] = TRUE
    BY <1>1, <2>1, <2>2
  <2>4. doing'[a] = "wait" => FALSE \notin seen'[a][j]
    BY <1>2, <2>1, <2>2
  <2> QED
    BY <2>3, <2>4
<1>7. MissesAreTrue' /\ DrainWaitsForTurns'
  BY <1>3 DEF DrainInv, MissesAreTrue, DrainWaitsForTurns
<1> QED
  BY <1>5, <1>6, <1>7 DEF DrainInv

\* Every step keeps it.
LEMMA DrainInvNext == DrainInv /\ [GuestNext]_guestVars => DrainInv'
<1> SUFFICES ASSUME DrainInv, [GuestNext]_guestVars
             PROVE  DrainInv'
  OBVIOUS
<1>t. DrainTypes
  BY DEF DrainInv
<1> USE DEF Goto, Again, serverVars, keeperVars, drainHistory
<1>1. ASSUME NEW a \in Admins,
             \/ RestoreClean(a) \/ StartHeadless(a) \/ SshReady(a) \/ SshNotReady(a)
             \/ EndDrain(a) \/ StopVm(a) \/ SeesItOff(a) \/ SeesItOn(a) \/ PullPlug(a)
      PROVE  DrainInv'
  <2>1. /\ UNCHANGED <<misses, busyFlag, seen, owedTo, silent, gaveUp>>
        /\ polls' \in [Admins -> Nat]
        /\ \/ doing' = doing
           \/ \E s \in GuestSteps \ {"wait", "app"} : doing' = [doing EXCEPT ![a] = s]
    <3>1. CASE RestoreClean(a) BY <1>t, <3>1 DEF RestoreClean, DrainTypes, GuestSteps
    <3>2. CASE StartHeadless(a) BY <1>t, <3>2 DEF StartHeadless, DrainTypes, GuestSteps
    <3>3. CASE SshReady(a) BY <1>t, <3>3 DEF SshReady, DrainTypes, GuestSteps
    <3>4. CASE SshNotReady(a)
      <4>1. polls[a] + 1 \in Nat /\ "idle" \in GuestSteps \ {"wait", "app"}
        BY <1>t DEF DrainTypes, GuestSteps
      <4>2. \/ Again(a)
            \/ Goto(a, "idle")
        BY <3>4 DEF SshNotReady
      <4>3. polls' \in [Admins -> Nat]
        BY <1>t, <4>1, <4>2 DEF DrainTypes
      <4> QED
        BY <3>4, <4>1, <4>2, <4>3 DEF SshNotReady
    <3>5. CASE EndDrain(a) BY <1>t, <3>5 DEF EndDrain, DrainTypes, GuestSteps
    <3>6. CASE StopVm(a) BY <1>t, <3>6 DEF StopVm, DrainTypes, GuestSteps
    <3>7. CASE SeesItOff(a) BY <1>t, <3>7 DEF SeesItOff, DrainTypes, GuestSteps
    <3>8. CASE SeesItOn(a)
      <4>1. polls[a] + 1 \in Nat /\ "plug" \in GuestSteps \ {"wait", "app"}
        BY <1>t DEF DrainTypes, GuestSteps
      <4>2. \/ Again(a)
            \/ Goto(a, "plug")
        BY <3>8 DEF SeesItOn
      <4>3. polls' \in [Admins -> Nat]
        BY <1>t, <4>1, <4>2 DEF DrainTypes
      <4> QED
        BY <3>8, <4>1, <4>2, <4>3 DEF SeesItOn
    <3>9. CASE PullPlug(a) BY <1>t, <3>9 DEF PullPlug, DrainTypes, GuestSteps
    <3> QED BY <1>1, <3>1, <3>2, <3>3, <3>4, <3>5, <3>6, <3>7, <3>8, <3>9
  <2>2. /\ doing' \in [Admins -> GuestSteps]
        /\ \A b \in Admins : /\ doing'[b] = "wait" => doing[b] = "wait"
                            /\ doing'[b] = "app" => doing[b] = "app"
    BY <1>t, <2>1 DEF DrainTypes
  <2>3. DrainTypes'
    BY <1>t, <2>1, <2>2 DEF DrainTypes
  <2>4. OwedAreBusy' /\ MissesAreTrue'
    BY <2>1, <2>2 DEF DrainInv, OwedAreBusy, MissesAreTrue
  <2>5. DrainWaitsForTurns'
    BY <2>1, <2>2 DEF DrainInv, DrainWaitsForTurns
  <2> QED
    BY <2>3, <2>4, <2>5 DEF DrainInv
<1>s. ASSUME NEW a \in Admins, NEW sight \in {SeenNow, Unseen}, seen' = [seen EXCEPT ![a] = sight]
      PROVE  /\ seen' \in [Admins -> [GuestKeepers -> SUBSET BOOLEAN]]
             /\ \A b \in Admins : seen'[b] = IF b = a THEN sight ELSE seen[b]
  BY <1>t, <1>s, NowIsSeen DEF DrainTypes
<1>2. ASSUME NEW a \in Admins, BeginDrain(a)
      PROVE  DrainInv'
  <2>1. /\ doing' = [doing EXCEPT ![a] = "wait"] /\ polls' = [polls EXCEPT ![a] = 0]
        /\ misses' = [misses EXCEPT ![a] = 0] /\ silent' = [silent EXCEPT ![a] = 0]
        /\ owedTo' = [owedTo EXCEPT ![a] = Busy] /\ gaveUp' = [gaveUp EXCEPT ![a] = FALSE]
        /\ seen' = [seen EXCEPT ![a] = SeenNow] /\ UNCHANGED busyFlag
    BY <1>2 DEF BeginDrain
  <2>2. Busy \subseteq GuestKeepers /\ \A k \in Busy : busyFlag[k] = TRUE
    BY <1>t DEF Busy, DrainTypes
  <2>3. DrainTypes'
    BY <1>t, <1>s, <2>1, <2>2 DEF DrainTypes, GuestSteps
  <2>4. OwedAreBusy'
    <3> SUFFICES ASSUME NEW b \in Admins, NEW k \in owedTo'[b]
                 PROVE  /\ busyFlag'[k] = TRUE
                        /\ doing'[b] = "wait" => FALSE \notin seen'[b][k]
      BY DEF OwedAreBusy
    <3>1. CASE b = a
      <4>1. k \in Busy
        BY <1>t, <2>1, <3>1 DEF DrainTypes
      <4>2. seen'[b] = SeenNow
        BY <1>s, <2>1, <3>1
      <4> QED
        BY <1>t, <2>1, <2>2, <4>1, <4>2, NowIsSeen
    <3>2. CASE b # a
      <4>1. owedTo'[b] = owedTo[b] /\ doing'[b] = doing[b] /\ seen'[b] = seen[b]
        BY <1>t, <1>s, <2>1, <3>2 DEF DrainTypes
      <4> QED
        BY <2>1, <4>1 DEF DrainInv, OwedAreBusy
    <3> QED
      BY <3>1, <3>2
  <2>5. MissesAreTrue' /\ DrainWaitsForTurns'
    BY <1>t, <2>1 DEF DrainInv, DrainTypes, MissesAreTrue, DrainWaitsForTurns
  <2> QED
    BY <2>3, <2>4, <2>5 DEF DrainInv
<1>3. ASSUME NEW a \in Admins, PollZero(a)
      PROVE  DrainInv'
  <2>1. /\ doing[a] = "wait" /\ \A k \in GuestKeepers : FALSE \in seen[a][k]
        /\ doing' = [doing EXCEPT ![a] = "app"] /\ polls' = [polls EXCEPT ![a] = 0]
        /\ seen' = [seen EXCEPT ![a] = Unseen] /\ silent' = [silent EXCEPT ![a] = 0]
        /\ UNCHANGED <<misses, busyFlag, owedTo, gaveUp>>
    BY <1>3 DEF PollZero
  <2>2. owedTo[a] = {}
    BY <1>t, <2>1 DEF DrainInv, DrainTypes, OwedAreBusy
  <2>3. DrainTypes'
    BY <1>t, <1>s, <2>1 DEF DrainTypes, GuestSteps
  <2>4. OwedAreBusy'
    BY <1>t, <1>s, <2>1, <2>2 DEF DrainInv, DrainTypes, OwedAreBusy
  <2>5. MissesAreTrue' /\ DrainWaitsForTurns'
    BY <1>t, <2>1, <2>2 DEF DrainInv, DrainTypes, MissesAreTrue, DrainWaitsForTurns
  <2> QED
    BY <2>3, <2>4, <2>5 DEF DrainInv
<1>4. ASSUME NEW a \in Admins, PollBusy(a)
      PROVE  DrainInv'
  <2>1. /\ PollAgain(a) /\ UNCHANGED <<busyFlag, owedTo>>
        /\ misses' = [misses EXCEPT ![a] = 0] /\ silent' = [silent EXCEPT ![a] = 0]
    BY <1>4 DEF PollBusy
  <2> QED
    BY <2>1, PollAgainKeeps
<1>5. ASSUME NEW a \in Admins, PollLost(a)
      PROVE  DrainInv'
  <2>0. /\ doing[a] = "wait"
        /\ silent' = [silent EXCEPT ![a] = @ + 1]
        /\ misses' = [misses EXCEPT ![a] = @ + 1]
        /\ UNCHANGED <<busyFlag, owedTo>>
    BY <1>5 DEF PollLost
  <2>1. misses[a] = silent[a] /\ misses[a] \in Nat
    BY <2>0 DEF DrainInv, DrainTypes, MissesAreTrue
  <2>2. CASE misses[a] + 1 >= MaxUnreachable
    <3>1. /\ doing' = [doing EXCEPT ![a] = "app"] /\ polls' = [polls EXCEPT ![a] = 0]
          /\ gaveUp' = [gaveUp EXCEPT ![a] = silent[a] + 1 >= MaxUnreachable]
          /\ seen' = [seen EXCEPT ![a] = Unseen]
      BY <1>5, <2>2 DEF PollLost
    <3>2. gaveUp' = [gaveUp EXCEPT ![a] = TRUE]
      BY <2>1, <2>2, <3>1
    <3>3. DrainTypes'
      <4>1. misses[a] + 1 \in Nat /\ silent[a] + 1 \in Nat
        BY <2>1
      <4>2. /\ doing' \in [Admins -> GuestSteps] /\ polls' \in [Admins -> Nat]
            /\ misses' \in [Admins -> Nat] /\ silent' \in [Admins -> Nat]
            /\ gaveUp' \in [Admins -> BOOLEAN]
        BY <1>t, <2>0, <3>1, <3>2, <4>1 DEF DrainTypes, GuestSteps
      <4>3. seen' \in [Admins -> [GuestKeepers -> SUBSET BOOLEAN]]
        BY <1>s, <3>1
      <4> QED
        BY <1>t, <2>0, <4>2, <4>3 DEF DrainTypes
    <3>4. OwedAreBusy'
      BY <1>t, <1>s, <2>0, <3>1 DEF DrainInv, DrainTypes, OwedAreBusy
    <3>5. MissesAreTrue' /\ DrainWaitsForTurns'
      BY <1>t, <2>0, <3>1, <3>2 DEF DrainInv, DrainTypes, MissesAreTrue, DrainWaitsForTurns
    <3> QED
      BY <3>3, <3>4, <3>5 DEF DrainInv
  <2>3. CASE ~(misses[a] + 1 >= MaxUnreachable)
    <3>1. PollAgain(a)
      BY <1>5, <2>3 DEF PollLost
    <3>2. misses[a] + 1 \in Nat /\ silent' = [silent EXCEPT ![a] = misses[a] + 1]
      BY <2>0, <2>1
    <3> QED
      BY <2>0, <3>1, <3>2, PollAgainKeeps
  <2> QED BY <2>2, <2>3
<1>6. ASSUME NEW a \in Admins, StopAppAndVm(a)
      PROVE  DrainInv'
  BY <1>6 DEF StopAppAndVm, DrainInv, DrainTypes, GuestSteps, OwedAreBusy,
              MissesAreTrue, DrainWaitsForTurns
<1>7. CASE World
  <2>1. UNCHANGED <<doing, polls, misses, silent, gaveUp>>
    BY <1>7 DEF World
  <2>2. \/ UNCHANGED <<busyFlag, seen, owedTo>>
        \/ \E k \in GuestKeepers, value \in BOOLEAN : SetFlag(k, value)
    BY <1>7 DEF World, GuestAccepts, GuestBegins, GuestResult, GuestLeaves
  <2>3. CASE UNCHANGED <<busyFlag, seen, owedTo>>
    BY <2>1, <2>3 DEF DrainInv, DrainTypes, OwedAreBusy, MissesAreTrue, DrainWaitsForTurns
  <2> QED
    BY <2>1, <2>2, <2>3, FlagSet
<1>8. CASE UNCHANGED guestVars
  BY <1>8 DEF guestVars, DrainInv, DrainTypes, OwedAreBusy,
              MissesAreTrue, DrainWaitsForTurns
<1>9. ASSUME NEW a \in Admins, RestoreFails(a)
      PROVE  DrainInv'
  BY <1>8, <1>9 DEF RestoreFails
<1> QED
  BY <1>1, <1>2, <1>3, <1>4, <1>5, <1>6, <1>7, <1>8, <1>9 DEF GuestNext

\* For any number of operators, keepers, prompts and polls: a drain goes on to stop the
\* machine only when the keepers that were mid-turn as it began have been reported
\* otherwise since, or after it has given up.
THEOREM DrainWaits == GuestSpec => []DrainWaitsForTurns
<1>1. DrainInv => DrainWaitsForTurns
  BY DEF DrainInv
<1> QED
  BY DrainInvInit, DrainInvNext, <1>1, PTL DEF GuestSpec

-----------------------------------------------------------------------------
(* The list of chats.                                                      *)

\* What was read of the file under a modification time that it still has, and has had
\* from one modification only, is what the file holds.
SummaryInv ==
  /\ clock \in Nat /\ mtime \in Nat /\ mtime <= clock
  /\ listAt \in [Listers -> {"idle", "looking", "reading", "storing"}]
  /\ statOf \in [Listers -> Nat] /\ \A r \in Listers : statOf[r] <= mtime
  /\ DOMAIN summaryOf = Listers
  /\ cache.mtime \in Nat /\ cache.mtime <= mtime
  /\ \A r \in Listers :
       listAt[r] = "storing" /\ statOf[r] = mtime /\ ~twice =>
         summaryOf[r] = Summarize[Parsed]
  /\ ServedIsCurrent

LEMMA SummaryInvInit == HistoryInit => SummaryInv
BY DEF HistoryInit, SummaryInv, ServedIsCurrent

\* A modification makes what was read before it old, at a later tick or at the same one.
LEMMA ModifyKeeps ==
  ASSUME SummaryInv, Modify
  PROVE  SummaryInv'
<1>1. /\ mtime' = clock /\ UNCHANGED <<clock, cache, listAt, statOf, summaryOf>>
      /\ ~twice' => mtime < clock
  <2>1. mtime' = clock /\ UNCHANGED <<clock, cache, listAt, statOf, summaryOf>>
        /\ (~twice' => mtime # clock)
    BY Zenon DEF Modify
  <2> QED
    BY <2>1 DEF SummaryInv
<1>2. \A r \in Listers : statOf[r] \in Nat /\ statOf[r] <= clock
  BY DEF SummaryInv
<1>3. ~twice' => cache.mtime # clock /\ \A r \in Listers : statOf[r] # clock
  BY <1>1, <1>2 DEF SummaryInv
<1> QED
  BY <1>1, <1>2, <1>3 DEF SummaryInv, ServedIsCurrent

LEMMA SummaryInvNext == SummaryInv /\ [LogNext \/ ListNext]_historyVars => SummaryInv'
<1> SUFFICES ASSUME SummaryInv, [LogNext \/ ListNext]_historyVars
             PROVE  SummaryInv'
  OBVIOUS
<1>1. CASE (\E l \in Lines : AppendLine(l)) \/ AppendLine(PlainAnswer) \/ CompleteLine
  <2>1. Modify
    BY <1>1, Zenon DEF AppendLine, CompleteLine
  <2> QED
    BY <2>1, ModifyKeeps
<1>2. CASE TickOfFiles
  BY <1>2 DEF TickOfFiles, SummaryInv, ServedIsCurrent, Parsed
<1>3. ASSUME NEW r \in Listers, ListStep(r)
      PROVE  SummaryInv'
  <2> USE DEF ListGoes, SummaryInv, ServedIsCurrent, Parsed
  <2>1. CASE ListStat(r)
    BY <2>1 DEF ListStat
  <2>2. CASE ListHit(r)
    BY <2>2 DEF ListHit
  <2>3. CASE ListMiss(r)
    BY <2>3 DEF ListMiss
  <2>4. CASE ListRead(r)
    BY <2>4 DEF ListRead
  <2>5. CASE ListStore(r)
    BY <2>5 DEF ListStore, ListDone
  <2> QED
    BY <1>3, <2>1, <2>2, <2>3, <2>4, <2>5 DEF ListStep
<1>4. CASE UNCHANGED historyVars
  BY <1>4 DEF historyVars, SummaryInv, ServedIsCurrent, Parsed
<1> QED
  BY <1>1, <1>2, <1>3, <1>4, Zenon DEF LogNext, ListNext

\* For any number of requests, ticks and lines, a summary that is served from the cache is
\* that of the file, unless the file was modified twice at one tick.
THEOREM ListIsCurrent == HistorySpec => []ServedIsCurrent
<1>1. SummaryInv => ServedIsCurrent
  BY DEF SummaryInv
<1> QED
  BY SummaryInvInit, SummaryInvNext, <1>1, PTL DEF HistorySpec

-----------------------------------------------------------------------------
(* The readers of a transcript.                                            *)

Summaries == [messages : Nat, turns : Nat, context : MessageIds \cup {NoId},
              titled : BOOLEAN, seen : SUBSET MessageIds]

LineStep == [p \in Summaries \X Lines |-> CountLine(p[1], p[2])]

LEMMA CountLineIs ==
  ASSUME NEW s \in Summaries, NEW l \in Lines
  PROVE  /\ CountLine(s, l) \in Summaries
         /\ l.role = "user" =>
              /\ CountLine(s, l).messages = s.messages + 1
              /\ CountLine(s, l).turns = s.turns /\ CountLine(s, l).context = s.context
              /\ CountLine(s, l).seen = s.seen
         /\ l.role = "assistant" /\ l.id \in s.seen => CountLine(s, l) = s
         /\ l.role = "assistant" /\ l.id \notin s.seen =>
              /\ CountLine(s, l).messages = s.messages + 1
              /\ CountLine(s, l).turns = s.turns + 1 /\ CountLine(s, l).context = l.id
              /\ CountLine(s, l).seen = s.seen \cup ({l.id} \ {NoId})
<1>1. /\ s.messages \in Nat /\ s.turns \in Nat /\ s.context \in MessageIds \cup {NoId}
      /\ s.titled \in BOOLEAN /\ s.seen \in SUBSET MessageIds
      /\ s = [messages |-> s.messages, turns |-> s.turns, context |-> s.context,
              titled |-> s.titled, seen |-> s.seen]
  BY DEF Summaries
<1>2. CASE l.role = "user"
  <2>1. CountLine(s, l) = [messages |-> s.messages + 1, turns |-> s.turns,
           context |-> s.context, titled |-> s.titled \/ l.kind = "text", seen |-> s.seen]
    BY <1>1, <1>2 DEF CountLine, CountUser
  <2> QED BY <1>1, <1>2, <2>1 DEF Summaries
<1>3. CASE l.role # "user"
  <2>1. l \in AssistantLines /\ l.role = "assistant" /\ l.id \in MessageIds \cup {NoId}
    BY <1>3 DEF Lines, UserLines, AssistantLines
  <2>2. CASE l.id \in s.seen
    BY <1>3, <2>1, <2>2 DEF CountLine, Logged
  <2>3. CASE l.id \notin s.seen
    <3>1. CountLine(s, l) = [messages |-> s.messages + 1, turns |-> s.turns + 1,
             context |-> l.id, titled |-> s.titled, seen |-> s.seen \cup ({l.id} \ {NoId})]
      BY <1>1, <1>3, <2>3 DEF CountLine, CountAssistant, Logged
    <3>2. s.seen \cup ({l.id} \ {NoId}) \in SUBSET MessageIds
      BY <1>1, <2>1
    <3> QED BY <1>1, <2>1, <2>3, <3>1, <3>2 DEF Summaries
  <2> QED BY <2>2, <2>3
<1> QED BY <1>2, <1>3

\* The summary by its lines.
LEMMA SummarizeIs ==
  /\ Summarize \in [Seq(Lines) -> Summaries]
  /\ Summarize[<<>>] = NoSummary
  /\ \A ls \in Seq(Lines), l \in Lines : Summarize[Append(ls, l)] = CountLine(Summarize[ls], l)
<1> DEFINE Body(f) == [ls \in Seq(Lines) |->
                        IF ls = <<>> THEN NoSummary
                        ELSE CountLine(f[Front(ls)], Last(ls))]
<1>1. NoSummary \in Summaries
  BY DEF NoSummary, Summaries
<1>2. LineStep \in [Summaries \X Lines -> Summaries]
      /\ \A s \in Summaries, l \in Lines : LineStep[<<s, l>>] = CountLine(s, l)
  BY CountLineIs DEF LineStep
<1>3. PICK f \in [Seq(Lines) -> Summaries] : RecursOnFront(f, Lines, NoSummary, LineStep)
  BY <1>1, <1>2, FrontRecursion
<1>4. f = Body(f)
  <2>1. ASSUME NEW s \in Seq(Lines), s # <<>>
        PROVE  LineStep[<<f[Front(s)], Last(s)>>] = CountLine(f[Front(s)], Last(s))
    BY <1>2, <1>3, <2>1, FrontOfAppend
  <2> QED BY <1>3, <2>1 DEF RecursOnFront
<1>5. Summarize = Body(Summarize)
  BY <1>4, Zenon DEF Summarize
<1> HIDE DEF Summarize
<1>6. Summarize[<<>>] = NoSummary
  BY <1>5
<1>7. ASSUME NEW ls \in Seq(Lines), NEW l \in Lines
      PROVE  Summarize[Append(ls, l)] = CountLine(Summarize[ls], l)
  <2> DEFINE a == Append(ls, l)
  <2>1. a \in Seq(Lines) /\ a # <<>> /\ Front(a) = ls /\ Last(a) = l
    BY FrontOfAppend
  <2> HIDE DEF a
  <2>2. Summarize[a] = CountLine(Summarize[Front(a)], Last(a))
    BY <1>5, <2>1
  <2> QED BY <2>1, <2>2 DEF a
<1>8. Seq(Lines) \subseteq {ls \in Seq(Lines) : Summarize[ls] \in Summaries}
  <2> DEFINE S == {ls \in Seq(Lines) : Summarize[ls] \in Summaries}
  <2>1. <<>> \in S
    BY <1>1, <1>6
  <2>2. \A ls \in Seq(Lines), l \in Lines : ls \in S => Append(ls, l) \in S
    BY <1>7, CountLineIs, AppendIs
  <2> HIDE DEF S
  <2>3. Seq(Lines) \subseteq S
    BY <2>1, <2>2, SequenceInduction
  <2> QED BY <2>3 DEF S
<1>9. Summarize \in [Seq(Lines) -> Summaries]
  BY <1>5, <1>8
<1> QED BY <1>6, <1>7, <1>9

\* Lines that count as a message of the assistant: those that do not repeat one.
NewestOf(ls) ==
  {i \in DOMAIN ls :
     /\ ls[i].role = "assistant"
     /\ ls[i].id # NoId => \A j \in 1 .. (i - 1) : ls[j].id # ls[i].id}
UsersOf(ls) == {i \in DOMAIN ls : ls[i].role = "user"}

\* What ReadersCountOnce says of a transcript, and that "seen" holds the ids logged.
CountedOnce(ls) ==
  /\ IsFiniteSet(NewestOf(ls)) /\ IsFiniteSet(UsersOf(ls))
  /\ Summarize[ls].turns = Cardinality(NewestOf(ls))
  /\ NewestOf(ls) # {} => /\ Max(NewestOf(ls)) \in NewestOf(ls)
                          /\ Summarize[ls].context = ls[Max(NewestOf(ls))].id
  /\ Summarize[ls].messages = Summarize[ls].turns + Cardinality(UsersOf(ls))
  /\ Summarize[ls].seen = {ls[i].id : i \in DOMAIN ls} \ {NoId}

LEMMA MaxOfLast ==
  ASSUME NEW S \in SUBSET Nat, NEW n \in Nat, n \in S, \A i \in S : i <= n
  PROVE  Max(S) = n
<1> DEFINE P(x) == x \in S /\ \A y \in S : x >= y
<1>1. P(n)
  OBVIOUS
<1>2. P(Max(S))
  BY <1>1 DEF Max
<1>3. Max(S) \in Nat /\ Max(S) <= n /\ Max(S) >= n
  BY <1>2
<1> QED BY <1>3

LEMMA LineFields ==
  /\ \A l \in Lines : l.role \in {"user", "assistant"}
  /\ \A l \in Lines : l.role = "user" => l.id = NoId
BY DEF Lines, UserLines, AssistantLines

\* One line more.
LEMMA CountedStep ==
  ASSUME NEW ls \in Seq(Lines), NEW l \in Lines, CountedOnce(ls)
  PROVE  CountedOnce(Append(ls, l))
<1> DEFINE a == Append(ls, l)
           n == Len(ls)
           s == Summarize[ls]
           t == Summarize[a]
           new == l.role = "assistant" /\ l.id \notin s.seen
<1>1. /\ a \in Seq(Lines) /\ Len(a) = n + 1 /\ n \in Nat /\ a[n + 1] = l
      /\ \A i \in 1 .. n : a[i] = ls[i] /\ ls[i] \in Lines
      /\ DOMAIN a = 1 .. n + 1 /\ DOMAIN ls = 1 .. n
  BY AppendIs
<1>2. s \in Summaries /\ t = CountLine(s, l)
  BY SummarizeIs
<1> HIDE DEF a, n, s, t
<1>3. /\ t \in Summaries /\ s.turns \in Nat /\ s.messages \in Nat
      /\ l.role = "user" =>
           /\ t.messages = s.messages + 1 /\ t.turns = s.turns
           /\ t.context = s.context /\ t.seen = s.seen
      /\ l.role = "assistant" /\ l.id \in s.seen => t = s
      /\ new => /\ t.messages = s.messages + 1 /\ t.turns = s.turns + 1
                /\ t.context = l.id /\ t.seen = s.seen \cup ({l.id} \ {NoId})
  BY <1>2, CountLineIs DEF Summaries
<1>c. /\ IsFiniteSet(NewestOf(ls)) /\ IsFiniteSet(UsersOf(ls))
      /\ s.turns = Cardinality(NewestOf(ls))
      /\ NewestOf(ls) # {} => /\ Max(NewestOf(ls)) \in NewestOf(ls)
                              /\ s.context = ls[Max(NewestOf(ls))].id
      /\ s.messages = s.turns + Cardinality(UsersOf(ls))
      /\ s.seen = {ls[i].id : i \in DOMAIN ls} \ {NoId}
  BY DEF CountedOnce, s
<1>4. l.id \in s.seen <=> l.id # NoId /\ \E j \in 1 .. n : ls[j].id = l.id
  BY <1>1, <1>c
<1>5. \A i \in 1 .. n + 1 : i = n + 1 \/ i \in 1 .. n
  BY <1>1
<1>6. n + 1 \notin 1 .. n /\ (n + 1) - 1 = n
      /\ \A i \in 1 .. n : i \in 1 .. n + 1 /\ \A j \in 1 .. (i - 1) : j \in 1 .. n
  BY <1>1
<1>7. NewestOf(a) = NewestOf(ls) \cup (IF new THEN {n + 1} ELSE {})
  <2>1. ASSUME NEW i \in 1 .. n PROVE i \in NewestOf(a) <=> i \in NewestOf(ls)
    BY <1>1, <1>6 DEF NewestOf
  <2>2. n + 1 \in NewestOf(a) <=> new
    <3>1. n + 1 \in NewestOf(a) <=>
            l.role = "assistant" /\ (l.id # NoId => \A j \in 1 .. n : ls[j].id # l.id)
      BY <1>1, <1>6 DEF NewestOf
    <3> QED BY <1>4, <3>1
  <2>3. NewestOf(a) \subseteq 1 .. n + 1 /\ NewestOf(ls) \subseteq 1 .. n
    BY <1>1 DEF NewestOf
  <2> HIDE DEF new
  <2> QED BY <1>5, <1>6, <2>1, <2>2, <2>3
<1>8. UsersOf(a) = UsersOf(ls) \cup (IF l.role = "user" THEN {n + 1} ELSE {})
  BY <1>1, <1>5, <1>6 DEF UsersOf
<1>9. {a[i].id : i \in DOMAIN a} = {ls[i].id : i \in DOMAIN ls} \cup {l.id}
  BY <1>1, <1>5, <1>6
<1>10. t.seen = {a[i].id : i \in DOMAIN a} \ {NoId}
  <2>1. CASE l.role = "user"
    BY <1>3, <1>9, <1>c, <2>1, LineFields
  <2>2. CASE l.role = "assistant" /\ l.id \in s.seen
    BY <1>3, <1>9, <1>c, <2>2
  <2>3. CASE new
    BY <1>3, <1>9, <1>c, <2>3
  <2> QED BY <2>1, <2>2, <2>3, LineFields
<1>11. NewestOf(ls) \subseteq 1 .. n /\ UsersOf(ls) \subseteq 1 .. n
  BY <1>1 DEF NewestOf, UsersOf
<1>12. /\ n + 1 \notin NewestOf(ls) /\ n + 1 \notin UsersOf(ls)
       /\ IsFiniteSet(NewestOf(ls) \cup {n + 1}) /\ IsFiniteSet(UsersOf(ls) \cup {n + 1})
       /\ Cardinality(NewestOf(ls) \cup {n + 1}) = Cardinality(NewestOf(ls)) + 1
       /\ Cardinality(UsersOf(ls) \cup {n + 1}) = Cardinality(UsersOf(ls)) + 1
       /\ Cardinality(UsersOf(ls)) \in Nat
  BY <1>6, <1>11, <1>c, FS_AddElement, FS_CardinalityType
<1>13. CASE new
  <2>1. NewestOf(a) = NewestOf(ls) \cup {n + 1} /\ UsersOf(a) = UsersOf(ls)
    BY <1>7, <1>8, <1>13
  <2>2. Max(NewestOf(a)) = n + 1
    <3>1. n + 1 \in Nat /\ n + 1 \in NewestOf(a) /\ NewestOf(a) \in SUBSET Nat
          /\ \A i \in NewestOf(a) : i <= n + 1
      BY <1>1, <1>11, <2>1
    <3> QED BY <3>1, MaxOfLast
  <2>3. t.turns = Cardinality(NewestOf(a)) /\ t.messages = t.turns + Cardinality(UsersOf(a))
    BY <1>3, <1>12, <1>13, <1>c, <2>1
  <2>4. t.context = a[Max(NewestOf(a))].id /\ Max(NewestOf(a)) \in NewestOf(a)
    BY <1>1, <1>3, <1>13, <2>1, <2>2
  <2> QED BY <1>c, <1>10, <1>12, <2>1, <2>3, <2>4 DEF CountedOnce, t, a
<1>14. CASE ~new
  <2>1. NewestOf(a) = NewestOf(ls) /\ t.context = s.context /\ t.turns = s.turns
    BY <1>3, <1>7, <1>14, LineFields
  <2>2. NewestOf(ls) # {} => a[Max(NewestOf(ls))] = ls[Max(NewestOf(ls))]
    BY <1>1, <1>11, <1>c
  <2>3. IsFiniteSet(UsersOf(a)) /\ t.messages = t.turns + Cardinality(UsersOf(a))
    <3>1. CASE l.role = "user"
      BY <1>3, <1>8, <1>12, <1>c, <3>1
    <3>2. CASE l.role = "assistant"
      BY <1>3, <1>8, <1>14, <1>c, <3>2
    <3> QED BY <3>1, <3>2, LineFields
  <2> QED BY <1>c, <1>10, <2>1, <2>2, <2>3 DEF CountedOnce, t, a
<1> QED BY <1>13, <1>14

\* For every transcript.
LEMMA CountedAlways == \A ls \in Seq(Lines) : CountedOnce(ls)
<1> DEFINE S == {ls \in Seq(Lines) : CountedOnce(ls)}
<1>1. CountedOnce(<<>>)
  <2>1. NewestOf(<<>>) = {} /\ UsersOf(<<>>) = {} /\ {<<>>[i].id : i \in DOMAIN <<>>} = {}
    BY DEF NewestOf, UsersOf
  <2>2. /\ Summarize[<<>>].turns = 0 /\ Summarize[<<>>].messages = 0
        /\ Summarize[<<>>].seen = {}
    BY SummarizeIs DEF NoSummary
  <2>3. IsFiniteSet({}) /\ Cardinality({}) = 0
    BY FS_EmptySet
  <2>4. /\ Summarize[<<>>].turns = Cardinality(NewestOf(<<>>))
        /\ Summarize[<<>>].messages = Summarize[<<>>].turns + Cardinality(UsersOf(<<>>))
        /\ IsFiniteSet(NewestOf(<<>>)) /\ IsFiniteSet(UsersOf(<<>>))
    <3>1. Cardinality(NewestOf(<<>>)) = 0 /\ IsFiniteSet(NewestOf(<<>>))
      BY <2>1, <2>3, Zenon
    <3>2. Cardinality(UsersOf(<<>>)) = 0 /\ IsFiniteSet(UsersOf(<<>>))
      BY <2>1, <2>3, Zenon
    <3> QED BY <2>2, <3>1, <3>2
  <2>5. Summarize[<<>>].seen = {<<>>[i].id : i \in DOMAIN <<>>} \ {NoId}
    BY <2>1, <2>2
  <2> QED BY <2>1, <2>4, <2>5 DEF CountedOnce
<1>2. \A ls \in Seq(Lines), l \in Lines : ls \in S => Append(ls, l) \in S
  BY CountedStep, AppendIs
<1>3. <<>> \in S
  BY <1>1
<1> HIDE DEF S
<1>4. Seq(Lines) \subseteq S
  BY <1>2, <1>3, SequenceInduction
<1> QED BY <1>4 DEF S

\* What Transcript returns, by the lines.
TurnStep == [p \in Seq(ReadTurns) \X Lines |-> RenderLine(p[1], p[2])]

\* One image more in the last turn.
LEMMA ImageAdded ==
  ASSUME NEW ts \in Seq(ReadTurns), ts # <<>>
  PROVE  LET more == [ts EXCEPT ![Len(ts)].images = @ + 1]
             last == [role |-> Last(ts).role, images |-> Last(ts).images + 1]
         IN  more = Append(Front(ts), last) /\ last \in ReadTurns /\ more \in Seq(ReadTurns)
             /\ more # <<>> /\ Last(more) = last
<1> DEFINE n == Len(ts)
           last == [role |-> Last(ts).role, images |-> Last(ts).images + 1]
           more == [ts EXCEPT ![Len(ts)].images = @ + 1]
<1>1. /\ Front(ts) \in Seq(ReadTurns) /\ Last(ts) \in ReadTurns
      /\ ts = Append(Front(ts), Last(ts))
  BY FrontOfAppend
<1>2. last \in ReadTurns
  BY <1>1 DEF ReadTurns
<1>3. n \in Nat \ {0} /\ Len(Front(ts)) = n - 1 /\ Last(ts) = ts[n]
      /\ \A i \in 1 .. n - 1 : ts[i] = Front(ts)[i]
  <2>1. n \in Nat \ {0} /\ Len(Front(ts)) = n - 1 /\ Last(ts) = ts[n]
    BY FrontAndLast DEF Front, Last
  <2> HIDE DEF n
  <2> QED BY <1>1, <2>1, AppendIs
<1>4. more = [ts EXCEPT ![n] = last]
  <2>1. ts[n] \in ReadTurns
    BY <1>1, <1>3
  <2>2. \A t \in ReadTurns : [t EXCEPT !.images = @ + 1] = [role |-> t.role, images |-> t.images + 1]
    BY DEF ReadTurns
  <2>3. [ts[n] EXCEPT !.images = @ + 1] = last
    BY <1>3, <2>1, <2>2
  <2> QED BY <2>3
<1> HIDE DEF last, n
<1>5. [ts EXCEPT ![n] = last] \in Seq(ReadTurns) /\ Len([ts EXCEPT ![n] = last]) = n
      /\ \A i \in 1 .. n : [ts EXCEPT ![n] = last][i] = IF i = n THEN last ELSE ts[i]
  <2>1. n \in 1 .. Len(ts) /\ Len(ts) = n
    BY <1>3 DEF n
  <2> QED BY <1>2, <2>1, ExceptSeq
<1>6. /\ Append(Front(ts), last) \in Seq(ReadTurns) /\ Len(Append(Front(ts), last)) = n
      /\ Append(Front(ts), last)[n] = last
      /\ \A i \in 1 .. n - 1 : Append(Front(ts), last)[i] = Front(ts)[i]
  <2>1. (n - 1) + 1 = n
    BY <1>3
  <2> QED BY <1>1, <1>2, <1>3, <2>1, AppendIs
<1>7. [ts EXCEPT ![n] = last] = Append(Front(ts), last)
  <2>1. \A i \in 1 .. n : i # n => i \in 1 .. n - 1
    BY <1>3
  <2>2. \A i \in 1 .. n : [ts EXCEPT ![n] = last][i] = Append(Front(ts), last)[i]
    BY <1>3, <1>5, <1>6, <2>1
  <2> QED BY <1>5, <1>6, <2>2, SeqEqual
<1>8. Append(Front(ts), last) # <<>> /\ Last(Append(Front(ts), last)) = last
  BY <1>1, <1>2, FrontOfAppend
<1> QED BY <1>2, <1>4, <1>6, <1>7, <1>8 DEF last

LEMMA RenderLineIs ==
  ASSUME NEW ts \in Seq(ReadTurns), NEW l \in Lines
  PROVE  /\ RenderLine(ts, l) \in Seq(ReadTurns)
         /\ l.kind = "image" /\ ts # <<>> /\ Last(ts).role = "assistant" =>
              RenderLine(ts, l) = [ts EXCEPT ![Len(ts)].images = @ + 1]
         /\ l.kind = "image" /\ ~(ts # <<>> /\ Last(ts).role = "assistant") =>
              RenderLine(ts, l) = ts
         /\ l.kind \in {"result", "thought"} => RenderLine(ts, l) = ts
         /\ l.kind \in {"text", "call"} =>
              RenderLine(ts, l) = Append(ts, [role |-> l.role, images |-> 0])
<1>1. l.kind \in {"text", "result", "image", "call", "thought"} /\ l.role \in {"user", "assistant"}
  BY DEF Lines, UserLines, AssistantLines
<1>2. [role |-> l.role, images |-> 0] \in ReadTurns
  BY <1>1 DEF ReadTurns
<1>3. ts # <<>> => [ts EXCEPT ![Len(ts)].images = @ + 1] \in Seq(ReadTurns)
  BY ImageAdded
<1>4. Append(ts, [role |-> l.role, images |-> 0]) \in Seq(ReadTurns)
  BY <1>2, AppendIs
<1> QED BY <1>1, <1>3, <1>4 DEF RenderLine, HasToolResult, Rendered

LEMMA TranscriptIs ==
  /\ Transcript \in [Seq(Lines) -> Seq(ReadTurns)]
  /\ Transcript[<<>>] = <<>>
  /\ \A ls \in Seq(Lines), l \in Lines : Transcript[Append(ls, l)] = RenderLine(Transcript[ls], l)
<1> DEFINE T == Seq(ReadTurns)
           Body(f) == [ls \in Seq(Lines) |->
                        IF ls = <<>> THEN <<>>
                        ELSE RenderLine(f[Front(ls)], Last(ls))]
<1>1. <<>> \in T
  OBVIOUS
<1>2. TurnStep \in [T \X Lines -> T]
      /\ \A s \in T, l \in Lines : TurnStep[<<s, l>>] = RenderLine(s, l)
  BY RenderLineIs DEF TurnStep
<1>a. \A s \in T, l \in Lines : RenderLine(s, l) \in T
  BY RenderLineIs
<1> HIDE DEF T
<1>3. PICK f \in [Seq(Lines) -> T] : RecursOnFront(f, Lines, <<>>, TurnStep)
  BY <1>1, <1>2, FrontRecursion
<1>4. f = Body(f)
  <2>1. ASSUME NEW s \in Seq(Lines), s # <<>>
        PROVE  TurnStep[<<f[Front(s)], Last(s)>>] = RenderLine(f[Front(s)], Last(s))
    BY <1>2, <1>3, <2>1, FrontOfAppend
  <2> QED BY <1>3, <2>1 DEF RecursOnFront
<1>5. Transcript = Body(Transcript)
  BY <1>4, Zenon DEF Transcript
<1> HIDE DEF Transcript
<1>6. Transcript[<<>>] = <<>>
  BY <1>5
<1>7. ASSUME NEW ls \in Seq(Lines), NEW l \in Lines
      PROVE  Transcript[Append(ls, l)] = RenderLine(Transcript[ls], l)
  <2> DEFINE a == Append(ls, l)
  <2>1. a \in Seq(Lines) /\ a # <<>> /\ Front(a) = ls /\ Last(a) = l
    BY FrontOfAppend
  <2> HIDE DEF a
  <2>2. Transcript[a] = RenderLine(Transcript[Front(a)], Last(a))
    BY <1>5, <2>1
  <2> QED BY <2>1, <2>2 DEF a
<1>8. Seq(Lines) \subseteq {ls \in Seq(Lines) : Transcript[ls] \in T}
  <2> DEFINE S == {ls \in Seq(Lines) : Transcript[ls] \in T}
  <2>1. <<>> \in S
    BY <1>1, <1>6
  <2>2. \A ls \in Seq(Lines), l \in Lines : ls \in S => Append(ls, l) \in S
    BY <1>7, <1>a, AppendIs
  <2> HIDE DEF S
  <2>3. Seq(Lines) \subseteq S
    BY <2>1, <2>2, SequenceInduction
  <2> QED BY <2>3 DEF S
<1>9. Transcript \in [Seq(Lines) -> T]
  BY <1>5, <1>8
<1> QED BY <1>6, <1>7, <1>9 DEF T

LEMMA ImagesOfIs ==
  /\ ImagesOf \in [Seq(ReadTurns) -> Nat]
  /\ ImagesOf[<<>>] = 0
  /\ \A ts \in Seq(ReadTurns), t \in ReadTurns : ImagesOf[Append(ts, t)] = ImagesOf[ts] + t.images
<1> DEFINE Body(f) == [us \in Seq(ReadTurns) |->
                        IF us = <<>> THEN 0 ELSE f[Front(us)] + Last(us).images]
           adds == [p \in Nat \X ReadTurns |-> p[1] + p[2].images]
<1>a. \A t \in ReadTurns : t.images \in Nat
  BY DEF ReadTurns
<1>2. adds \in [Nat \X ReadTurns -> Nat]
      /\ \A m \in Nat, t \in ReadTurns : adds[<<m, t>>] = m + t.images
  BY <1>a
<1> HIDE DEF adds
<1>3. PICK f \in [Seq(ReadTurns) -> Nat] : RecursOnFront(f, ReadTurns, 0, adds)
  BY <1>2, FrontRecursion
<1>4. f = Body(f)
  <2>1. ASSUME NEW s \in Seq(ReadTurns), s # <<>>
        PROVE  adds[<<f[Front(s)], Last(s)>>] = f[Front(s)] + Last(s).images
    BY <1>2, <1>3, <2>1, FrontOfAppend
  <2> QED BY <1>3, <2>1 DEF RecursOnFront
<1>5. ImagesOf = Body(ImagesOf)
  BY <1>4, Zenon DEF ImagesOf
<1> HIDE DEF ImagesOf
<1>6. ImagesOf[<<>>] = 0
  BY <1>5
<1>7. ASSUME NEW ts \in Seq(ReadTurns), NEW t \in ReadTurns
      PROVE  ImagesOf[Append(ts, t)] = ImagesOf[ts] + t.images
  <2> DEFINE a == Append(ts, t)
  <2>1. a \in Seq(ReadTurns) /\ a # <<>> /\ Front(a) = ts /\ Last(a) = t
    BY FrontOfAppend
  <2> HIDE DEF a
  <2>2. ImagesOf[a] = ImagesOf[Front(a)] + Last(a).images
    BY <1>5, <2>1
  <2> QED BY <2>1, <2>2 DEF a
<1>8. Seq(ReadTurns) \subseteq {ts \in Seq(ReadTurns) : ImagesOf[ts] \in Nat}
  <2> DEFINE S == {ts \in Seq(ReadTurns) : ImagesOf[ts] \in Nat}
  <2>1. <<>> \in S
    BY <1>6
  <2>2. \A ts \in Seq(ReadTurns), t \in ReadTurns : ts \in S => Append(ts, t) \in S
    BY <1>7, <1>a, AppendIs
  <2> HIDE DEF S
  <2>3. Seq(ReadTurns) \subseteq S
    BY <2>1, <2>2, SequenceInduction
  <2> QED BY <2>3 DEF S
<1>9. ImagesOf \in [Seq(ReadTurns) -> Nat]
  BY <1>5, <1>8
<1> QED BY <1>6, <1>7, <1>9

\* The first n lines end with a turn in which there was a call.
OpenTurn(ls, n) ==
  \E j \in 1 .. n :
    /\ ls[j].kind = "call"
    /\ \A k \in j .. n : ls[k] \in AssistantLines \/ HasToolResult(ls[k])

\* Results stand in such a turn.
Answered(ls) == \A i \in 1 .. Len(ls) : HasToolResult(ls[i]) => OpenTurn(ls, i - 1)

ImagesIn(ls) == {i \in DOMAIN ls : ls[i].kind = "image"}

\* What ImagesStay says of a transcript, and why an image has a turn to go to.
ImagesKept(ls) ==
  /\ OpenTurn(ls, Len(ls)) => Transcript[ls] # <<>> /\ Last(Transcript[ls]).role = "assistant"
  /\ Answered(ls) => /\ IsFiniteSet(ImagesIn(ls))
                     /\ ImagesOf[Transcript[ls]] = Cardinality(ImagesIn(ls))

LEMMA ImagesStep ==
  ASSUME NEW ls \in Seq(Lines), NEW l \in Lines, ImagesKept(ls)
  PROVE  ImagesKept(Append(ls, l))
<1> DEFINE a == Append(ls, l)
           n == Len(ls)
           ts == Transcript[ls]
           us == Transcript[a]
           more == [ts EXCEPT ![Len(ts)].images = @ + 1]
           last == [role |-> Last(ts).role, images |-> Last(ts).images + 1]
           turn == [role |-> l.role, images |-> 0]
<1>1. /\ a \in Seq(Lines) /\ Len(a) = n + 1 /\ n \in Nat /\ a[n + 1] = l
      /\ \A i \in 1 .. n : a[i] = ls[i] /\ ls[i] \in Lines
      /\ DOMAIN a = 1 .. n + 1 /\ DOMAIN ls = 1 .. n
  BY AppendIs
<1>2. ts \in Seq(ReadTurns) /\ us = RenderLine(ts, l)
  BY TranscriptIs
<1>3. l.kind \in {"text", "result", "image", "call", "thought"}
      /\ (l.kind = "call" => l.role = "assistant")
      /\ (l \in AssistantLines => l.role = "assistant" /\ l.kind \in {"text", "call", "thought"})
      /\ (HasToolResult(l) <=> l.kind \in {"result", "image"})
  BY DEF Lines, UserLines, AssistantLines, HasToolResult
<1>4. turn \in ReadTurns /\ turn.role = l.role /\ turn.images = 0
  BY LineFields DEF ReadTurns
<1>5. ts # <<>> => /\ more = Append(Front(ts), last) /\ last \in ReadTurns
                   /\ more # <<>> /\ Last(more).role = Last(ts).role
                   /\ last.images = Last(ts).images + 1
  <2> SUFFICES ASSUME ts # <<>>
               PROVE  /\ more = Append(Front(ts), last) /\ last \in ReadTurns
                      /\ more # <<>> /\ Last(more).role = Last(ts).role
                      /\ last.images = Last(ts).images + 1
    OBVIOUS
  <2> HIDE DEF ts
  <2>1. /\ more = Append(Front(ts), last) /\ last \in ReadTurns
        /\ more # <<>> /\ Last(more) = last
    BY <1>2, ImageAdded
  <2>2. last.role = Last(ts).role /\ last.images = Last(ts).images + 1
    OBVIOUS
  <2> HIDE DEF more, last
  <2> QED
    BY <2>1, <2>2
<1> HIDE DEF a, n, ts, us, more, last, turn
<1>6. /\ l.kind = "image" /\ ts # <<>> /\ Last(ts).role = "assistant" => us = more
      /\ l.kind = "image" /\ ~(ts # <<>> /\ Last(ts).role = "assistant") => us = ts
      /\ l.kind \in {"result", "thought"} => us = ts
      /\ l.kind \in {"text", "call"} => us = Append(ts, turn)
  BY <1>2, RenderLineIs DEF more, turn
<1>7. Append(ts, turn) # <<>> /\ Last(Append(ts, turn)) = turn
  BY <1>2, <1>4, FrontOfAppend
<1>8. OpenTurn(a, n) => OpenTurn(ls, n)
  <2>1. \A j \in 1 .. n : \A k \in j .. n : k \in 1 .. n
    BY <1>1
  <2> QED BY <1>1, <2>1 DEF OpenTurn
<1>9. OpenTurn(ls, n) => ts # <<>> /\ Last(ts).role = "assistant"
  BY DEF ImagesKept, ts, n
<1>10. ASSUME OpenTurn(a, n + 1) PROVE us # <<>> /\ Last(us).role = "assistant"
  <2>1. PICK j \in 1 .. n + 1 :
             /\ a[j].kind = "call"
             /\ \A k \in j .. n + 1 : a[k] \in AssistantLines \/ HasToolResult(a[k])
    BY <1>10 DEF OpenTurn
  <2>2. CASE j = n + 1
    BY <1>1, <1>3, <1>4, <1>6, <1>7, <2>1, <2>2
  <2>3. CASE j # n + 1
    <3>1. j \in 1 .. n /\ n + 1 \in j .. n + 1 /\ \A k \in j .. n : k \in j .. n + 1
      BY <1>1, <2>3
    <3>2. OpenTurn(a, n)
      BY <2>1, <3>1 DEF OpenTurn
    <3>3. ts # <<>> /\ Last(ts).role = "assistant"
      BY <1>8, <1>9, <3>2
    <3>4. l \in AssistantLines \/ HasToolResult(l)
      BY <1>1, <2>1, <3>1
    <3> QED BY <1>3, <1>4, <1>5, <1>6, <1>7, <3>3, <3>4
  <2> QED BY <2>2, <2>3
<1>11. ASSUME Answered(a)
       PROVE  IsFiniteSet(ImagesIn(a)) /\ ImagesOf[us] = Cardinality(ImagesIn(a))
  <2>1. \A i \in 1 .. n + 1 : HasToolResult(a[i]) => OpenTurn(a, i - 1)
    BY <1>1, <1>11 DEF Answered
  <2>2. Answered(ls)
    <3>1. ASSUME NEW i \in 1 .. n, OpenTurn(a, i - 1) PROVE OpenTurn(ls, i - 1)
      <4>1. \A j \in 1 .. i - 1 : j \in 1 .. n /\ \A k \in j .. i - 1 : k \in 1 .. n
        BY <1>1
      <4> QED BY <1>1, <3>1, <4>1 DEF OpenTurn
    <3>2. \A i \in 1 .. n : i \in 1 .. n + 1
      BY <1>1
    <3> QED BY <1>1, <2>1, <3>1, <3>2 DEF Answered, n
  <2>3. IsFiniteSet(ImagesIn(ls)) /\ ImagesOf[ts] = Cardinality(ImagesIn(ls))
    BY <2>2 DEF ImagesKept, ts
  <2>4. ImagesIn(a) = ImagesIn(ls) \cup (IF l.kind = "image" THEN {n + 1} ELSE {})
    <3>1. \A i \in 1 .. n + 1 : i = n + 1 \/ i \in 1 .. n
      BY <1>1
    <3>2. n + 1 \in 1 .. n + 1 /\ \A i \in 1 .. n : i \in 1 .. n + 1
      BY <1>1
    <3> QED BY <1>1, <3>1, <3>2 DEF ImagesIn
  <2>5. CASE l.kind = "image"
    <3>1. OpenTurn(a, n)
      <4>1. n + 1 \in 1 .. n + 1 /\ (n + 1) - 1 = n /\ HasToolResult(a[n + 1])
        BY <1>1, <1>3, <2>5
      <4> QED BY <2>1, <4>1
    <3>2. ts # <<>> /\ us = Append(Front(ts), last) /\ last \in ReadTurns
          /\ last.images = Last(ts).images + 1
      BY <1>5, <1>6, <1>8, <1>9, <2>5, <3>1
    <3>3. Front(ts) \in Seq(ReadTurns) /\ Last(ts) \in ReadTurns /\ ts = Append(Front(ts), Last(ts))
      BY <1>2, <3>2, FrontOfAppend
    <3>4. ImagesOf[us] = ImagesOf[Front(ts)] + (Last(ts).images + 1)
      BY <3>2, <3>3, ImagesOfIs
    <3>5. ImagesOf[ts] = ImagesOf[Front(ts)] + Last(ts).images
      BY <3>3, ImagesOfIs
    <3>6. ImagesOf[Front(ts)] \in Nat /\ Last(ts).images \in Nat
      BY <3>3, ImagesOfIs DEF ReadTurns
    <3>7. n + 1 \notin ImagesIn(ls)
      BY <1>1 DEF ImagesIn
    <3>8. /\ IsFiniteSet(ImagesIn(ls) \cup {n + 1})
          /\ Cardinality(ImagesIn(ls) \cup {n + 1}) = Cardinality(ImagesIn(ls)) + 1
      BY <2>3, <3>7, FS_AddElement
    <3> QED BY <2>3, <2>4, <2>5, <3>4, <3>5, <3>6, <3>8
  <2>6. CASE l.kind # "image"
    <3>1. us = ts \/ us = Append(ts, turn)
      BY <1>3, <1>6, <2>6
    <3>2. ImagesOf[Append(ts, turn)] = ImagesOf[ts]
      <4>1. ImagesOf[Append(ts, turn)] = ImagesOf[ts] + 0
        BY <1>2, <1>4, ImagesOfIs
      <4>2. ImagesOf[ts] \in Nat
        BY <1>2, ImagesOfIs
      <4> QED BY <4>1, <4>2
    <3>3. ImagesOf[us] = ImagesOf[ts]
      BY <3>1, <3>2, Zenon
    <3> QED BY <2>3, <2>4, <2>6, <3>3
  <2> QED BY <2>5, <2>6
<1> QED BY <1>1, <1>10, <1>11 DEF ImagesKept, us, a

LEMMA ImagesAlways == \A ls \in Seq(Lines) : ImagesKept(ls)
<1> DEFINE S == {ls \in Seq(Lines) : ImagesKept(ls)}
<1>1. ImagesKept(<<>>)
  <2>1. ImagesIn(<<>>) = {} /\ ~OpenTurn(<<>>, 0) /\ Len(<<>>) = 0
    BY DEF ImagesIn, OpenTurn
  <2>2. IsFiniteSet(ImagesIn(<<>>)) /\ Cardinality(ImagesIn(<<>>)) = 0
    BY <2>1, FS_EmptySet, Zenon
  <2>3. ImagesOf[Transcript[<<>>]] = 0
    BY TranscriptIs, ImagesOfIs
  <2> QED BY <2>1, <2>2, <2>3 DEF ImagesKept
<1>2. \A ls \in Seq(Lines), l \in Lines : ls \in S => Append(ls, l) \in S
  BY ImagesStep, AppendIs
<1>3. <<>> \in S
  BY <1>1
<1> HIDE DEF S
<1>4. Seq(Lines) \subseteq S
  BY <1>2, <1>3, SequenceInduction
<1> QED BY <1>4 DEF S

\* The types the argument needs, and that results are logged where InTurn has them.
LoggedInv ==
  /\ jsonl \in Seq(Lines) /\ torn \in BOOLEAN
  /\ torn => jsonl # <<>>
  /\ Answered(jsonl)

LEMMA LoggedInvInit == HistoryInit => LoggedInv
<1> SUFFICES ASSUME HistoryInit PROVE LoggedInv
  OBVIOUS
<1>1. jsonl = <<>> /\ torn = FALSE
  BY Zenon DEF HistoryInit
<1>2. <<>> \in Seq(Lines) /\ Answered(<<>>)
  BY DEF Answered
<1> QED BY <1>1, <1>2 DEF LoggedInv

LEMMA LoggedInvAppend ==
  ASSUME LoggedInv, NEW l \in Lines, AppendLine(l)
  PROVE  LoggedInv'
<1> DEFINE a == Append(jsonl, l)
           n == Len(jsonl)
<1>1. /\ a \in Seq(Lines) /\ Len(a) = n + 1 /\ n \in Nat /\ a[n + 1] = l
      /\ \A i \in 1 .. n : a[i] = jsonl[i]
      /\ DOMAIN jsonl = 1 .. n
  BY AppendIs DEF LoggedInv
<1>2. jsonl' = a /\ torn' \in BOOLEAN /\ InTurn(l)
  BY DEF AppendLine
<1> HIDE DEF a
<1>3. \A i \in 1 .. n : OpenTurn(jsonl, i - 1) => OpenTurn(a, i - 1)
  <2>1. \A i \in 1 .. n : \A j \in 1 .. i - 1 : j \in 1 .. n /\ \A k \in j .. i - 1 : k \in 1 .. n
    BY <1>1
  <2> QED BY <1>1, <2>1 DEF OpenTurn
<1>4. HasToolResult(l) => OpenTurn(a, n)
  <2>1. \A j \in 1 .. n : \A k \in j .. n : k \in 1 .. n
    BY <1>1
  <2> QED BY <1>1, <1>2, <2>1 DEF InTurn, OpenTurn
<1>5. Answered(a)
  <2> SUFFICES ASSUME NEW i \in 1 .. n + 1, HasToolResult(a[i]) PROVE OpenTurn(a, i - 1)
    BY <1>1 DEF Answered
  <2>1. CASE i = n + 1
    <3>1. i - 1 = n
      BY <1>1, <2>1
    <3> QED BY <1>1, <1>4, <2>1, <3>1
  <2>2. CASE i # n + 1
    <3>1. i \in 1 .. n
      BY <1>1, <2>2
    <3> QED BY <1>1, <1>3, <3>1 DEF LoggedInv, Answered
  <2> QED BY <2>1, <2>2
<1>6. a # <<>>
  BY <1>1
<1> QED BY <1>1, <1>2, <1>5, <1>6 DEF LoggedInv

LEMMA LoggedInvNext == LoggedInv /\ [LogNext \/ ListNext]_historyVars => LoggedInv'
<1> SUFFICES ASSUME LoggedInv, [LogNext \/ ListNext]_historyVars PROVE LoggedInv'
  OBVIOUS
<1>1. CASE LogNext
  BY <1>1, LoggedInvAppend DEF LogNext
<1>2. CASE AppendLine(PlainAnswer)
  <2>1. PlainAnswer \in Lines
    BY DEF PlainAnswer, Lines, AssistantLines
  <2> QED BY <1>2, <2>1, LoggedInvAppend
<1>3. CASE CompleteLine
  BY <1>3 DEF CompleteLine, LoggedInv
<1>4. CASE UNCHANGED <<jsonl, torn>>
  BY <1>4 DEF LoggedInv
<1>5. CASE TickOfFiles \/ (\E r \in Listers : ListStep(r)) \/ UNCHANGED historyVars
  <2>1. UNCHANGED <<jsonl, torn>>
    BY <1>5, Zenon DEF TickOfFiles, ListStep, ListStat, ListHit, ListMiss, ListRead, ListStore,
                       ListGoes, historyVars
  <2> QED BY <1>4, <2>1
<1> QED BY <1>1, <1>2, <1>3, <1>5 DEF ListNext

\* The readers see all lines, or all but one that is torn.
LEMMA ReadersRead == LoggedInv => ReadersCountOnce /\ ImagesStay
<1> SUFFICES ASSUME LoggedInv PROVE ReadersCountOnce /\ ImagesStay
  OBVIOUS
<1>1. Parsed \in Seq(Lines) /\ Answered(Parsed)
  <2>1. CASE torn
    <3>1. jsonl # <<>> /\ jsonl \in Seq(Lines)
      BY <2>1 DEF LoggedInv
    <3> DEFINE f == Front(jsonl)
               n == Len(f)
    <3>2. f \in Seq(Lines) /\ Last(jsonl) \in Lines /\ jsonl = Append(f, Last(jsonl))
      BY <3>1, FrontOfAppend
    <3> HIDE DEF f
    <3>3. Len(jsonl) = n + 1 /\ n \in Nat /\ \A i \in 1 .. n : jsonl[i] = f[i]
      BY <3>2, AppendIs
    <3>4. \A i \in 1 .. n : OpenTurn(jsonl, i - 1) => OpenTurn(f, i - 1)
      <4>1. \A i \in 1 .. n : \A j \in 1 .. i - 1 : j \in 1 .. n /\ \A k \in j .. i - 1 : k \in 1 .. n
        BY <3>3
      <4> QED BY <3>3, <4>1 DEF OpenTurn
    <3>5. \A i \in 1 .. n : i \in 1 .. Len(jsonl)
      BY <3>3
    <3>6. Answered(f)
      BY <3>3, <3>4, <3>5 DEF LoggedInv, Answered
    <3> QED BY <2>1, <3>2, <3>6 DEF Parsed, f
  <2>2. CASE ~torn
    BY <2>2 DEF Parsed, LoggedInv
  <2> QED BY <2>1, <2>2
<1> DEFINE ls == Parsed
<1>2. CountedOnce(ls) /\ ImagesKept(ls)
  BY <1>1, CountedAlways, ImagesAlways
<1>3. ImagesStay
  BY <1>1, <1>2 DEF ImagesKept, ImagesIn, ImagesStay
<1>4. ReadersCountOnce
  BY <1>2 DEF CountedOnce, NewestOf, UsersOf, ReadersCountOnce
<1> QED BY <1>3, <1>4

\* However many lines are logged, repeated, torn and read: a message counts once, the context
\* is that of the newest, every image stays, and a summary from the cache is that of the file.
THEOREM TranscriptRead == HistorySpec => []TranscriptIsRead
<1>1. LoggedInv /\ ServedIsCurrent => TranscriptIsRead
  BY ReadersRead DEF TranscriptIsRead
<1> QED
  BY LoggedInvInit, LoggedInvNext, ListIsCurrent, <1>1, PTL DEF HistorySpec

-----------------------------------------------------------------------------
(* The Bash tool.                                                          *)

Least(a, b) == IF a <= b THEN a ELSE b

\* The smaller of two numbers.
LEMMA MinOfTwo ==
  ASSUME NEW a \in Nat, NEW b \in Nat
  PROVE  Min({a, b}) = Least(a, b)
<1> DEFINE P(x) == x \in {a, b} /\ \A y \in {a, b} : x <= y
<1>1. P(Least(a, b))
  BY DEF Least
<1>2. Min({a, b}) = CHOOSE x \in {a, b} : \A y \in {a, b} : x <= y
  BY DEF Min
<1>3. P(Min({a, b}))
  BY <1>1, <1>2
<1> QED
  BY <1>1, <1>3 DEF Least

\* The types the argument needs.
HeardTypes ==
  /\ shell \in {"running", "exited"}
  /\ background \in {"none", "piped", "detached", "exited"}
  /\ written \in [Streams -> Nat] /\ inPipe \in [Streams -> Nat] /\ kept \in [Streams -> Nat]
  /\ truncated \in [Streams -> BOOLEAN] /\ ended \in [Streams -> BOOLEAN]

\* What a reader has read of a stream: it kept its beginning, up to the cap, and marked
\* the stream if there was more.
ReadSoFar(s) == written[s] - inPipe[s]
KeepsBeginning ==
  \A s \in Streams :
    /\ inPipe[s] <= written[s]
    /\ kept[s] = Least(ReadSoFar(s), MaxOutput)
    /\ truncated[s] <=> ReadSoFar(s) > MaxOutput

\* A stream that ended is read and will not be written to.
EndsAreFinal == \A s \in Streams : ended[s] => inPipe[s] = 0 /\ HoldsPipes = {}

ReturnsLast == answer = "output" => \A s \in Streams : ended[s]

HeardInv == HeardTypes /\ KeepsBeginning /\ EndsAreFinal /\ ReturnsLast

LEMMA HeardInvInit == ShellInit => HeardInv
BY ShellAssumption
   DEF ShellInit, HeardInv, HeardTypes, KeepsBeginning, EndsAreFinal, ReturnsLast, ReadSoFar,
       Least, HoldsPipes

\* Every step keeps it.
LEMMA HeardInvNext == HeardInv /\ [ShellNext]_shellVars => HeardInv'
<1> SUFFICES ASSUME HeardInv, [ShellNext]_shellVars
             PROVE  HeardInv'
  OBVIOUS
<1>t. HeardTypes /\ KeepsBeginning /\ EndsAreFinal /\ ReturnsLast
  BY DEF HeardInv
<1>1. ASSUME NEW s \in Streams, CommandWrites(s)
      PROVE  HeardInv'
  <2>1. /\ HoldsPipes # {} /\ answer = "none"
        /\ written' = [written EXCEPT ![s] = @ + 1] /\ inPipe' = [inPipe EXCEPT ![s] = @ + 1]
        /\ UNCHANGED <<shell, background, kept, truncated, ended, answer>>
    BY <1>1 DEF CommandWrites
  <2>2. \A q \in Streams : ended[q] = FALSE
    BY <1>t, <2>1 DEF HeardTypes, EndsAreFinal
  <2>3. HeardTypes' /\ \A q \in Streams : ReadSoFar(q)' = ReadSoFar(q) /\ (inPipe[q] <= written[q])'
    BY <1>t, <2>1 DEF HeardTypes, KeepsBeginning, ReadSoFar
  <2>4. KeepsBeginning'
    BY <1>t, <2>1, <2>3 DEF KeepsBeginning
  <2> QED
    BY <2>1, <2>2, <2>3, <2>4 DEF HeardInv, EndsAreFinal, ReturnsLast
<1>2. CASE CommandForks
  <2>1. HoldsPipes # {} /\ shell = "running"
    BY <1>2 DEF CommandForks, HoldsPipes
  <2>2. \A q \in Streams : ended[q] = FALSE
    BY <1>t, <2>1 DEF HeardTypes, EndsAreFinal
  <2> QED
    BY <1>t, <1>2, <2>2 DEF CommandForks, HeardInv, HeardTypes, KeepsBeginning, EndsAreFinal,
                          ReturnsLast, ReadSoFar
<1>3. ASSUME UNCHANGED <<written, inPipe, kept, truncated, ended>>,
             shell' \in {"running", "exited"},
             background' \in {"none", "piped", "detached", "exited"},
             answer' = "output" => \A s \in Streams : ended[s],
             HoldsPipes' \subseteq HoldsPipes
      PROVE  HeardInv'
  BY <1>t, <1>3 DEF HeardInv, HeardTypes, KeepsBeginning, EndsAreFinal, ReturnsLast, ReadSoFar
<1>4. CASE ShellExits \/ BackgroundExits
  BY <1>t, <1>3, <1>4 DEF ShellExits, BackgroundExits, HeardTypes, HoldsPipes, ReturnsLast
<1>5. ASSUME NEW s \in Streams, NEW n \in 1 .. ShellPipe, ReadChunk(s, n)
      PROVE  HeardInv'
  <2>1. /\ answer = "none" /\ n <= inPipe[s] /\ ended[s] = FALSE
        /\ inPipe' = [inPipe EXCEPT ![s] = @ - n]
        /\ kept' = [kept EXCEPT ![s] = @ + Takes(s, n)]
        /\ truncated' = [truncated EXCEPT ![s] = @ \/ Takes(s, n) < n]
        /\ UNCHANGED <<shell, background, written, ended, answer>>
    BY <1>t, <1>5 DEF ReadChunk, Reading, HeardTypes
  <2>2. n \in Nat /\ n > 0 /\ MaxOutput \in Nat /\ inPipe[s] \in Nat /\ written[s] \in Nat
        /\ kept[s] \in Nat
    BY <1>t, ShellAssumption DEF HeardTypes
  <2>3. inPipe[s] <= written[s] /\ kept[s] = Least(written[s] - inPipe[s], MaxOutput)
        /\ (truncated[s] <=> written[s] - inPipe[s] > MaxOutput)
    BY <1>t DEF KeepsBeginning, ReadSoFar
  <2>4. MaxOutput - kept[s] \in Nat
    BY <2>2, <2>3 DEF Least
  <2>5. Takes(s, n) = Least(n, MaxOutput - kept[s])
    BY <2>2, <2>4, MinOfTwo DEF Takes
  <2>6. Takes(s, n) \in Nat /\ kept[s] + Takes(s, n) = Least(written[s] - (inPipe[s] - n), MaxOutput)
        /\ ((truncated[s] \/ Takes(s, n) < n) <=> written[s] - (inPipe[s] - n) > MaxOutput)
    BY <2>1, <2>2, <2>3, <2>4, <2>5 DEF Least
  <2>7. HeardTypes'
    BY <1>t, <2>1, <2>2, <2>6 DEF HeardTypes
  <2>8. KeepsBeginning'
    <3>1. /\ inPipe'[s] = inPipe[s] - n /\ kept'[s] = kept[s] + Takes(s, n)
          /\ truncated'[s] = (truncated[s] \/ Takes(s, n) < n)
      BY <1>t, <2>1 DEF HeardTypes
    <3>2. \A q \in Streams \ {s} : inPipe'[q] = inPipe[q] /\ kept'[q] = kept[q]
                                    /\ truncated'[q] = truncated[q]
      BY <1>t, <2>1 DEF HeardTypes
    <3>3. inPipe'[s] <= written'[s]
      BY <2>1, <2>2, <2>3, <3>1
    <3> QED
      BY <1>t, <2>1, <2>6, <3>1, <3>2, <3>3 DEF KeepsBeginning, ReadSoFar
  <2>9. EndsAreFinal' /\ ReturnsLast'
    BY <1>t, <2>1, <2>2 DEF HeardTypes, EndsAreFinal, ReturnsLast, HoldsPipes
  <2> QED
    BY <2>7, <2>8, <2>9 DEF HeardInv
<1>6. ASSUME NEW s \in Streams, ReadEnd(s)
      PROVE  HeardInv'
  BY <1>t, <1>6 DEF ReadEnd, HeardInv, HeardTypes, KeepsBeginning, EndsAreFinal, ReturnsLast,
                    ReadSoFar, HoldsPipes
<1>7. CASE BashReturns \/ BashTimesOut
  BY <1>t, <1>3, <1>7 DEF BashReturns, BashTimesOut, HeardTypes, HoldsPipes
<1>8. CASE UNCHANGED shellVars
  BY <1>t, <1>3, <1>8 DEF shellVars, HeardTypes, HoldsPipes, ReturnsLast
<1> QED
  BY <1>1, <1>2, <1>4, <1>5, <1>6, <1>7, <1>8 DEF ShellNext

\* What was kept is what the answer says it is.
LEMMA HeardIsHeard == HeardInv => CommandIsHeard
<1> SUFFICES ASSUME HeardInv PROVE CommandIsHeard
  OBVIOUS
<1>t. HeardTypes /\ KeepsBeginning /\ EndsAreFinal /\ ReturnsLast
  BY DEF HeardInv
<1>1. NeverWedged
  BY <1>t, ShellAssumption DEF NeverWedged, Reading, HeardTypes, EndsAreFinal
<1>2. AnswerHoldsOutput
  <2> SUFFICES ASSUME answer = "output"
               PROVE  /\ HoldsPipes = {}
                      /\ Shown("stdout") = Min({written["stdout"], MaxOutput})
                      /\ Marked <=> \E s \in Streams : Shown(s) < written[s]
    BY DEF AnswerHoldsOutput
  <2> DEFINE out == written["stdout"]
             err == written["stderr"]
  <2>1. out \in Nat /\ err \in Nat /\ MaxOutput \in Nat
    BY <1>t, ShellAssumption DEF HeardTypes, Streams
  <2>2. HoldsPipes = {} /\ \A s \in Streams : inPipe[s] = 0
    BY <1>t DEF ReturnsLast, EndsAreFinal, Streams
  <2>3. /\ kept["stdout"] = Least(out, MaxOutput) /\ kept["stderr"] = Least(err, MaxOutput)
        /\ truncated["stdout"] <=> out > MaxOutput
        /\ truncated["stderr"] <=> err > MaxOutput
    BY <1>t, <2>1, <2>2 DEF KeepsBeginning, ReadSoFar, Streams
  <2>4. Min({out, MaxOutput}) = Least(out, MaxOutput)
    BY <2>1, MinOfTwo
  <2>5. /\ Shown("stdout") = Least(out, MaxOutput)
        /\ Shown("stderr") = Least(Least(err, MaxOutput), MaxOutput - Least(out, MaxOutput))
    <3>1. kept["stderr"] \in Nat /\ MaxOutput - kept["stdout"] \in Nat
      BY <2>1, <2>3 DEF Least
    <3> QED
      BY <2>3, <3>1, MinOfTwo DEF Shown
  <2>6. Marked <=> out > MaxOutput \/ err > MaxOutput
                     \/ Least(out, MaxOutput) + Least(err, MaxOutput) > MaxOutput
    BY <2>3 DEF Marked, Streams
  <2>7. (\E s \in Streams : Shown(s) < written[s])
          <=> Shown("stdout") < out \/ Shown("stderr") < err
    BY DEF Streams
  <2> QED
    BY <2>1, <2>2, <2>4, <2>5, <2>6, <2>7 DEF Least
<1> QED
  BY <1>1, <1>2 DEF CommandIsHeard

\* For any size of the pipes and any cap: no full pipe is left unread, and the answer
\* shows what was written, up to the cap, and marks what is missing.
THEOREM CommandsAreHeard == ShellSpec => []CommandIsHeard
<1> QED
  BY HeardInvInit, HeardInvNext, HeardIsHeard, PTL DEF ShellSpec

-----------------------------------------------------------------------------
(* The adapter to Gemini.                                                  *)

Streamable == CallParts \cup TextParts \cup {OtherPart}
StreamBlocks == [kind : {"text", "thinking", "tool_use"}, pieces : Seq(Streamable)]
Messages == [role : {"user", "assistant"}, content : Seq(BlockSet)]

PiecesOf(B) == [i \in DOMAIN B |-> B[i].pieces]
Kept(parts) == [i \in DOMAIN parts |-> IF IsPiece(parts[i]) THEN <<parts[i]>> ELSE <<>>]

\* The pieces of some blocks are those of their kind.
OfTheirKind(B) ==
  \A i \in DOMAIN B : \A k \in DOMAIN B[i].pieces : B[i].pieces[k].kind = B[i].kind

\* One block more is one sequence of pieces more.
LEMMA PiecesOfAppend ==
  ASSUME NEW B \in Seq(StreamBlocks), NEW b \in StreamBlocks
  PROVE  /\ PiecesOf(B) \in Seq(Seq(Streamable)) /\ b.pieces \in Seq(Streamable)
         /\ Len(PiecesOf(B)) = Len(B)
         /\ PiecesOf(Append(B, b)) = Append(PiecesOf(B), b.pieces)
<1> DEFINE L == Seq(Streamable)
<1>1. Len(B) \in Nat /\ DOMAIN B = 1 .. Len(B) /\ \A i \in 1 .. Len(B) : B[i].pieces \in L
  <2>1. \A i \in 1 .. Len(B) : B[i] \in StreamBlocks
    OBVIOUS
  <2>2. \A c \in StreamBlocks : c.pieces \in L
    BY DEF StreamBlocks
  <2> QED BY <2>1, <2>2
<1>2. b.pieces \in L
  BY DEF StreamBlocks
<1> HIDE DEF L
<1>3. /\ Append(B, b) \in Seq(StreamBlocks) /\ Len(Append(B, b)) = Len(B) + 1
      /\ Append(B, b)[Len(B) + 1] = b /\ \A i \in 1 .. Len(B) : Append(B, b)[i] = B[i]
  BY AppendIs
<1>4. PiecesOf(B) \in Seq(L) /\ Len(PiecesOf(B)) = Len(B)
      /\ \A i \in 1 .. Len(B) : PiecesOf(B)[i] = B[i].pieces
  BY <1>1 DEF PiecesOf
<1>5. /\ PiecesOf(Append(B, b)) \in Seq(L) /\ Len(PiecesOf(Append(B, b))) = Len(B) + 1
      /\ \A i \in 1 .. Len(B) + 1 : PiecesOf(Append(B, b))[i] = Append(B, b)[i].pieces
  <2>1. DOMAIN Append(B, b) = 1 .. Len(B) + 1
    BY <1>3
  <2>2. \A i \in 1 .. Len(B) + 1 : Append(B, b)[i].pieces \in L
    <3>1. \A i \in 1 .. Len(B) + 1 : i = Len(B) + 1 \/ i \in 1 .. Len(B)
      BY <1>1
    <3> QED BY <1>1, <1>2, <1>3, <3>1
  <2> QED BY <1>1, <2>1, <2>2 DEF PiecesOf
<1>6. /\ Append(PiecesOf(B), b.pieces) \in Seq(L)
      /\ Len(Append(PiecesOf(B), b.pieces)) = Len(B) + 1
      /\ Append(PiecesOf(B), b.pieces)[Len(B) + 1] = b.pieces
      /\ \A i \in 1 .. Len(B) : Append(PiecesOf(B), b.pieces)[i] = PiecesOf(B)[i]
  BY <1>2, <1>4, AppendIs
<1>7. \A i \in 1 .. Len(B) + 1 : PiecesOf(Append(B, b))[i] = Append(PiecesOf(B), b.pieces)[i]
  <2>1. \A i \in 1 .. Len(B) + 1 : i = Len(B) + 1 \/ i \in 1 .. Len(B)
    BY <1>1
  <2> QED BY <1>3, <1>4, <1>5, <1>6, <2>1
<1>8. PiecesOf(Append(B, b)) = Append(PiecesOf(B), b.pieces)
  BY <1>5, <1>6, <1>7, SeqEqual
<1> QED BY <1>2, <1>4, <1>8 DEF L

\* One part more is one piece more, or none.
LEMMA KeptAppend ==
  ASSUME NEW parts \in Seq(Streamable), NEW p \in Streamable
  PROVE  /\ Pieces(parts) \in Seq(Streamable)
         /\ Pieces(Append(parts, p)) = Pieces(parts) \o (IF IsPiece(p) THEN <<p>> ELSE <<>>)
<1> DEFINE L == Seq(Streamable)
           one(q) == IF IsPiece(q) THEN <<q>> ELSE <<>>
           n == Len(parts)
           a == Append(parts, p)
<1>1. n \in Nat /\ DOMAIN parts = 1 .. n /\ \A i \in 1 .. n : parts[i] \in Streamable
  OBVIOUS
<1>2. \A q \in Streamable : one(q) \in L
  OBVIOUS
<1> HIDE DEF L
<1>3. a \in Seq(Streamable) /\ Len(a) = n + 1 /\ DOMAIN a = 1 .. n + 1
      /\ a[n + 1] = p /\ \A i \in 1 .. n : a[i] = parts[i]
  BY AppendIs
<1> HIDE DEF a, one, n
<1>4. Kept(parts) = [i \in 1 .. n |-> one(parts[i])]
  BY <1>1 DEF Kept, one
<1>5. Kept(a) = [i \in 1 .. n + 1 |-> one(a[i])]
  BY <1>3 DEF Kept, one
<1>6. Kept(parts) \in Seq(L) /\ Len(Kept(parts)) = n
  BY <1>1, <1>2, <1>4
<1>7. Kept(a) \in Seq(L) /\ Len(Kept(a)) = n + 1
  <2>1. \A i \in 1 .. n + 1 : a[i] \in Streamable
    BY <1>3
  <2> QED BY <1>1, <1>2, <1>5, <2>1
<1>8. /\ Append(Kept(parts), one(p)) \in Seq(L) /\ Len(Append(Kept(parts), one(p))) = n + 1
      /\ Append(Kept(parts), one(p))[n + 1] = one(p)
      /\ \A i \in 1 .. n : Append(Kept(parts), one(p))[i] = Kept(parts)[i]
  BY <1>2, <1>6, AppendIs
<1>9. \A i \in 1 .. n + 1 : Kept(a)[i] = Append(Kept(parts), one(p))[i]
  <2> SUFFICES ASSUME NEW i \in 1 .. n + 1
               PROVE  Kept(a)[i] = Append(Kept(parts), one(p))[i]
    OBVIOUS
  <2>1. Kept(a)[i] = one(a[i])
    BY <1>5
  <2>2. CASE i = n + 1
    BY <1>3, <1>8, <2>1, <2>2
  <2>3. CASE i # n + 1
    <3>1. i \in 1 .. n
      BY <1>1, <2>3
    <3>2. Kept(parts)[i] = one(parts[i])
      BY <1>4, <3>1
    <3> QED BY <1>3, <1>8, <2>1, <3>1, <3>2
  <2> QED BY <2>2, <2>3
<1>10. Kept(a) = Append(Kept(parts), one(p))
  BY <1>7, <1>8, <1>9, SeqEqual
<1>11. /\ FlattenSeq(Kept(parts)) \in Seq(Streamable)
       /\ FlattenSeq(Append(Kept(parts), one(p))) = FlattenSeq(Kept(parts)) \o one(p)
  BY <1>2, <1>6, FlattenSeqIs DEF L
<1> QED BY <1>10, <1>11 DEF Pieces, Kept, one, a

\* What a step must keep true of the blocks and the parts heard.
BlocksFit(B, parts, kind) ==
  /\ B \in Seq(StreamBlocks) /\ parts \in Seq(Streamable) /\ Len(B) <= Len(parts)
  /\ kind # NoKind => B # <<>> /\ B[Len(B)].kind = kind
  /\ \A i \in DOMAIN B : B[i].kind = "tool_use" => B[i].pieces # <<>>
  /\ FlattenSeq(PiecesOf(B)) = Pieces(parts)
  /\ OfTheirKind(B)

\* The block that is open is the newest, a call has its part, and there is a message to
\* answer while the tools run.
GeminiInv ==
  /\ BlocksFit(blocks, streamed, current_kind) /\ Len(streamed) <= MaxParts
  /\ current_kind \in {NoKind, "text", "thinking"}
  /\ talk \in Seq(Messages) /\ geminiAt \in {"idle", "stream", "tools"}
  /\ geminiAt = "tools" => talk # <<>>

\* A new block with its pieces.
LEMMA NewBlock ==
  ASSUME NEW B \in Seq(StreamBlocks), NEW b \in StreamBlocks,
         \A i \in DOMAIN B : B[i].kind = "tool_use" => B[i].pieces # <<>>,
         OfTheirKind(B),
         b.kind = "tool_use" => b.pieces # <<>>,
         \A k \in DOMAIN b.pieces : b.pieces[k].kind = b.kind
  PROVE  /\ Append(B, b) \in Seq(StreamBlocks) /\ Len(Append(B, b)) = Len(B) + 1
         /\ Append(B, b) # <<>> /\ Append(B, b)[Len(B) + 1] = b
         /\ \A i \in DOMAIN Append(B, b) :
              Append(B, b)[i].kind = "tool_use" => Append(B, b)[i].pieces # <<>>
         /\ OfTheirKind(Append(B, b))
         /\ FlattenSeq(PiecesOf(Append(B, b))) = FlattenSeq(PiecesOf(B)) \o b.pieces
<1> DEFINE a == Append(B, b)
<1>1. a \in Seq(StreamBlocks) /\ Len(a) = Len(B) + 1 /\ a[Len(B) + 1] = b /\ Len(B) \in Nat
      /\ \A i \in 1 .. Len(B) : a[i] = B[i]
  BY AppendIs
<1> HIDE DEF a
<1>2. a # <<>> /\ DOMAIN a = 1 .. Len(B) + 1 /\ DOMAIN B = 1 .. Len(B)
  BY <1>1
<1>3. \A i \in DOMAIN a : a[i] = b \/ (i \in DOMAIN B /\ a[i] = B[i])
  BY <1>1, <1>2
<1>4. /\ \A i \in DOMAIN a : a[i].kind = "tool_use" => a[i].pieces # <<>>
      /\ OfTheirKind(a)
  BY <1>3 DEF OfTheirKind
<1>5. FlattenSeq(PiecesOf(a)) = FlattenSeq(PiecesOf(B)) \o b.pieces
  BY PiecesOfAppend, FlattenSeqIs DEF a
<1> QED BY <1>1, <1>2, <1>4, <1>5 DEF a

LEMMA CallFits ==
  ASSUME NEW B, NEW parts, NEW kind, BlocksFit(B, parts, kind), NEW p \in CallParts
  PROVE  BlocksFit(Append(B, [kind |-> "tool_use", pieces |-> <<p>>]), Append(parts, p), NoKind)
<1> DEFINE b == [kind |-> "tool_use", pieces |-> <<p>>]
<1>1. p \in Streamable /\ p.kind = "tool_use" /\ IsPiece(p)
  BY DEF Streamable, CallParts, IsPiece
<1>2. b \in StreamBlocks /\ b.kind = "tool_use" /\ b.pieces # <<>> /\ b.pieces = <<p>>
      /\ \A k \in DOMAIN b.pieces : b.pieces[k].kind = b.kind
  BY <1>1 DEF StreamBlocks
<1> HIDE DEF b
<1>3. B \in Seq(StreamBlocks) /\ parts \in Seq(Streamable) /\ Len(B) <= Len(parts)
  BY DEF BlocksFit
<1>4. Append(parts, p) \in Seq(Streamable) /\ Len(Append(parts, p)) = Len(parts) + 1
  BY <1>1, <1>3, AppendIs
<1>5. Pieces(Append(parts, p)) = Pieces(parts) \o <<p>>
  BY <1>1, <1>3, KeptAppend
<1>6. /\ Append(B, b) \in Seq(StreamBlocks) /\ Len(Append(B, b)) = Len(B) + 1
      /\ \A i \in DOMAIN Append(B, b) :
           Append(B, b)[i].kind = "tool_use" => Append(B, b)[i].pieces # <<>>
      /\ OfTheirKind(Append(B, b))
      /\ FlattenSeq(PiecesOf(Append(B, b))) = FlattenSeq(PiecesOf(B)) \o b.pieces
  BY <1>2, <1>3, NewBlock DEF BlocksFit
<1>7. Len(Append(B, b)) <= Len(Append(parts, p))
  BY <1>3, <1>4, <1>6
<1> QED BY <1>2, <1>4, <1>5, <1>6, <1>7 DEF BlocksFit, b

\* The blocks once there is one for a part of this kind.
OpenFor(B, kind, k) == IF kind = k THEN B ELSE Append(B, [kind |-> k, pieces |-> <<>>])

LEMMA OpenFits ==
  ASSUME NEW B, NEW parts, NEW kind, BlocksFit(B, parts, kind), NEW p \in TextParts
  PROVE  LET O == OpenFor(B, kind, p.kind) IN
         /\ O \in Seq(StreamBlocks) /\ Len(O) <= Len(parts) + 1
         /\ O # <<>> /\ O[Len(O)].kind = p.kind
         /\ \A i \in DOMAIN O : O[i].kind = "tool_use" => O[i].pieces # <<>>
         /\ OfTheirKind(O)
         /\ FlattenSeq(PiecesOf(O)) = Pieces(parts)
<1>1. p.kind \in {"text", "thinking"} /\ p.kind # NoKind
  BY DEF TextParts, NoKind
<1>2. B \in Seq(StreamBlocks) /\ parts \in Seq(Streamable) /\ Len(B) <= Len(parts)
      /\ Len(B) \in Nat /\ Len(parts) \in Nat
  BY DEF BlocksFit
<1>3. CASE kind = p.kind
  <2>1. Len(B) <= Len(parts) + 1
    BY <1>2
  <2> QED BY <1>1, <1>2, <1>3, <2>1 DEF BlocksFit, OpenFor
<1>4. CASE kind # p.kind
  <2> DEFINE b == [kind |-> p.kind, pieces |-> <<>>]
             a == Append(B, b)
  <2>1. b \in StreamBlocks /\ b.kind = p.kind /\ b.kind # "tool_use" /\ b.pieces = <<>>
        /\ \A k \in DOMAIN b.pieces : b.pieces[k].kind = b.kind
    BY <1>1 DEF StreamBlocks
  <2>2. OpenFor(B, kind, p.kind) = a
    BY <1>4 DEF OpenFor
  <2> HIDE DEF b
  <2>3. /\ a \in Seq(StreamBlocks) /\ Len(a) = Len(B) + 1
        /\ a # <<>> /\ a[Len(B) + 1] = b
        /\ \A i \in DOMAIN a : a[i].kind = "tool_use" => a[i].pieces # <<>>
        /\ OfTheirKind(a)
        /\ FlattenSeq(PiecesOf(a)) = FlattenSeq(PiecesOf(B)) \o b.pieces
    BY <1>2, <2>1, NewBlock DEF BlocksFit
  <2>4. FlattenSeq(PiecesOf(B)) \o <<>> = FlattenSeq(PiecesOf(B))
    <3>1. FlattenSeq(PiecesOf(B)) \in Seq(Streamable)
      BY <1>2, <2>1, PiecesOfAppend, FlattenSeqIs
    <3> QED BY <3>1, ConcatEmptySeq
  <2> HIDE DEF a
  <2> QED BY <1>2, <2>1, <2>2, <2>3, <2>4 DEF BlocksFit
<1> QED BY <1>3, <1>4

LEMMA TextFits ==
  ASSUME NEW B, NEW parts, NEW kind, BlocksFit(B, parts, kind), NEW p \in TextParts
  PROVE  LET O == OpenFor(B, kind, p.kind) IN
         BlocksFit(IF p.empty THEN O ELSE [O EXCEPT ![Len(O)].pieces = Append(@, p)],
                   Append(parts, p), p.kind)
<1> DEFINE O == OpenFor(B, kind, p.kind)
           n == Len(O)
<1>1. p \in Streamable /\ p.kind \in {"text", "thinking"} /\ (IsPiece(p) <=> ~p.empty)
  BY DEF Streamable, TextParts, IsPiece
<1>2. /\ O \in Seq(StreamBlocks) /\ Len(O) <= Len(parts) + 1
      /\ O # <<>> /\ O[Len(O)].kind = p.kind
      /\ \A i \in DOMAIN O : O[i].kind = "tool_use" => O[i].pieces # <<>>
      /\ OfTheirKind(O)
      /\ FlattenSeq(PiecesOf(O)) = Pieces(parts)
  BY OpenFits
<1> HIDE DEF O
<1>3. parts \in Seq(Streamable)
  BY DEF BlocksFit
<1>4. Append(parts, p) \in Seq(Streamable) /\ Len(Append(parts, p)) = Len(parts) + 1
  BY <1>1, <1>3, AppendIs
<1>5. /\ Pieces(parts) \in Seq(Streamable)
      /\ Pieces(Append(parts, p)) = Pieces(parts) \o (IF p.empty THEN <<>> ELSE <<p>>)
  BY <1>1, <1>3, KeptAppend
<1>6. CASE p.empty
  <2>1. Pieces(Append(parts, p)) = Pieces(parts)
    BY <1>5, <1>6, ConcatEmptySeq
  <2>2. BlocksFit(O, Append(parts, p), p.kind)
    BY <1>2, <1>4, <2>1 DEF BlocksFit
  <2> QED BY <1>6, <2>2 DEF O
<1>7. CASE ~p.empty
  <2> DEFINE b == [O[n] EXCEPT !.pieces = Append(@, p)]
             N == [O EXCEPT ![n].pieces = Append(@, p)]
  <2>1. n \in Nat \ {0} /\ n \in DOMAIN O /\ DOMAIN O = 1 .. n /\ O[n] \in StreamBlocks
    BY <1>2
  <2>2. /\ O[n].pieces \in Seq(Streamable) /\ Append(O[n].pieces, p) \in Seq(Streamable)
        /\ b = [kind |-> O[n].kind, pieces |-> Append(O[n].pieces, p)]
        /\ b \in StreamBlocks
    <3> HIDE DEF n
    <3>1. O[n] = [kind |-> O[n].kind, pieces |-> O[n].pieces]
          /\ O[n].kind \in {"text", "thinking", "tool_use"} /\ O[n].pieces \in Seq(Streamable)
      BY <2>1 DEF StreamBlocks
    <3>2. Append(O[n].pieces, p) \in Seq(Streamable)
      BY <1>1, <3>1, AppendIs
    <3>3. b = [kind |-> O[n].kind, pieces |-> Append(O[n].pieces, p)]
      <4>1. \A r \in StreamBlocks : [r EXCEPT !.pieces = Append(@, p)]
                                    = [kind |-> r.kind, pieces |-> Append(r.pieces, p)]
        BY DEF StreamBlocks
      <4> QED BY <2>1, <4>1
    <3>4. b \in StreamBlocks
      BY <3>1, <3>2, <3>3 DEF StreamBlocks
    <3> QED BY <3>1, <3>2, <3>3, <3>4
  <2>3. N = [O EXCEPT ![n] = b]
    OBVIOUS
  <2> HIDE DEF b, N
  <2>4. N \in Seq(StreamBlocks) /\ Len(N) = n /\ DOMAIN N = 1 .. n
        /\ \A i \in 1 .. n : N[i] = IF i = n THEN b ELSE O[i]
    BY <1>2, <2>1, <2>2, <2>3, ExceptSeq
  <2>5. b.kind = p.kind /\ b.kind # "tool_use" /\ b.pieces = Append(O[n].pieces, p)
        /\ \A k \in DOMAIN b.pieces : b.pieces[k].kind = b.kind
    <3>1. \A k \in DOMAIN O[n].pieces : O[n].pieces[k].kind = p.kind
      BY <1>2, <2>1 DEF OfTheirKind
    <3>2. \A k \in DOMAIN Append(O[n].pieces, p) :
            \/ Append(O[n].pieces, p)[k] = p
            \/ k \in DOMAIN O[n].pieces /\ Append(O[n].pieces, p)[k] = O[n].pieces[k]
      BY <1>1, <2>2
    <3>3. \A k \in DOMAIN Append(O[n].pieces, p) : Append(O[n].pieces, p)[k].kind = p.kind
      BY <3>1, <3>2
    <3>4. b.kind = p.kind /\ b.pieces = Append(O[n].pieces, p)
      BY <1>2, <2>2
    <3> QED BY <1>1, <3>3, <3>4
  <2>6. OfTheirKind(N) /\ \A i \in DOMAIN N : N[i].kind = "tool_use" => N[i].pieces # <<>>
    BY <1>2, <2>1, <2>4, <2>5 DEF OfTheirKind
  <2>7. FlattenSeq(PiecesOf(N)) = FlattenSeq(PiecesOf(O)) \o <<p>>
    <3>1. PiecesOf(O) \in Seq(Seq(Streamable)) /\ Len(PiecesOf(O)) = n
          /\ PiecesOf(O)[n] = O[n].pieces /\ PiecesOf(O) # <<>>
      <4>1. PiecesOf(O) \in Seq(Seq(Streamable)) /\ Len(PiecesOf(O)) = n
        BY <1>2, <2>2, PiecesOfAppend
      <4>2. PiecesOf(O)[n] = O[n].pieces
        BY <2>1 DEF PiecesOf
      <4> QED BY <2>1, <4>1, <4>2
    <3>2. PiecesOf(N) = [PiecesOf(O) EXCEPT ![n] = Append(@, p)]
      <4> HIDE DEF n
      <4>1. PiecesOf(N) = [i \in 1 .. n |-> N[i].pieces]
        BY <2>4 DEF PiecesOf
      <4>2. PiecesOf(O) = [i \in 1 .. n |-> O[i].pieces]
        BY <2>1 DEF PiecesOf
      <4>3. \A i \in 1 .. n : N[i].pieces = IF i = n THEN Append(O[n].pieces, p) ELSE O[i].pieces
        BY <2>4, <2>5
      <4>4. PiecesOf(O)[n] = O[n].pieces
        BY <2>1, <4>2
      <4> DEFINE q == Append(O[n].pieces, p)
      <4> HIDE DEF q
      <4>5. [PiecesOf(O) EXCEPT ![n] = q] = [i \in 1 .. n |-> IF i = n THEN q ELSE O[i].pieces]
        BY <4>2
      <4>6. PiecesOf(N) = [i \in 1 .. n |-> IF i = n THEN q ELSE O[i].pieces]
        BY <4>1, <4>3 DEF q
      <4> QED BY <4>4, <4>5, <4>6 DEF q
    <3> DEFINE ss == PiecesOf(O)
    <3> HIDE DEF ss
    <3>3. ss \in Seq(Seq(Streamable)) /\ ss # <<>> /\ Len(ss) = n
      BY <3>1 DEF ss
    <3>4. FlattenSeq([ss EXCEPT ![Len(ss)] = Append(@, p)]) = FlattenSeq(ss) \o <<p>>
      BY <1>1, <3>3, FlattenLast
    <3> QED BY <3>2, <3>3, <3>4 DEF ss
  <2>8. Pieces(Append(parts, p)) = Pieces(parts) \o <<p>>
    BY <1>5, <1>7
  <2>9. Len(N) <= Len(Append(parts, p)) /\ N # <<>> /\ N[Len(N)].kind = p.kind
    BY <1>2, <1>4, <2>1, <2>4, <2>5
  <2>10. BlocksFit(N, Append(parts, p), p.kind)
    BY <1>2, <1>4, <2>4, <2>6, <2>7, <2>8, <2>9 DEF BlocksFit
  <2> QED BY <1>7, <2>10 DEF O, N
<1> QED BY <1>6, <1>7

\* A sequence of blocks for every element, flattened, is a sequence of blocks.
LEMMA FlatMapTyped ==
  ASSUME NEW S, NEW n \in Nat, NEW f, f \in [1 .. n -> Seq(S)]
  PROVE  FlattenSeq(f) \in Seq(S)
<1>1. f \in Seq(Seq(S))
  OBVIOUS
<1> QED BY <1>1, FlattenSeqIs

LEMMA StoredTyped ==
  ASSUME NEW B, NEW parts, NEW kind, BlocksFit(B, parts, kind), Len(parts) <= MaxParts
  PROVE  Stored(B) \in Seq(BlockSet)
<1> DEFINE use(i) == ToolUse(i, Head(B[i].pieces).name, Head(B[i].pieces).signed)
           one(i) == CASE B[i].kind = "tool_use" -> <<use(i)>>
                       [] B[i].kind = "text" /\ B[i].pieces # <<>> -> <<TextBlock>>
                       [] OTHER -> <<>>
           n == Len(B)
<1>1. B \in Seq(StreamBlocks) /\ n \in Nat /\ DOMAIN B = 1 .. n /\ n <= MaxParts
      /\ MaxParts \in Nat
  BY GeminiAssumption DEF BlocksFit
<1>2. TextBlock \in BlockSet
  BY <1>1 DEF TextBlock, Block, BlockSet, NoTool
<1>3. ASSUME NEW i \in 1 .. n, B[i].kind = "tool_use" PROVE use(i) \in BlockSet
  <2>1. B[i].pieces \in Seq(Streamable) /\ B[i].pieces # <<>>
        /\ \A k \in DOMAIN B[i].pieces : B[i].pieces[k].kind = "tool_use"
    <3>1. B[i] \in StreamBlocks
      BY <1>1
    <3> QED BY <1>1, <1>3, <3>1 DEF BlocksFit, OfTheirKind, StreamBlocks
  <2>2. Head(B[i].pieces) \in Streamable /\ Head(B[i].pieces).kind = "tool_use"
    <3>1. Head(B[i].pieces) \in Streamable /\ Head(B[i].pieces) = B[i].pieces[1]
          /\ 1 \in DOMAIN B[i].pieces
      BY <2>1
    <3> QED BY <2>1, <3>1
  <2>3. Head(B[i].pieces) \in CallParts
    BY <2>2 DEF Streamable, TextParts, OtherPart
  <2>4. Head(B[i].pieces).name \in ToolNames /\ Head(B[i].pieces).signed \in BOOLEAN
    BY <2>3 DEF CallParts
  <2>5. i \in 0 .. MaxParts
    BY <1>1
  <2> QED BY <2>4, <2>5 DEF ToolUse, Block, BlockSet
<1> HIDE DEF use
<1>4. \A i \in 1 .. n : one(i) \in Seq(BlockSet)
  BY <1>2, <1>3
<1> HIDE DEF one
<1>5. [i \in DOMAIN B |-> one(i)] \in [1 .. n -> Seq(BlockSet)]
  BY <1>1, <1>4
<1>6. FlattenSeq([i \in DOMAIN B |-> one(i)]) \in Seq(BlockSet)
  BY <1>1, <1>5, FlatMapTyped
<1> QED BY <1>6 DEF Stored, one, use

LEMMA CallsTyped ==
  ASSUME NEW m \in Messages
  PROVE  CallsOf(m) \in Seq(BlockSet)
<1> DEFINE c == m.content
           one(j) == IF c[j].kind = "tool_use" THEN <<c[j]>> ELSE <<>>
<1>1. c \in Seq(BlockSet) /\ Len(c) \in Nat /\ DOMAIN c = 1 .. Len(c)
      /\ \A j \in 1 .. Len(c) : c[j] \in BlockSet
  BY DEF Messages
<1>2. \A j \in 1 .. Len(c) : one(j) \in Seq(BlockSet)
  BY <1>1
<1> HIDE DEF one, c
<1>3. [j \in DOMAIN c |-> one(j)] \in [1 .. Len(c) -> Seq(BlockSet)]
  BY <1>1, <1>2
<1>4. FlattenSeq([j \in DOMAIN c |-> one(j)]) \in Seq(BlockSet)
  BY <1>1, <1>3, FlatMapTyped
<1> QED BY <1>4 DEF CallsOf, one, c

LEMMA PairedBlocks ==
  /\ TextBlock \in BlockSet
  /\ \A n \in ToolNames : ToolUse(0, n, FALSE) \in BlockSet
  /\ \A i \in 0 .. MaxParts, v \in BOOLEAN : ToolResult(i, v) \in BlockSet
  /\ \A s \in Seq(BlockSet), r \in {"user", "assistant"} : Said(r, s) \in Messages
BY GeminiAssumption DEF TextBlock, ToolUse, ToolResult, Said, Messages, Block, BlockSet, NoTool

LEMMA NormalizeTyped ==
  ASSUME NEW h \in Seq(Messages)
  PROVE  Normalize(h) \in Seq(Messages)
<1> DEFINE plain(m) == [m EXCEPT !.content = [j \in DOMAIN @ |-> [@[j] EXCEPT !.bare = FALSE]]]
<1>1. ASSUME NEW m \in Messages PROVE plain(m) \in Messages
  <2> DEFINE c == [j \in DOMAIN m.content |-> [m.content[j] EXCEPT !.bare = FALSE]]
  <2>1. m.content \in Seq(BlockSet) /\ m.role \in {"user", "assistant"}
        /\ m = [role |-> m.role, content |-> m.content]
    BY DEF Messages
  <2>2. \A j \in DOMAIN m.content : [m.content[j] EXCEPT !.bare = FALSE] \in BlockSet
    <3>1. \A b \in BlockSet : [b EXCEPT !.bare = FALSE] \in BlockSet
      BY DEF BlockSet
    <3>2. \A j \in DOMAIN m.content : m.content[j] \in BlockSet
      BY <2>1
    <3> QED BY <3>1, <3>2
  <2>3. c \in Seq(BlockSet)
    <3>1. DOMAIN m.content = 1 .. Len(m.content) /\ Len(m.content) \in Nat
      BY <2>1
    <3> QED BY <2>2, <3>1
  <2>4. plain(m) = [role |-> m.role, content |-> c]
    <3>1. \A q \in Messages : \A d : [q EXCEPT !.content = d] = [role |-> q.role, content |-> d]
      BY DEF Messages
    <3>2. plain(m) = [m EXCEPT !.content = c]
      OBVIOUS
    <3> HIDE DEF c, plain
    <3> QED BY <3>1, <3>2
  <2> HIDE DEF c, plain
  <2> QED BY <2>1, <2>3, <2>4 DEF Messages
<1>2. DOMAIN h = 1 .. Len(h) /\ Len(h) \in Nat /\ \A i \in 1 .. Len(h) : h[i] \in Messages
  OBVIOUS
<1> HIDE DEF plain
<1>3. [i \in DOMAIN h |-> plain(h[i])] \in Seq(Messages)
  BY <1>1, <1>2
<1> QED BY <1>3 DEF Normalize, plain

LEMMA NothingFits == BlocksFit(<<>>, <<>>, NoKind)
<1>1. PiecesOf(<<>>) = <<>> /\ Pieces(<<>>) = <<>>
  BY FlattenSeqIs DEF PiecesOf, Pieces
<1> QED BY <1>1, FlattenSeqIs DEF BlocksFit, OfTheirKind

LEMMA GeminiInvInit == GeminiInit => GeminiInv
<1> SUFFICES ASSUME GeminiInit PROVE GeminiInv
  OBVIOUS
<1>1. talk \in Seq(Messages)
  <2>1. CASE talk = <<>>
    BY <2>1
  <2>2. ASSUME NEW n \in ToolNames, talk = Normalize(LegacyChat(n)) PROVE talk \in Seq(Messages)
    <3> DEFINE a == Said("user", <<TextBlock>>)
               b == Said("assistant", <<ToolUse(0, n, FALSE)>>)
               c == Said("user", <<ToolResult(0, TRUE)>>)
    <3>1. a \in Messages /\ b \in Messages /\ c \in Messages
      <4>1. 0 \in 0 .. MaxParts
        BY GeminiAssumption
      <4>2. <<TextBlock>> \in Seq(BlockSet) /\ <<ToolUse(0, n, FALSE)>> \in Seq(BlockSet)
            /\ <<ToolResult(0, TRUE)>> \in Seq(BlockSet)
        <5>1. \A e \in BlockSet : <<e>> \in Seq(BlockSet)
          OBVIOUS
        <5> QED BY <4>1, <5>1, PairedBlocks
      <4> QED BY <4>2, PairedBlocks
    <3> HIDE DEF a, b, c
    <3>2. <<a, b, c>> \in Seq(Messages)
      BY <3>1
    <3>3. LegacyChat(n) \in Seq(Messages)
      BY <3>2 DEF LegacyChat, a, b, c
    <3> QED BY <2>2, <3>3, NormalizeTyped
  <2> QED BY <2>1, <2>2 DEF GeminiInit
<1>2. BlocksFit(<<>>, <<>>, NoKind)
  BY NothingFits
<1>3. blocks = <<>> /\ streamed = <<>> /\ current_kind = NoKind /\ geminiAt = "idle"
  BY DEF GeminiInit
<1>4. Len(streamed) <= MaxParts
  BY <1>3, GeminiAssumption
<1> QED BY <1>1, <1>2, <1>3, <1>4 DEF GeminiInv

LEMMA AskKeeps ==
  ASSUME NEW h \in Seq(Messages), Ask(h)
  PROVE  GeminiInv'
<1>1. BlocksFit(<<>>, <<>>, NoKind)
  BY NothingFits
<1>2. blocks' = <<>> /\ streamed' = <<>> /\ current_kind' = NoKind /\ geminiAt' = "stream"
      /\ talk' = h
  BY DEF Ask
<1>3. Len(streamed') <= MaxParts
  BY <1>2, GeminiAssumption
<1>4. BlocksFit(blocks', streamed', current_kind')
  BY <1>1, <1>2
<1> QED BY <1>2, <1>3, <1>4 DEF GeminiInv

\* Every step keeps it.
LEMMA GeminiInvNext == GeminiInv /\ [GeminiNext]_geminiVars => GeminiInv'
<1> SUFFICES ASSUME GeminiInv, [GeminiNext]_geminiVars PROVE GeminiInv'
  OBVIOUS
<1>t. talk \in Seq(Messages) /\ BlocksFit(blocks, streamed, current_kind)
  BY DEF GeminiInv
<1>1. CASE PromptGemini
  <2>1. Said("user", <<TextBlock>>) \in Messages
    <3>1. \A e \in BlockSet : <<e>> \in Seq(BlockSet)
      OBVIOUS
    <3> QED BY <3>1, PairedBlocks
  <2>2. Append(talk, Said("user", <<TextBlock>>)) \in Seq(Messages)
    BY <1>t, <2>1, AppendIs
  <2> QED BY <1>1, <2>2, AskKeeps DEF PromptGemini
<1>2. ASSUME NEW p \in CallParts, HearCall(p) PROVE GeminiInv'
  <2>1. BlocksFit(blocks', streamed', current_kind')
    BY <1>2, <1>t, CallFits DEF HearCall, Hears
  <2>2. Len(streamed') <= MaxParts
    <3>1. streamed \in Seq(Streamable) /\ p \in Streamable
      BY <1>t DEF BlocksFit, Streamable
    <3>2. Len(streamed') = Len(streamed) + 1 /\ Len(streamed) < MaxParts /\ Len(streamed) \in Nat
      BY <1>2, <3>1, AppendIs DEF HearCall, Hears
    <3> QED BY <3>2, GeminiAssumption
  <2> QED BY <1>2, <2>1, <2>2 DEF HearCall, Hears, GeminiInv
<1>3. ASSUME NEW p \in TextParts, HearText(p) PROVE GeminiInv'
  <2>1. BlocksFit(blocks', streamed', current_kind')
    <3>1. LET O == OpenFor(blocks, current_kind, p.kind) IN
          blocks' = IF p.empty THEN O ELSE [O EXCEPT ![Len(O)].pieces = Append(@, p)]
      BY <1>3 DEF HearText, OpenFor
    <3>2. streamed' = Append(streamed, p) /\ current_kind' = p.kind
      BY <1>3 DEF HearText, Hears
    <3> QED BY <1>t, <3>1, <3>2, TextFits
  <2>2. Len(streamed') <= MaxParts
    <3>1. streamed \in Seq(Streamable) /\ p \in Streamable
      BY <1>t DEF BlocksFit, Streamable
    <3>2. Len(streamed') = Len(streamed) + 1 /\ Len(streamed) < MaxParts /\ Len(streamed) \in Nat
      BY <1>3, <3>1, AppendIs DEF HearText, Hears
    <3> QED BY <3>2, GeminiAssumption
  <2>3. p.kind \in {"text", "thinking"}
    BY DEF TextParts
  <2> QED BY <1>3, <2>1, <2>2, <2>3 DEF HearText, Hears, GeminiInv
<1>4. CASE SkipOther
  <2>1. streamed \in Seq(Streamable) /\ OtherPart \in Streamable /\ ~IsPiece(OtherPart)
    BY <1>t DEF BlocksFit, Streamable, IsPiece, OtherPart
  <2>2. /\ streamed' = Append(streamed, OtherPart) /\ Len(streamed) < MaxParts
        /\ UNCHANGED <<talk, geminiAt, current_kind, blocks>>
    BY <1>4 DEF SkipOther, Hears
  <2>3. streamed' \in Seq(Streamable) /\ Len(streamed') = Len(streamed) + 1 /\ Len(streamed) \in Nat
    BY <2>1, <2>2, AppendIs
  <2>4. Pieces(streamed') = Pieces(streamed)
    <3>1. Pieces(streamed) \in Seq(Streamable)
          /\ Pieces(Append(streamed, OtherPart)) = Pieces(streamed) \o <<>>
      BY <2>1, KeptAppend
    <3> QED BY <2>2, <3>1, ConcatEmptySeq
  <2>5. Len(streamed') <= MaxParts /\ Len(blocks) <= Len(streamed')
    <3>1. blocks \in Seq(StreamBlocks) /\ Len(blocks) <= Len(streamed)
      BY <1>t DEF BlocksFit
    <3>2. Len(blocks) \in Nat
      BY <3>1
    <3> QED BY <2>2, <2>3, <3>1, <3>2, GeminiAssumption
  <2>6. BlocksFit(blocks', streamed', current_kind')
    BY <1>t, <2>2, <2>3, <2>4, <2>5 DEF BlocksFit
  <2> QED BY <2>2, <2>5, <2>6 DEF GeminiInv
<1>5. CASE AnswerEnds
  <2>1. Stored(blocks) \in Seq(BlockSet)
    BY <1>t, StoredTyped DEF GeminiInv
  <2>2. Said("assistant", Stored(blocks)) \in Messages
    BY <2>1, PairedBlocks
  <2> DEFINE m == Said("assistant", Stored(blocks))
  <2> HIDE DEF m
  <2>3. m \in Messages /\ talk' = Append(talk, m)
    BY <1>5, <2>2 DEF AnswerEnds, m
  <2>4. talk' \in Seq(Messages) /\ talk' # <<>>
    BY <1>t, <2>3, AppendIs
  <2> QED BY <1>5, <2>4 DEF AnswerEnds, GeminiInv
<1>6. CASE SendResults
  <2> DEFINE cs == CallsOf(Last(talk))
             result(j) == ToolResult(cs[j].id, FALSE)
             results == [j \in DOMAIN cs |-> result(j)]
  <2>1. Last(talk) \in Messages
    <3>1. talk # <<>>
      BY <1>6 DEF SendResults, GeminiInv
    <3> QED BY <1>t, <3>1 DEF Last
  <2>2. cs \in Seq(BlockSet)
    BY <2>1, CallsTyped
  <2> HIDE DEF cs
  <2>3. results \in Seq(BlockSet)
    <3>1. DOMAIN cs = 1 .. Len(cs) /\ Len(cs) \in Nat
          /\ \A j \in 1 .. Len(cs) : cs[j] \in BlockSet
      BY <2>2
    <3>2. \A e \in BlockSet : e.id \in 0 .. MaxParts
      BY DEF BlockSet
    <3>3. \A j \in 1 .. Len(cs) : result(j) \in BlockSet
      BY <3>1, <3>2, PairedBlocks
    <3> HIDE DEF result
    <3> QED BY <3>1, <3>3
  <2>4. Said("user", results) \in Messages
    <3> HIDE DEF results
    <3> QED BY <2>3, PairedBlocks
  <2> DEFINE m == Said("user", results)
  <2>5. Ask(Append(talk, m))
    BY <1>6 DEF SendResults, cs
  <2> HIDE DEF m
  <2>6. Append(talk, m) \in Seq(Messages)
    BY <1>t, <2>4, AppendIs DEF m
  <2> QED BY <2>5, <2>6, AskKeeps
<1>7. CASE UNCHANGED geminiVars
  BY <1>7 DEF geminiVars, GeminiInv
<1> QED BY <1>1, <1>2, <1>3, <1>4, <1>5, <1>6, <1>7 DEF GeminiNext

\* Whatever parts an answer has, in whatever order, and however many: the blocks hold every
\* piece that was streamed, once, in order and in a block of its kind.
THEOREM BlocksFollow == GeminiSpec => []BlocksFollowParts
<1>1. GeminiInv => BlocksFollowParts
  BY DEF GeminiInv, BlocksFit, BlocksFollowParts, OfTheirKind, PiecesOf
<1> QED
  BY GeminiInvInit, GeminiInvNext, <1>1, PTL DEF GeminiSpec

-----------------------------------------------------------------------------
(* Types: what the arguments above need of them is not all that TypeOK     *)
(* says.  First those of permissions.                                      *)

LEMMA PermissionTypeInit == PermissionInit => PermissionTypeOK
<1> SUFFICES ASSUME PermissionInit PROVE PermissionTypeOK
  OBVIOUS
<1>1. <<>> \in Seq(Prompts \cup Responses) /\ Len(<<>>) = 0
      /\ <<>> \in Seq([id : Requests, kind : Kinds]) /\ <<>> \in Seq(Given)
  OBVIOUS
<1>2. given = [r \in Requests |-> <<>>] /\ commands = <<>> /\ stdout = <<>>
  BY DEF PermissionInit
<1>3. given \in [Requests -> Seq(Given)]
  BY <1>1, <1>2
<1> QED
  BY <1>1, <1>2, <1>3, PermissionAssumption DEF PermissionInit, PermissionTypeOK

LEMMA EnqueueTyped ==
  ASSUME PermissionTypeOK, NEW cmd \in Prompts \cup Responses, Enqueue(cmd)
  PROVE  commands' \in Seq(Prompts \cup Responses) /\ Len(commands') <= ChannelCap
<1>1. commands \in Seq(Prompts \cup Responses) /\ Len(commands) < ChannelCap
      /\ commands' = Append(commands, cmd) /\ Len(commands) \in Nat
  BY DEF PermissionTypeOK, Enqueue
<1>2. commands' \in Seq(Prompts \cup Responses) /\ Len(commands') = Len(commands) + 1
  BY <1>1, AppendEntries
<1> QED
  BY <1>1, <1>2, PermissionAssumption

LEMMA AnswerTyped ==
  ASSUME PermissionTypeOK, NEW r \in Requests, NEW what \in Given, Answer(r, what)
  PROVE  given' \in [Requests -> Seq(Given)]
<1>1. given \in [Requests -> Seq(Given)] /\ given' = [given EXCEPT ![r] = Append(given[r], what)]
  BY DEF PermissionTypeOK, Answer
<1>2. Append(given[r], what) \in Seq(Given)
  BY <1>1, AppendEntries
<1> QED
  BY <1>1, <1>2

LEMMA PermissionTypeNext == PermissionTypeOK /\ [PermissionNext]_permissionVars => PermissionTypeOK'
<1> SUFFICES ASSUME PermissionTypeOK, [PermissionNext]_permissionVars
             PROVE  PermissionTypeOK'
  OBVIOUS
<1> DEFINE L == [id : Requests, kind : Kinds]
<1>t. /\ commands \in Seq(Prompts \cup Responses) /\ stdout \in Seq(L)
      /\ Len(commands) <= ChannelCap /\ ChannelCap \in Nat
  BY PermissionAssumption DEF PermissionTypeOK
<1>h. stdout # <<>> => /\ Tail(stdout) \in Seq(L) /\ Head(stdout).id \in Requests
  <2>1. stdout # <<>> => Tail(stdout) \in Seq(L) /\ Head(stdout) \in L
    BY <1>t, TailEntries
  <2>2. \A l \in L : l.id \in Requests
    OBVIOUS
  <2> QED BY <2>1, <2>2
<1>c. commands # <<>> => /\ Tail(commands) \in Seq(Prompts \cup Responses)
                         /\ Len(Tail(commands)) <= ChannelCap
                         /\ Head(commands) \in Prompts \cup Responses
  BY <1>t, TailEntries
<1>1. ASSUME NEW caps \in SUBSET Groups, PromptWithCaps(caps) PROVE PermissionTypeOK'
  <2>1. [type |-> "user", caps |-> caps] \in Prompts \cup Responses
    BY DEF Prompts
  <2> QED BY <1>1, <2>1, EnqueueTyped DEF PromptWithCaps, PermissionTypeOK
<1>2. ASSUME NEW v \in Answerers, NEW r \in Requests, NEW reply \in Replies, Vote(v, r, reply)
      PROVE  PermissionTypeOK'
  <2>1. [type |-> "response", id |-> r, reply |-> reply] \in Prompts \cup Responses
    BY DEF Responses
  <2> QED BY <1>2, <2>1, EnqueueTyped DEF Vote, PermissionTypeOK
<1>3. ASSUME NEW r \in Requests, NEW kind \in Kinds, ChildAsks(r, kind) PROVE PermissionTypeOK'
  <2>1. [id |-> r, kind |-> kind] \in L
    OBVIOUS
  <2>2. stdout' \in Seq(L)
    BY <1>3, <1>t, <2>1, AppendEntries DEF ChildAsks
  <2> QED BY <1>3, <2>2 DEF ChildAsks, PermissionTypeOK
<1>4. CASE TakePrompt
  <2>1. Head(commands).caps \in SUBSET Groups
    BY <1>4, <1>c DEF TakePrompt, Prompts, Responses
  <2> QED BY <1>4, <1>c, <2>1 DEF TakePrompt, PermissionTypeOK
<1>5. CASE TakeResponse
  <2> DEFINE cmd == Head(commands)
  <2>1. cmd \in Responses
    BY <1>5, <1>c DEF TakeResponse, Prompts
  <2>2. cmd.id \in Requests /\ Told(cmd) \in Given
    BY <2>1 DEF Responses, Replies, Given, Told
  <2>3. /\ commands # <<>> /\ commands' = Tail(commands) /\ pending' = pending \ {cmd.id}
        /\ Answer(cmd.id, Told(cmd)) /\ CloseCard(cmd.id, cmd.reply)
        /\ UNCHANGED <<currentCaps, stdout, voted, serving>>
    BY <1>5 DEF TakeResponse
  <2> HIDE DEF cmd
  <2>4. given' \in [Requests -> Seq(Given)]
    BY <2>2, <2>3, AnswerTyped
  <2> QED BY <1>c, <2>2, <2>3, <2>4 DEF CloseCard, PermissionTypeOK
<1>6. CASE AutoApprove
  <2>1. given' \in [Requests -> Seq(Given)]
    BY <1>6, <1>h, AnswerTyped DEF AutoApprove, Given
  <2> QED BY <1>6, <1>h, <2>1 DEF AutoApprove, PermissionTypeOK
<1>7. CASE AskViewers
  BY <1>7, <1>h DEF AskViewers, PermissionTypeOK
<1>8. CASE ServingEnds
  <2>1. <<>> \in Seq(Prompts \cup Responses) /\ Len(<<>>) <= ChannelCap /\ <<>> \in Seq(L)
    BY <1>t
  <2> QED BY <1>8, <2>1 DEF ServingEnds, PermissionTypeOK
<1>9. CASE SendToClosed \/ UNCHANGED permissionVars
  BY <1>9 DEF SendToClosed, permissionVars, PermissionTypeOK
<1> QED
  BY <1>1, <1>2, <1>3, <1>4, <1>5, <1>6, <1>7, <1>8, <1>9 DEF PermissionNext

-----------------------------------------------------------------------------
(* The guest's types.                                                      *)

\* No more answers are missed than are allowed, and fewer while a drain waits.
MissesAreFew ==
  /\ vm \in {"off", "booting", "up", "halting"} /\ guestDrained \in BOOLEAN
  /\ \A a \in Admins : /\ misses[a] <= MaxUnreachable
                       /\ doing[a] = "wait" => misses[a] < MaxUnreachable

\* A keeper's prompts are accepted before they are taken, and taken before they are done.
PromptsInOrder ==
  /\ prompted \in [GuestKeepers -> 0 .. MaxAsked]
  /\ begun \in [GuestKeepers -> 0 .. MaxAsked]
  /\ answered \in [GuestKeepers -> 0 .. MaxAsked]
  /\ \A k \in GuestKeepers : begun[k] <= prompted[k] /\ answered[k] <= begun[k]
GuestTypes == DrainInv /\ MissesAreFew /\ PromptsInOrder

LEMMA PromptsInOrderNext == PromptsInOrder /\ [GuestNext]_guestVars => PromptsInOrder'
<1> SUFFICES ASSUME PromptsInOrder, [GuestNext]_guestVars PROVE PromptsInOrder'
  OBVIOUS
<1> USE DEF serverVars, keeperVars
<1>n. MaxAsked \in Nat
  BY GuestAssumption
<1>0. ASSUME UNCHANGED <<prompted, begun, answered>> PROVE PromptsInOrder'
  BY <1>0 DEF PromptsInOrder
<1>1. ASSUME NEW k \in GuestKeepers, GuestAccepts(k) PROVE PromptsInOrder'
  BY <1>n, <1>1 DEF GuestAccepts, PromptsInOrder
<1>2. ASSUME NEW k \in GuestKeepers, GuestBegins(k) PROVE PromptsInOrder'
  <2>1. begun[k] < prompted[k] /\ begun' = [begun EXCEPT ![k] = @ + 1] /\ UNCHANGED <<prompted, answered>>
    BY <1>2 DEF GuestBegins
  <2> QED BY <1>n, <2>1 DEF PromptsInOrder
<1>3. ASSUME NEW k \in GuestKeepers, GuestResult(k) PROVE PromptsInOrder'
  <2>1. answered[k] < begun[k] /\ answered' = [answered EXCEPT ![k] = @ + 1] /\ UNCHANGED <<prompted, begun>>
    BY <1>3 DEF GuestResult
  <2> QED BY <1>n, <2>1 DEF PromptsInOrder
<1>4. ASSUME NEW k \in GuestKeepers, GuestLeaves(k) PROVE PromptsInOrder'
  <2>1. /\ prompted' = [prompted EXCEPT ![k] = MaxAsked] /\ begun' = [begun EXCEPT ![k] = MaxAsked]
        /\ answered' = [answered EXCEPT ![k] = MaxAsked]
    BY <1>4 DEF GuestLeaves
  <2> QED BY <1>n, <2>1 DEF PromptsInOrder
<1>5. CASE World
  <2>1. UNCHANGED serverVars
        \/ \E k \in GuestKeepers : GuestAccepts(k) \/ GuestBegins(k) \/ GuestResult(k) \/ GuestLeaves(k)
    BY <1>5 DEF World
  <2> QED BY <1>0, <1>1, <1>2, <1>3, <1>4, <2>1
<1>6. ASSUME NEW a \in Admins,
             \/ RestoreClean(a) \/ SshReady(a) \/ SeesItOff(a) \/ SshNotReady(a) \/ SeesItOn(a)
             \/ StartHeadless(a) \/ StopVm(a) \/ PullPlug(a) \/ EndDrain(a) \/ PollZero(a)
             \/ BeginDrain(a) \/ PollBusy(a) \/ PollLost(a) \/ StopAppAndVm(a)
      PROVE  PromptsInOrder'
  BY <1>0, <1>6 DEF RestoreClean, SshReady, SeesItOff, SshNotReady, SeesItOn, StartHeadless, StopVm,
    PullPlug, EndDrain, PollZero, BeginDrain, PollBusy, PollLost, StopAppAndVm
<1>7. CASE UNCHANGED guestVars \/ \E a \in Admins : RestoreFails(a)
  BY <1>0, <1>7 DEF guestVars, RestoreFails
<1> QED
  BY <1>5, <1>6, <1>7 DEF GuestNext

LEMMA GuestTypesInit == GuestInit => GuestTypes
<1> SUFFICES ASSUME GuestInit PROVE MissesAreFew /\ PromptsInOrder
  BY DrainInvInit DEF GuestTypes
<1>4. PromptsInOrder
  <2>1. MaxAsked \in Nat
    BY GuestAssumption
  <2>2. /\ prompted = [k \in GuestKeepers |-> 0] /\ begun = [k \in GuestKeepers |-> 0]
        /\ answered = [k \in GuestKeepers |-> 0]
    BY DEF GuestInit
  <2> QED BY <2>1, <2>2 DEF PromptsInOrder
<1>1. MaxUnreachable \in Nat /\ MaxUnreachable > 0
  BY GuestAssumption
<1>2. \A a \in Admins : misses[a] = 0 /\ doing[a] = "idle"
  BY DEF GuestInit
<1>3. vm \in {"off", "booting", "up", "halting"} /\ guestDrained \in BOOLEAN
  BY Zenon DEF GuestInit
<1> QED
  BY <1>1, <1>2, <1>3, <1>4 DEF MissesAreFew

LEMMA GuestTypesNext == GuestTypes /\ [GuestNext]_guestVars => GuestTypes'
<1> SUFFICES ASSUME GuestTypes, [GuestNext]_guestVars PROVE MissesAreFew'
  BY DrainInvNext, PromptsInOrderNext DEF GuestTypes
<1>t. /\ MaxUnreachable \in Nat /\ MaxUnreachable > 0
      /\ misses \in [Admins -> Nat] /\ DOMAIN doing = Admins
  BY GuestAssumption DEF GuestTypes, DrainInv, DrainTypes
<1>m. MissesAreFew
  BY DEF GuestTypes
\* Steps that leave the misses alone, and do not begin to wait.
<1>1. ASSUME NEW a \in Admins, NEW to, to # "wait", UNCHANGED misses,
             doing' = [doing EXCEPT ![a] = to] \/ UNCHANGED doing,
             vm' \in {"off", "booting", "up", "halting"}, guestDrained' \in BOOLEAN
      PROVE  MissesAreFew'
  BY <1>1, <1>t, <1>m DEF MissesAreFew
<1>2. ASSUME NEW a \in Admins,
             \/ RestoreClean(a) \/ SshReady(a) \/ SeesItOff(a) \/ SshNotReady(a) \/ SeesItOn(a)
             \/ StartHeadless(a) \/ StopVm(a) \/ PullPlug(a) \/ EndDrain(a) \/ PollZero(a)
      PROVE  MissesAreFew'
  <2>1. UNCHANGED misses /\ vm' \in {"off", "booting", "up", "halting"} /\ guestDrained' \in BOOLEAN
    BY <1>2, <1>m DEF RestoreClean, SshReady, SeesItOff, SshNotReady, SeesItOn, StartHeadless,
                      StopVm, PullPlug, EndDrain, PollZero, PressPower, serverVars, MissesAreFew
  <2>2. \/ UNCHANGED doing
        \/ \E to \in {"idle", "boot", "ssh", "undrain", "halt", "plug", "app"} :
             doing' = [doing EXCEPT ![a] = to]
    BY <1>2 DEF RestoreClean, SshReady, SeesItOff, SshNotReady, SeesItOn, StartHeadless,
                StopVm, PullPlug, EndDrain, PollZero, Goto, Again
  <2> QED BY <1>1, <2>1, <2>2
<1>3. ASSUME NEW a \in Admins, BeginDrain(a) \/ PollBusy(a) \/ StopAppAndVm(a)
      PROVE  MissesAreFew'
  <2>1. misses' = [misses EXCEPT ![a] = 0]
        /\ vm' \in {"off", "booting", "up", "halting"} /\ guestDrained' \in BOOLEAN
    BY <1>3, <1>m DEF BeginDrain, PollBusy, StopAppAndVm, PressPower, serverVars, MissesAreFew
  <2>2. \A b \in Admins \ {a} : doing'[b] = doing[b]
    BY <1>3, <1>t DEF BeginDrain, PollBusy, StopAppAndVm, PollAgain, Again, Goto
  <2> QED BY <1>t, <1>m, <2>1, <2>2 DEF MissesAreFew
<1>4. ASSUME NEW a \in Admins, PollLost(a)
      PROVE  MissesAreFew'
  <2>1. misses' = [misses EXCEPT ![a] = @ + 1] /\ misses[a] < MaxUnreachable
        /\ UNCHANGED <<vm, guestDrained>>
    BY <1>4, <1>m DEF PollLost, serverVars, MissesAreFew
  <2>2. /\ \A b \in Admins \ {a} : doing'[b] = doing[b]
        /\ misses[a] + 1 >= MaxUnreachable => doing'[a] = "app"
    BY <1>4, <1>t DEF PollLost, PollAgain, Again, Goto
  <2>3. \A b \in Admins : misses'[b] = IF b = a THEN misses[a] + 1 ELSE misses[b]
    BY <1>t, <2>1
  <2>4. misses[a] \in Nat /\ misses[a] + 1 <= MaxUnreachable
    BY <1>t, <2>1
  <2> QED BY <1>t, <1>m, <2>1, <2>2, <2>3, <2>4 DEF MissesAreFew
<1>5. CASE World
  <2>1. UNCHANGED <<doing, misses, guestDrained>> /\ vm' \in {"off", "booting", "up", "halting"}
    BY <1>5, <1>m DEF World, VmBoots, VmHalts, serverVars, MissesAreFew
  <2> QED BY <1>m, <2>1 DEF MissesAreFew
<1>6. CASE UNCHANGED guestVars
  BY <1>m, <1>6 DEF guestVars, serverVars, MissesAreFew
<1>7. ASSUME NEW a \in Admins, RestoreFails(a) PROVE MissesAreFew'
  BY <1>6, <1>7 DEF RestoreFails
<1> QED
  BY <1>2, <1>3, <1>4, <1>5, <1>6, <1>7 DEF GuestNext

LEMMA GuestTyped == GuestTypes => GuestTypeOK
BY GuestAssumption
   DEF GuestTypes, DrainInv, DrainTypes, GuestSteps, MissesAreFew, PromptsInOrder, GuestTypeOK

-----------------------------------------------------------------------------
(* The shell's types.                                                      *)

\* What the streams hold is bounded by what was written.
WrittenIsBounded == wholeTree \in BOOLEAN /\ \A s \in Streams : written[s] <= MaxWritten
ShellTypes == HeardInv /\ answer \in {"none", "output", "timed out"} /\ WrittenIsBounded

LEMMA ShellTypesInit == ShellInit => ShellTypes
<1> SUFFICES ASSUME ShellInit PROVE answer = "none" /\ WrittenIsBounded
  BY HeardInvInit DEF ShellTypes
<1>1. \A s \in Streams : written[s] = 0
  BY DEF ShellInit
<1> QED
  BY <1>1, ShellAssumption DEF ShellInit, WrittenIsBounded

LEMMA ShellTypesNext == ShellTypes /\ [ShellNext]_shellVars => ShellTypes'
<1> SUFFICES ASSUME ShellTypes, [ShellNext]_shellVars
             PROVE  answer' \in {"none", "output", "timed out"} /\ WrittenIsBounded'
  BY HeardInvNext DEF ShellTypes
<1>t. written \in [Streams -> Nat] /\ MaxWritten \in Nat
      /\ answer \in {"none", "output", "timed out"} /\ WrittenIsBounded
  BY ShellAssumption DEF ShellTypes, HeardInv, HeardTypes
<1>1. ASSUME NEW s \in Streams, CommandWrites(s)
      PROVE  UNCHANGED answer /\ WrittenIsBounded'
  <2>1. /\ written' = [written EXCEPT ![s] = @ + 1] /\ written[s] < MaxWritten
        /\ UNCHANGED <<wholeTree, answer>>
    BY <1>1 DEF CommandWrites
  <2>2. \A r \in Streams : written'[r] = IF r = s THEN written[s] + 1 ELSE written[r]
    BY <1>t, <2>1
  <2>3. written[s] + 1 <= MaxWritten
    <3>1. written[s] \in Nat /\ MaxWritten \in Nat
      BY <1>t
    <3> QED BY <2>1, <3>1
  <2> QED BY <1>t, <2>1, <2>2, <2>3 DEF WrittenIsBounded
<1>2. CASE UNCHANGED <<wholeTree, written>>
           /\ answer' \in {"none", "output", "timed out"}
  BY <1>t, <1>2 DEF WrittenIsBounded
<1>3. CASE \/ CommandForks \/ ShellExits \/ BackgroundExits \/ BashReturns \/ BashTimesOut
           \/ (\E s \in Streams : \E n \in 1 .. ShellPipe : ReadChunk(s, n))
           \/ (\E s \in Streams : ReadEnd(s)) \/ UNCHANGED shellVars
  <2>1. UNCHANGED <<wholeTree, written>> /\ answer' \in {answer, "output", "timed out"}
    BY <1>3, Zenon DEF CommandForks, ShellExits, BackgroundExits, BashReturns, BashTimesOut,
                       ReadChunk, ReadEnd, shellVars
  <2> QED BY <1>t, <1>2, <2>1
<1> QED
  BY <1>t, <1>1, <1>3 DEF ShellNext

LEMMA ShellTyped == ShellTypes => ShellTypeOK
<1> SUFFICES ASSUME ShellTypes PROVE ShellTypeOK
  OBVIOUS
<1>t. HeardTypes /\ KeepsBeginning /\ WrittenIsBounded
  BY DEF ShellTypes, HeardInv
<1>1. ASSUME NEW s \in Streams
      PROVE  written[s] \in 0 .. MaxWritten /\ inPipe[s] \in 0 .. MaxWritten
             /\ kept[s] \in 0 .. MaxWritten
  <2>1. /\ written[s] \in Nat /\ inPipe[s] \in Nat /\ kept[s] \in Nat
        /\ written[s] <= MaxWritten /\ inPipe[s] <= written[s]
        /\ kept[s] = Least(written[s] - inPipe[s], MaxOutput)
        /\ MaxWritten \in Nat /\ MaxOutput \in Nat
    BY <1>t, ShellAssumption DEF HeardTypes, KeepsBeginning, ReadSoFar, WrittenIsBounded
  <2> QED BY <2>1 DEF Least
<1>2. {written, inPipe, kept} \subseteq [Streams -> 0 .. MaxWritten]
  BY <1>t, <1>1 DEF HeardTypes
<1> QED
  BY <1>t, <1>2 DEF ShellTypes, HeardTypes, WrittenIsBounded, ShellTypeOK

-----------------------------------------------------------------------------
(* The seats' types.                                                       *)

\* Logins and cookies are of codes, and the clock stays within the run.
SeatsAreOfCodes ==
  /\ now <= LastSecond /\ withdrawn \subseteq Codes /\ vmRuns \in BOOLEAN /\ astray \in BOOLEAN
  /\ undone \in BOOLEAN
  /\ \A g \in Browsers : cookie[g] = Absent \/ cookie[g] \in Seated
  /\ \A g \in Browsers : entering[g] = Absent \/ entering[g] \in Entering
SeatsTypes == SeatInv /\ SeatsAreOfCodes

LEMMA SeatsTypesInit == SeatsInit => SeatsTypes
<1> SUFFICES ASSUME SeatsInit PROVE SeatsAreOfCodes
  BY SeatInvInit DEF SeatsTypes
<1>1. now <= LastSecond
  BY SeatsAssumption DEF SeatsInit
<1>2. vmRuns \in BOOLEAN /\ astray \in BOOLEAN /\ undone \in BOOLEAN /\ withdrawn \subseteq Codes
  BY Zenon DEF SeatsInit
<1>3. \A g \in Browsers : cookie[g] = Absent /\ entering[g] = Absent
  BY DEF SeatsInit
<1> QED
  BY <1>1, <1>2, <1>3 DEF SeatsAreOfCodes

LEMMA SeatsTypesNext == SeatsTypes /\ [SeatsNext]_seatVars => SeatsTypes'
<1> SUFFICES ASSUME SeatsTypes, [SeatsNext]_seatVars PROVE SeatsAreOfCodes'
  BY SeatInvNext DEF SeatsTypes
<1>t. /\ now \in Nat /\ lastsTo \in [Codes -> Nat] /\ hostCodes \subseteq Codes
      /\ vmCodes \subseteq Codes /\ edit \in [Editors -> Edits] /\ DOMAIN entering = Browsers /\ DOMAIN cookie = Browsers
  BY DEF SeatsTypes, SeatInv, SeatTypes
<1>m. SeatsAreOfCodes
  BY DEF SeatsTypes
\* Steps that leave the clock, the logins and the cookies alone.
<1>1. ASSUME UNCHANGED <<now, entering, cookie>>, withdrawn' \subseteq Codes,
             vmRuns' \in BOOLEAN, astray' \in BOOLEAN, undone' \in BOOLEAN
      PROVE  SeatsAreOfCodes'
  BY <1>1, <1>m DEF SeatsAreOfCodes
<1>b. vmRuns \in BOOLEAN /\ astray \in BOOLEAN /\ undone \in BOOLEAN /\ withdrawn \subseteq Codes
  BY <1>m DEF SeatsAreOfCodes
<1>2. ASSUME NEW e \in Editors, NEW k \in Codes, NEW life \in Lives,
             NEW by \in {"route", "command"}, MintCode(e, k, life, by)
      PROVE  SeatsAreOfCodes'
  <2>1. UNCHANGED <<now, entering, cookie, withdrawn, vmRuns, astray>>
        /\ undone' = (undone \/ hostCodes' \cap withdrawn' # {})
    BY <1>2, Zenon DEF MintCode, SaveStore, loginVars
  <2>2. undone' \in BOOLEAN
    BY <2>1
  <2> QED BY <1>1, <1>b, <2>1, <2>2
<1>3. ASSUME NEW e \in Editors, NEW k \in Codes,
             NEW by \in {"route", "command"}, RevokeCode(e, k, by)
      PROVE  SeatsAreOfCodes'
  <2>1. UNCHANGED <<now, entering, cookie, vmRuns>>
        /\ withdrawn' = withdrawn \cup ({k} \cap edit[e].codes)
        /\ undone' = (undone \/ hostCodes' \cap withdrawn' # {})
        /\ astray' = (astray \/ (by = "command" /\ k \in edit[e].codes))
    BY <1>3, Zenon DEF RevokeCode, SaveStore, loginVars
  <2>2. undone' \in BOOLEAN /\ astray' \in BOOLEAN
    BY <2>1
  <2>3. withdrawn' \subseteq Codes
    BY <1>b, <2>1
  <2> QED BY <1>1, <1>b, <2>1, <2>2, <2>3
<1>4. ASSUME NEW e \in Editors, ReadStore(e) \/ CopyStore(e) \/ PushArrives(e) \/ VmStarts(e)
      PROVE  SeatsAreOfCodes'
  <2>1. UNCHANGED <<now, entering, cookie, withdrawn, undone>>
        /\ (vmRuns' = vmRuns \/ vmRuns' = TRUE)
        /\ (astray' = astray \/ astray' = TRUE \/ astray' = \E f \in Editors : edit[f].at = "push")
    BY <1>4, Zenon DEF ReadStore, CopyStore, PushArrives, VmStarts, ownerVars, loginVars
  <2>2. vmRuns' \in BOOLEAN /\ astray' \in BOOLEAN
    BY <1>b, <2>1, Zenon
  <2> QED BY <1>1, <1>b, <2>1, <2>2
<1>5. CASE VmStops
  <2>1. UNCHANGED <<now, entering, cookie, withdrawn, undone, astray>> /\ vmRuns' = FALSE
    BY <1>5, Zenon DEF VmStops, ownerVars, loginVars
  <2> QED BY <1>1, <1>b, <2>1
<1>6. ASSUME NEW g \in Browsers, NEW k \in Codes, VerifyCode(g, k)
      PROVE  SeatsAreOfCodes'
  <2> DEFINE ttl == lastsTo[k] - now
             old == CopyIsOld
             out == k \in withdrawn
             e == [code |-> k, ttl |-> ttl, at |-> now, stale |-> old, revoked |-> out]
  <2>1. /\ k \in vmCodes /\ lastsTo[k] > now /\ entering' = [entering EXCEPT ![g] = e]
        /\ UNCHANGED <<now, withdrawn, undone, vmRuns, astray, cookie>>
    BY <1>6, Zenon DEF VerifyCode, ownerVars, vmVars
  <2>2. ttl \in Nat
    <3>1. lastsTo[k] \in Nat
      BY <1>t
    <3> QED BY <1>t, <2>1, <3>1
  <2>3. old \in BOOLEAN /\ out \in BOOLEAN
    BY DEF CopyIsOld
  <2> HIDE DEF ttl, old, out
  <2>4. e \in Entering
    BY <1>t, <2>2, <2>3 DEF Entering
  <2> HIDE DEF e
  <2>5. \A h \in Browsers : entering'[h] = IF h = g THEN e ELSE entering[h]
    BY <1>t, <2>1
  <2> QED BY <1>m, <2>1, <2>4, <2>5 DEF SeatsAreOfCodes
<1>7. ASSUME NEW g \in Browsers, GrantSeat(g)
      PROVE  SeatsAreOfCodes'
  <2> DEFINE e == entering[g]
             seat == [code |-> e.code, exp |-> now + e.ttl, stale |-> e.stale, revoked |-> e.revoked]
  <2>1. /\ e # Absent /\ cookie' = [cookie EXCEPT ![g] = seat]
        /\ entering' = [entering EXCEPT ![g] = Absent]
        /\ UNCHANGED <<now, withdrawn, undone, vmRuns, astray>>
    BY <1>7 DEF GrantSeat, SeatExpiry, ownerVars, vmVars
  <2>2. e \in Entering
    BY <1>m, <2>1 DEF SeatsAreOfCodes
  <2> HIDE DEF e
  <2>3. e.code \in Codes /\ e.ttl \in Nat /\ e.stale \in BOOLEAN /\ e.revoked \in BOOLEAN
    BY <2>2 DEF Entering
  <2>4. now + e.ttl \in Nat
    BY <1>t, <2>3
  <2>5. seat \in Seated
    BY <2>3, <2>4 DEF Seated
  <2> HIDE DEF seat
  <2>6. \A h \in Browsers : /\ cookie'[h] = IF h = g THEN seat ELSE cookie[h]
                            /\ entering'[h] = IF h = g THEN Absent ELSE entering[h]
    BY <1>t, <2>1
  <2> QED BY <1>m, <2>1, <2>5, <2>6 DEF SeatsAreOfCodes
<1>8. CASE SecondPasses
  <2>1. now' <= LastSecond
    BY <1>8, <1>t, SeatsAssumption DEF SecondPasses
  <2>2. UNCHANGED <<withdrawn, undone, vmRuns, astray, entering, cookie>>
    BY <1>8 DEF SecondPasses, ownerVars, vmVars
  <2> QED BY <1>m, <2>1, <2>2 DEF SeatsAreOfCodes
<1>9. CASE UNCHANGED seatVars
  BY <1>9, <1>m DEF seatVars, SeatsAreOfCodes
<1>10. ASSUME NEW g \in Browsers, NEW k \in Codes, InvalidCode(g, k) PROVE SeatsAreOfCodes'
  BY <1>9, <1>10 DEF InvalidCode
<1> QED
  BY <1>2, <1>3, <1>4, <1>5, <1>6, <1>7, <1>8, <1>9, <1>10 DEF SeatsNext

LEMMA SeatsTyped == SeatsTypes => SeatsTypeOK
<1> SUFFICES ASSUME SeatsTypes PROVE SeatsTypeOK
  OBVIOUS
<1>1. SeatTypes /\ SeatsAreOfCodes
  BY DEF SeatsTypes, SeatInv
<1>2. now \in 1 .. LastSecond
  BY <1>1, SeatsAssumption DEF SeatTypes, SeatsAreOfCodes
<1>3. {vmRuns, astray, undone} \subseteq BOOLEAN
  BY <1>1, Zenon DEF SeatsAreOfCodes
<1> QED
  BY <1>1, <1>2, <1>3 DEF Edits, SeatTypes, SeatsAreOfCodes, SeatsTypeOK

-----------------------------------------------------------------------------
(* The limits' types.                                                      *)
Ticks == 0 .. LastTick

\* What is kept of a sequence of readings are readings.
LEMMA TrimTyped ==
  ASSUME NEW h \in Seq(Ticks), NEW reading, NEW window
  PROVE  Trim(h, reading, window) \in Seq(Ticks)
<1> DEFINE live == {i \in 1 .. Len(h) : reading - h[i] <= window}
           first == CHOOSE i \in live : \A j \in live : i <= j
<1>1. CASE live = {}
  BY <1>1 DEF Trim
<1>2. CASE live # {}
  <2>1. first \in live
    <3>1. live \subseteq Nat
      OBVIOUS
    <3> HIDE DEF live
    <3>2. \E i \in live : \A j \in live : i <= j
      BY <1>2, <3>1, LeastOf
    <3> QED BY <3>2
  <2>2. first \in 1 .. Len(h)
    BY <2>1
  <2>3. Trim(h, reading, window) = SubSeq(h, first, Len(h))
    BY <1>2 DEF Trim
  <2> HIDE DEF first, live
  <2> QED BY <2>2, <2>3
<1> QED BY <1>1, <1>2

LEMMA CountTyped ==
  ASSUME LimitsTypeOK, NEW b \in Buckets, NEW h \in [Buckets -> Seq(Ticks)],
         NEW reading \in Ticks, Count(b, h, reading)
  PROVE  hits' \in [Buckets -> Seq(Ticks)] /\ accepted' \in [Buckets -> Seq(Ticks)]
<1> DEFINE stay == Trim(h[b], reading, Window(b))
           pass == Len(stay) < Budget(b)
           longer == Append(accepted[b], tick)
<1>1. stay \in Seq(Ticks)
  BY TrimTyped
<1>2. tick \in Ticks /\ accepted \in [Buckets -> Seq(Ticks)] /\ accepted[b] \in Seq(Ticks)
  BY DEF LimitsTypeOK, Ticks
<1> HIDE DEF Ticks
<1>3. /\ hits' = [h EXCEPT ![b] = IF pass THEN Append(stay, reading) ELSE stay]
      /\ accepted' = [accepted EXCEPT ![b] = IF pass THEN Recent(b, longer) ELSE accepted[b]]
  BY Zenon DEF Count
<1> HIDE DEF stay, pass
<1>4. Append(stay, reading) \in Seq(Ticks)
  BY <1>1, AppendEntries
<1>5. longer \in Seq(Ticks) /\ longer # <<>>
  BY <1>2, AppendEntries
<1> HIDE DEF longer
<1>6. Recent(b, longer) \in Seq(Ticks)
  BY <1>5, TailEntries DEF Recent
<1> QED BY <1>1, <1>2, <1>3, <1>4, <1>6

LEMMA LimitsTypeInit == LimitsInit => LimitsTypeOK
<1> SUFFICES ASSUME LimitsInit PROVE LimitsTypeOK
  OBVIOUS
<1>1. tick \in Ticks /\ calls \in 0 .. SweepEvery - 1
  BY LimitsAssumption DEF LimitsInit, Ticks
<1>2. <<>> \in Seq(Ticks)
  OBVIOUS
<1> QED BY <1>1, <1>2 DEF LimitsInit, LimitsTypeOK, Ticks

LEMMA LimitsTypeNext == LimitsTypeOK /\ [LimitsNext]_limitVars => LimitsTypeOK'
<1> SUFFICES ASSUME LimitsTypeOK, [LimitsNext]_limitVars PROVE LimitsTypeOK'
  OBVIOUS
<1>t. /\ tick \in Ticks /\ hits \in [Buckets -> Seq(Ticks)] /\ calls \in 0 .. SweepEvery - 1
      /\ read \in [Workers -> {<<>>} \cup (HttpBuckets \X Ticks)]
      /\ accepted \in [Buckets -> Seq(Ticks)]
  BY DEF LimitsTypeOK, Ticks
<1>1. ASSUME NEW w \in Workers, NEW b \in HttpBuckets, ReadClock(w, b) PROVE LimitsTypeOK'
  BY <1>1, <1>t DEF ReadClock, LimitsTypeOK, Ticks
<1>2. ASSUME NEW w \in Workers, Allow(w) PROVE LimitsTypeOK'
  <2>1. PICK b \in HttpBuckets, reading \in Ticks : read[w] = <<b, reading>>
    BY <1>2, <1>t DEF Allow
  <2> DEFINE h == IF calls = 0 THEN Sweep(hits, reading) ELSE hits
  <2>2. Count(b, h, reading) /\ read' = [read EXCEPT ![w] = <<>>] /\ UNCHANGED tick
        /\ calls' = (calls + 1) % SweepEvery
    BY <1>2, <2>1 DEF Allow
  <2>3. h \in [Buckets -> Seq(Ticks)]
    <3>1. Sweep(hits, reading) \in [Buckets -> Seq(Ticks)]
      <4>1. \A c \in Buckets : hits[c] \in Seq(Ticks)
        BY <1>t
      <4>2. <<>> \in Seq(Ticks)
        OBVIOUS
      <4> QED BY <4>1, <4>2 DEF Sweep
    <3> QED BY <1>t, <3>1
  <2> HIDE DEF h
  <2>4. b \in Buckets
    BY DEF Buckets, HttpBuckets
  <2>5. hits' \in [Buckets -> Seq(Ticks)] /\ accepted' \in [Buckets -> Seq(Ticks)]
    BY <2>2, <2>3, <2>4, CountTyped
  <2>6. calls' \in 0 .. SweepEvery - 1
    <3>1. SweepEvery \in Nat /\ SweepEvery > 0 /\ calls \in Nat
      BY <1>t, LimitsAssumption
    <3> QED BY <2>2, <3>1
  <2> QED BY <1>t, <2>2, <2>5, <2>6 DEF LimitsTypeOK, Ticks
<1>3. ASSUME NEW s \in Sockets, AllowFrame(s) PROVE LimitsTypeOK'
  <2> DEFINE b == <<"socket", s>>
  <2>1. Count(b, hits, tick) /\ UNCHANGED <<tick, calls, read>>
    BY <1>3 DEF AllowFrame
  <2>2. b \in Buckets
    BY DEF Buckets
  <2> HIDE DEF b
  <2>3. hits' \in [Buckets -> Seq(Ticks)] /\ accepted' \in [Buckets -> Seq(Ticks)]
    BY <1>t, <2>1, <2>2, CountTyped
  <2> QED BY <1>t, <2>1, <2>3 DEF LimitsTypeOK, Ticks
<1>4. CASE Tick
  <2>1. tick' \in Ticks
    BY <1>4, <1>t, LimitsAssumption DEF Tick, Ticks
  <2> QED BY <1>4, <1>t, <2>1 DEF Tick, LimitsTypeOK, Ticks
<1>5. CASE UNCHANGED limitVars
  BY <1>5 DEF limitVars, LimitsTypeOK
<1> QED
  BY <1>1, <1>2, <1>3, <1>4, <1>5 DEF LimitsNext, HttpNext, FrameNext

-----------------------------------------------------------------------------
(* The party's types.                                                      *)

\* A word with numbers after it is a name.
LEMMA NumberedIsName ==
  ASSUME NEW S, NEW s \in Seq(S), s # <<>>, s[1] \in Words, \A k \in 2 .. Len(s) : s[k] \in Nat
  PROVE  IsName(s)
<1>1. Head(s) = s[1] /\ Tail(s) \in Seq(S) /\ Len(Tail(s)) = Len(s) - 1 /\ Len(s) \in Nat
      /\ \A i \in 1 .. Len(Tail(s)) : Tail(s)[i] = s[i + 1] /\ i + 1 \in 1 .. Len(s)
  BY TailEntries
<1>2. DOMAIN Tail(s) = 1 .. Len(Tail(s))
  BY <1>1
<1>3. \A i \in 1 .. Len(Tail(s)) : i + 1 \in 2 .. Len(s)
  BY <1>1
<1>4. Range(Tail(s)) \subseteq Nat
  BY <1>1, <1>2, <1>3 DEF Range
<1> QED
  BY <1>1, <1>4 DEF IsName

\* What a socket is called is a name.
LEMMA ClaimedIsName ==
  ASSUME NEW g \in Guests, NEW wanted \in Asked
  PROVE  IsName(Unique(g, wanted))
<1>1. PICK S : /\ wanted \in Seq(S) /\ Nat \subseteq S /\ wanted # <<>>
               /\ wanted[1] \in Words /\ \A k \in 2 .. Len(wanted) : wanted[k] \in Nat
  <2>1. CASE wanted \in Wishes
    <3> DEFINE S == {wanted[k] : k \in 1 .. Len(wanted)} \cup Nat
    <3>1. /\ Len(wanted) \in Nat /\ Len(wanted) > 0
          /\ wanted = [k \in 1 .. Len(wanted) |-> wanted[k]]
          /\ \A k \in 2 .. Len(wanted) : wanted[k] \in Nat
      BY <2>1, PartyAssumption
    <3>2. wanted \in [1 .. Len(wanted) -> S]
      BY <3>1
    <3>3. wanted \in Seq(S)
      BY <3>1, <3>2, SeqDef
    <3> HIDE DEF S
    <3>4. wanted # <<>> /\ Head(wanted) = wanted[1]
      BY <3>1, <3>3
    <3>5. wanted[1] \in Words
      BY <2>1, <3>4 DEF Words
    <3> QED BY <3>1, <3>3, <3>4, <3>5 DEF S
  <2>2. CASE wanted \in {<<"guest", n>> : n \in Nat}
    <3>1. PICK n \in Nat : wanted = <<"guest", n>>
      BY <2>2
    <3> DEFINE S == {"guest"} \cup Nat
    <3>2. "guest" \in S /\ n \in S /\ "guest" \in Words
      BY DEF Words
    <3>3. wanted \in Seq(S) /\ wanted # <<>> /\ Len(wanted) = 2
          /\ wanted[1] = "guest" /\ wanted[2] = n
      BY <3>1, <3>2
    <3>4. \A k \in 2 .. Len(wanted) : k = 2
      BY <3>3
    <3> QED BY <3>2, <3>3, <3>4
  <2> QED BY <2>1, <2>2 DEF Asked
<1>2. CASE Unique(g, wanted) = wanted
  BY <1>1, <1>2, NumberedIsName
<1>3. ASSUME NEW i \in Nat, Unique(g, wanted) = Append(wanted, i)
      PROVE  IsName(Unique(g, wanted))
  <2> DEFINE a == Append(wanted, i)
  <2>1. /\ a \in Seq(S) /\ a # <<>> /\ Len(a) = Len(wanted) + 1 /\ Len(wanted) \in Nat
        /\ \A k \in 1 .. Len(a) : a[k] = IF k = Len(wanted) + 1 THEN i ELSE wanted[k]
        /\ a[1] = wanted[1]
    <3>1. i \in S
      BY <1>1
    <3> QED BY <1>1, <3>1, AppendEntries
  <2> HIDE DEF a
  <2>2. \A k \in 2 .. Len(a) : a[k] \in Nat
    <3>1. \A k \in 2 .. Len(a) : k \in 1 .. Len(a) /\ (k = Len(wanted) + 1 \/ k \in 2 .. Len(wanted))
      BY <2>1
    <3> QED BY <1>1, <2>1, <3>1
  <2>3. IsName(a)
    BY <1>1, <2>1, <2>2, NumberedIsName
  <2> QED BY <1>3, <2>3 DEF a
<1> QED
  BY <1>2, <1>3, UniqueIsFree

NamesAreNames == guestSeq \in 1 .. MaxAuto + 1 /\ \A g \in Guests : IsName(own[g]) /\ IsName(names[g])

\* What was said, logged, sent and heard are messages of this run.
PostsAreKnown ==
  /\ posted <= MaxPosts /\ Len(log) <= LogMax
  /\ \A i \in 1 .. Len(log) : log[i] <= posted
  /\ \A i \in 1 .. Len(ring) : ring[i] \in 1 .. posted
  /\ \A g \in Guests : saying[g] <= posted /\ (place[g] = "posting" => saying[g] # 0)
  /\ heard \in [Guests -> SUBSET (1 .. posted)]

PartyTypes == NamesInv /\ TalkInv /\ NamesAreNames /\ PostsAreKnown

LEMMA PartyTypesInit == PartyInit => PartyTypes
<1> SUFFICES ASSUME PartyInit PROVE PartyTypes
  OBVIOUS
<1>1. NamesInv
  BY DEF PartyInit, NamesInv
<1>2. TalkInv
  BY DEF PartyInit, TalkInv, TalkTypes, TalkShape, AllReach
<1>3. NamesAreNames
  <2>1. guestSeq \in 1 .. MaxAuto + 1
    BY PartyAssumption DEF PartyInit
  <2>2. \A g \in Guests : own[g] = NoName /\ names[g] = NoName
    BY DEF PartyInit
  <2> QED BY <2>1, <2>2 DEF NamesAreNames, IsName
<1>4. PostsAreKnown
  <2>1. MaxPosts \in Nat /\ LogMax \in Nat
    BY PartyAssumption
  <2> QED BY <2>1 DEF PartyInit, PostsAreKnown
<1> QED BY <1>1, <1>2, <1>3, <1>4 DEF PartyTypes

LEMMA ClaimTyped ==
  ASSUME NamesInv, NamesAreNames, NEW g \in Guests, NEW wanted \in Asked, ClaimName(g, wanted)
  PROVE  \A h \in Guests : IsName(own'[h]) /\ IsName(names'[h])
<1> DEFINE name == Unique(g, wanted)
<1>1. names' = [names EXCEPT ![g] = name] /\ own' = [own EXCEPT ![g] = name]
  BY DEF ClaimName
<1>2. IsName(name)
  BY ClaimedIsName
<1> HIDE DEF name
<1>3. \A h \in Guests : /\ names'[h] = IF h = g THEN name ELSE names[h]
                        /\ own'[h] = IF h = g THEN name ELSE own[h]
  BY <1>1 DEF NamesInv
<1> QED BY <1>2, <1>3 DEF NamesAreNames

LEMMA NamesAreNamesNext ==
  NamesInv /\ NamesAreNames /\ [PartyNext]_partyVars => NamesAreNames'
<1> SUFFICES ASSUME NamesInv, NamesAreNames, [PartyNext]_partyVars PROVE NamesAreNames'
  OBVIOUS
<1>1. ASSUME NEW g \in Guests, NEW wanted \in Wishes, SetIdentity(g, wanted)
      PROVE  NamesAreNames'
  <2>1. ClaimName(g, wanted) /\ UNCHANGED guestSeq /\ wanted \in Asked
    BY <1>1 DEF SetIdentity, Asked
  <2> QED BY <2>1, ClaimTyped DEF NamesAreNames
<1>2. ASSUME NEW g \in Guests, ClearIdentity(g) \/ Leave(g)
      PROVE  NamesAreNames'
  <2>1. /\ own' = [own EXCEPT ![g] = NoName] /\ UNCHANGED guestSeq
        /\ names' = [names EXCEPT ![g] = NoName] \/ UNCHANGED names
    BY <1>2 DEF ClearIdentity, Leave
  <2>2. IsName(NoName)
    BY DEF IsName
  <2>3. \A h \in Guests : /\ own'[h] = NoName \/ own'[h] = own[h]
                          /\ names'[h] = NoName \/ names'[h] = names[h]
    BY <2>1 DEF NamesInv
  <2> QED BY <2>1, <2>2, <2>3, Zenon DEF NamesAreNames
<1>3. ASSUME UNCHANGED nameVars PROVE NamesAreNames'
  BY <1>3 DEF nameVars, NamesAreNames
<1>4. ASSUME NEW g \in Guests, Post(g)
      PROVE  NamesAreNames'
  <2>1. ResolveName(g)
    BY <1>4 DEF Post
  <2>2. CASE own[g] # NoName
    BY <1>3, <2>1, <2>2 DEF ResolveName
  <2>3. CASE own[g] = NoName
    <3>1. /\ guestSeq <= MaxAuto /\ ClaimName(g, <<"guest", guestSeq>>)
          /\ guestSeq' = guestSeq + 1 /\ guestSeq \in Nat
      BY <2>1, <2>3 DEF ResolveName, NamesInv
    <3>2. <<"guest", guestSeq>> \in Asked
      BY <3>1 DEF Asked
    <3>3. guestSeq' \in 1 .. MaxAuto + 1
      BY <3>1, PartyAssumption
    <3> QED BY <3>1, <3>2, <3>3, ClaimTyped DEF NamesAreNames
  <2> QED BY <2>2, <2>3
<1>5. ASSUME NEW g \in Guests,
             Subscribe(g) \/ History(g) \/ PostSend(g) \/ Hear(g) \/ HearLagged(g)
      PROVE  NamesAreNames'
  BY <1>3, <1>5 DEF Subscribe, History, PostSend, Hear, HearLagged
<1>6. CASE UNCHANGED partyVars
  BY <1>3, <1>6 DEF partyVars
<1> QED
  BY <1>1, <1>2, <1>4, <1>5, <1>6 DEF PartyNext

LEMMA PostsAreKnownNext == TalkInv /\ PostsAreKnown /\ [PartyNext]_partyVars => PostsAreKnown'
<1> SUFFICES ASSUME TalkInv, PostsAreKnown, [PartyNext]_partyVars PROVE PostsAreKnown'
  OBVIOUS
<1>t. /\ place \in [Guests -> {"off", "joining", "on", "posting"}]
      /\ log \in Seq(Nat) /\ ring \in Seq(Nat) /\ posted \in Nat
      /\ saying \in [Guests -> Nat] /\ next \in [Guests -> Nat] /\ DOMAIN heard = Guests
      /\ \A i \in 1 .. Len(log) : log[i] # 0
      /\ \A g \in Guests : next[g] >= 1 /\ next[g] <= Len(ring) + 1
      /\ MaxPosts \in Nat /\ LogMax \in Nat /\ LogMax > 0
  BY PartyAssumption DEF TalkInv, TalkTypes, TalkShape
\* Steps that say and send nothing: somebody may hear what was said.
<1>1. ASSUME NEW g \in Guests, NEW what, what \subseteq 1 .. posted,
             heard' = [heard EXCEPT ![g] = what], UNCHANGED <<log, ring, posted, saying>>,
             \A h \in Guests : place'[h] = "posting" => place[h] = "posting"
      PROVE  PostsAreKnown'
  <2>1. heard' \in [Guests -> SUBSET (1 .. posted)]
    BY <1>1 DEF PostsAreKnown
  <2> QED BY <1>1, <2>1 DEF PostsAreKnown
<1>2. ASSUME UNCHANGED <<log, ring, posted, saying, heard>>,
             \A h \in Guests : place'[h] = "posting" => place[h] = "posting"
      PROVE  PostsAreKnown'
  BY <1>2 DEF PostsAreKnown
<1>3. ASSUME NEW g \in Guests,
             (\E wanted \in Wishes : SetIdentity(g, wanted)) \/ ClearIdentity(g) \/ HearLagged(g)
             \/ Leave(g)
      PROVE  PostsAreKnown'
  <2>1. UNCHANGED <<log, ring, posted, saying, heard>>
        /\ (place' = [place EXCEPT ![g] = "off"] \/ UNCHANGED place)
    BY <1>3 DEF SetIdentity, ClearIdentity, HearLagged, Leave, chatVars
  <2> QED BY <1>2, <1>t, <2>1
<1>4. ASSUME NEW g \in Guests, Subscribe(g) \/ History(g)
      PROVE  PostsAreKnown'
  <2>1. Range(log) \subseteq 1 .. posted
    <3>1. \A i \in 1 .. Len(log) : log[i] \in Nat /\ log[i] # 0 /\ log[i] <= posted
      BY <1>t DEF PostsAreKnown
    <3>2. \A i \in 1 .. Len(log) : log[i] \in 1 .. posted
      BY <1>t, <3>1
    <3>3. DOMAIN log = 1 .. Len(log)
      BY <1>t
    <3> QED BY <3>2, <3>3 DEF Range
  <2>2. UNCHANGED <<log, ring, posted, saying>>
        /\ (heard' = [heard EXCEPT ![g] = {}] \/ heard' = [heard EXCEPT ![g] = Range(log)])
        /\ (place' = [place EXCEPT ![g] = "joining"] \/ place' = [place EXCEPT ![g] = "on"])
    BY <1>4 DEF Subscribe, History
  <2>3. \A h \in Guests : place'[h] = "posting" => place[h] = "posting"
    BY <1>t, <2>2
  <2> QED BY <1>1, <2>1, <2>2, <2>3
<1>5. ASSUME NEW g \in Guests, Post(g)
      PROVE  PostsAreKnown'
  <2>1. /\ posted < MaxPosts /\ posted' = posted + 1
        /\ log' = Keep(Append(log, posted + 1))
        /\ saying' = [saying EXCEPT ![g] = posted + 1]
        /\ place' = [place EXCEPT ![g] = "posting"]
        /\ UNCHANGED <<ring, heard>>
    BY <1>5 DEF Post
  <2>2. posted' \in Nat /\ posted' <= MaxPosts /\ posted <= posted' /\ posted' # 0
    BY <1>t, <2>1
  <2>3. \A i \in 1 .. Len(log') : log'[i] <= posted'
    <3>1. \A i \in 1 .. Len(log') :
            log'[i] = posted + 1 \/ \E k \in 1 .. Len(log) : log'[i] = log[k]
      <4>1. posted + 1 \in Nat /\ log \in Seq(Nat)
        BY <1>t
      <4> QED BY <2>1, <4>1, KeepEntries
    <3>2. \A k \in 1 .. Len(log) : log[k] \in Nat /\ log[k] <= posted
      BY <1>t DEF PostsAreKnown
    <3>3. \A k \in 1 .. Len(log) : log[k] <= posted'
      BY <1>t, <2>2, <3>2
    <3>4. posted + 1 <= posted'
      BY <1>t, <2>1
    <3> QED BY <3>1, <3>3, <3>4, Zenon
  <2>4. Len(log') <= LogMax
    <3> DEFINE a == Append(log, posted + 1)
    <3>1. a \in Seq(Nat) /\ Len(a) = Len(log) + 1 /\ a # <<>> /\ Len(log) \in Nat
      <4>1. posted + 1 \in Nat /\ log \in Seq(Nat)
        BY <1>t
      <4> QED BY <4>1, AppendEntries
    <3> HIDE DEF a
    <3>2. Len(Tail(a)) = Len(a) - 1
      BY <3>1
    <3>3. Len(log) <= LogMax /\ log' = Keep(a)
      BY <2>1 DEF PostsAreKnown, a
    <3> QED BY <1>t, <3>1, <3>2, <3>3 DEF Keep
  <2>5. \A h \in Guests : /\ saying'[h] = IF h = g THEN posted + 1 ELSE saying[h]
                          /\ place'[h] = IF h = g THEN "posting" ELSE place[h]
    BY <1>t, <2>1
  <2>6. \A h \in Guests : saying'[h] <= posted' /\ (place'[h] = "posting" => saying'[h] # 0)
    <3>1. \A h \in Guests : saying[h] \in Nat /\ saying[h] <= posted
                            /\ (place[h] = "posting" => saying[h] # 0)
      BY <1>t DEF PostsAreKnown
    <3> QED BY <1>t, <2>1, <2>2, <2>5, <3>1
  <2>7. 1 .. posted \subseteq 1 .. posted'
    BY <1>t, <2>2
  <2>8. heard' \in [Guests -> SUBSET (1 .. posted')]
    BY <2>1, <2>7 DEF PostsAreKnown
  <2>9. \A i \in 1 .. Len(ring') : ring'[i] \in 1 .. posted'
    BY <2>1, <2>7 DEF PostsAreKnown
  <2> QED BY <2>2, <2>3, <2>4, <2>6, <2>8, <2>9 DEF PostsAreKnown
<1>6. ASSUME NEW g \in Guests, PostSend(g)
      PROVE  PostsAreKnown'
  <2>1. /\ place[g] = "posting" /\ ring' = Append(ring, saying[g])
        /\ saying' = [saying EXCEPT ![g] = 0] /\ place' = [place EXCEPT ![g] = "on"]
        /\ UNCHANGED <<log, posted, heard>>
    BY <1>6 DEF PostSend
  <2>2. saying[g] \in 1 .. posted /\ saying[g] \in Nat
    BY <1>t, <2>1 DEF PostsAreKnown
  <2>3. \A i \in 1 .. Len(ring') : ring'[i] = saying[g] \/ (i \in 1 .. Len(ring) /\ ring'[i] = ring[i])
    <3>1. Len(ring') = Len(ring) + 1 /\ Len(ring) \in Nat
          /\ \A i \in 1 .. Len(ring') : ring'[i] = IF i = Len(ring) + 1 THEN saying[g] ELSE ring[i]
      BY <1>t, <2>1, <2>2, AppendEntries
    <3>2. \A i \in 1 .. Len(ring') : i = Len(ring) + 1 \/ i \in 1 .. Len(ring)
      BY <3>1
    <3> QED BY <3>1, <3>2
  <2>4. \A h \in Guests : /\ saying'[h] = IF h = g THEN 0 ELSE saying[h]
                          /\ place'[h] = IF h = g THEN "on" ELSE place[h]
    BY <1>t, <2>1
  <2> QED BY <1>t, <2>1, <2>2, <2>3, <2>4 DEF PostsAreKnown
<1>7. ASSUME NEW g \in Guests, Hear(g)
      PROVE  PostsAreKnown'
  <2>1. /\ next[g] <= Len(ring) /\ heard' = [heard EXCEPT ![g] = heard[g] \cup {ring[next[g]]}]
        /\ UNCHANGED <<place, log, ring, posted, saying>>
    BY <1>7 DEF Hear
  <2>2. next[g] \in 1 .. Len(ring)
    BY <1>t, <2>1
  <2>3. heard[g] \cup {ring[next[g]]} \subseteq 1 .. posted
    BY <2>2 DEF PostsAreKnown
  <2> QED BY <1>1, <2>1, <2>3
<1>8. CASE UNCHANGED partyVars
  BY <1>2, <1>8 DEF partyVars, chatVars
<1> QED
  BY <1>3, <1>4, <1>5, <1>6, <1>7, <1>8 DEF PartyNext

LEMMA PartyTyped == PartyTypes => PartyTypeOK
<1> SUFFICES ASSUME PartyTypes PROVE PartyTypeOK
  OBVIOUS
<1>1. NamesInv /\ TalkTypes /\ TalkShape /\ NamesAreNames /\ PostsAreKnown
  BY DEF PartyTypes, TalkInv
<1>2. \A i \in 1 .. Len(log) : log[i] \in 1 .. posted
  <2>1. \A i \in 1 .. Len(log) : log[i] \in Nat /\ log[i] # 0 /\ log[i] <= posted
    BY <1>1 DEF TalkTypes, TalkShape, PostsAreKnown
  <2> QED BY <1>1, <2>1 DEF TalkTypes
<1>3. Range(log) \subseteq 1 .. posted
  <2>1. DOMAIN log = 1 .. Len(log)
    BY <1>1 DEF TalkTypes
  <2> QED BY <1>2, <2>1 DEF Range
<1>4. posted \in 0 .. MaxPosts /\ saying \in [Guests -> 0 .. posted]
  BY <1>1, PartyAssumption DEF TalkTypes, PostsAreKnown
<1>5. next \in [Guests -> 1 .. Len(ring) + 1]
  <2>1. Len(ring) \in Nat
    BY <1>1 DEF TalkTypes
  <2> QED BY <1>1, <2>1 DEF TalkTypes, TalkShape
<1>6. heard \in [Guests -> SUBSET (1 .. posted)]
  BY <1>1 DEF PostsAreKnown
<1> QED
  BY <1>1, <1>3, <1>4, <1>5, <1>6 DEF TalkTypes, NamesAreNames, PostsAreKnown, PartyTypeOK

-----------------------------------------------------------------------------
(* The tokens' types.                                                      *)

Counts == UNION {[ts -> Nat] : ts \in SUBSET TokenIds}
Contents == [state : {"whole"}, used : Counts] \cup {Holds(s) : s \in {"absent", "empty", "torn"}}

\* Lists of tokens, and what a file holds.
LEMMA CountsAre ==
  /\ \A c : c \in Counts <=> (\E ts \in SUBSET TokenIds : c \in [ts -> Nat])
  /\ NoTokens \in Counts
  /\ \A c \in Counts : Whole(c) \in Contents
  /\ \A s \in {"absent", "empty", "torn"} : Holds(s) \in Contents
  /\ \A f \in Contents : f.used \in Counts
<1>1. \A c : c \in Counts <=> (\E ts \in SUBSET TokenIds : c \in [ts -> Nat])
  BY DEF Counts
<1>2. NoTokens \in Counts
  <2>1. NoTokens \in [{} -> Nat] /\ {} \in SUBSET TokenIds
    BY DEF NoTokens
  <2> QED BY <1>1, <2>1
<1> HIDE DEF Counts
<1>3. \A c \in Counts : Whole(c) \in Contents
  BY DEF Whole, Contents
<1>4. \A s \in {"absent", "empty", "torn"} : Holds(s) \in Contents
  BY DEF Contents
<1>5. \A f \in Contents : f.used \in Counts
  <2>1. \A s : Holds(s).used = NoTokens
    BY DEF Holds
  <2> QED BY <1>2, <2>1 DEF Contents
<1> QED BY <1>1, <1>2, <1>3, <1>4, <1>5

\* What is saved is a list of tokens.
LEMMA DraftsAreCounts ==
  ASSUME NEW c \in Counts, NEW t \in TokenIds, NEW gone
  PROVE  /\ t \in DOMAIN c => [c EXCEPT ![t] = @ + 1] \in Counts
         /\ [u \in (DOMAIN c \ gone) \cup {t} |-> IF u = t THEN 0 ELSE c[u]] \in Counts
         /\ Restrict(c, DOMAIN c \ {t}) \in Counts
<1>1. PICK ts \in SUBSET TokenIds : c \in [ts -> Nat]
  BY CountsAre
<1>2. DOMAIN c = ts /\ \A u \in ts : c[u] \in Nat
  BY <1>1
<1>3. t \in ts => [c EXCEPT ![t] = @ + 1] \in [ts -> Nat]
  BY <1>1
<1>4. [u \in (ts \ gone) \cup {t} |-> IF u = t THEN 0 ELSE c[u]] \in [(ts \ gone) \cup {t} -> Nat]
  BY <1>2
<1>5. Restrict(c, ts \ {t}) \in [ts \ {t} -> Nat]
  BY <1>2 DEF Restrict
<1>6. (ts \ gone) \cup {t} \in SUBSET TokenIds /\ ts \ {t} \in SUBSET TokenIds
  OBVIOUS
<1> QED
  BY <1>2, <1>3, <1>4, <1>5, <1>6, CountsAre

Jobs == {<<>>} \cup ({"charge", "mint", "revoke"} \X TokenIds)

\* Who saves does something, and what is revoked was minted.
TokensTypes ==
  /\ file \in Contents /\ temp \in [Processes -> Contents]
  /\ job \in [Writers -> Jobs] /\ step \in [Writers -> SaveSteps]
  /\ draft \in [Writers -> Counts]
  /\ handle \in [Writers -> {"temp", "file", "gone"}]
  /\ minted \subseteq TokenIds /\ revoked \subseteq minted /\ expired \subseteq TokenIds
  /\ charged \in [TokenIds -> Nat]
  /\ raced \in BOOLEAN /\ overlapped \in BOOLEAN
  /\ \A w \in Writers : step[w] # "load" => job[w] # <<>>
  /\ \A w \in Writers : job[w] # <<>> /\ job[w][1] = "revoke" => job[w][2] \in minted

LEMMA TokensTypesInit == TokensInit => TokensTypes
<1> SUFFICES ASSUME TokensInit PROVE TokensTypes
  OBVIOUS
<1>1. Holds("absent") \in Contents /\ NoTokens \in Counts
  BY CountsAre
<1>2. <<>> \in Jobs
  BY DEF Jobs
<1>3. raced \in BOOLEAN /\ overlapped \in BOOLEAN
  BY Zenon DEF TokensInit
<1>4. charged \in [TokenIds -> Nat]
  BY DEF TokensInit
<1>5. job = [w \in Writers |-> <<>>] /\ step = [w \in Writers |-> "load"]
      /\ draft = [w \in Writers |-> NoTokens]
      /\ handle = [w \in Writers |-> "gone"] /\ minted = {} /\ revoked = {} /\ expired = {}
      /\ file = Holds("absent") /\ temp = [p \in Processes |-> Holds("absent")]
  BY DEF TokensInit
<1> HIDE DEF Jobs
<1> QED BY <1>1, <1>2, <1>3, <1>4, <1>5 DEF TokensTypes, SaveSteps

LEMMA BeginTyped ==
  ASSUME TokensTypes, NEW w \in Writers, NEW op \in {"charge", "mint", "revoke"}, NEW t \in TokenIds,
         op = "revoke" => t \in minted, NEW counts \in Counts, Begin(w, op, t, counts)
  PROVE  TokensTypes'
<1>1. /\ job' = [job EXCEPT ![w] = <<op, t>>] /\ step' = [step EXCEPT ![w] = "open"]
      /\ draft' = [draft EXCEPT ![w] = counts]
      /\ UNCHANGED <<file, temp, handle, minted, revoked, expired, charged, overlapped>>
  BY DEF Begin
<1>2. raced' \in BOOLEAN
  <2>1. raced' = (raced \/ \E v \in Writers \ {w} : job[v] # <<>>)
    BY DEF Begin
  <2> QED BY <2>1
<1>3. <<op, t>> \in Jobs /\ <<op, t>> # <<>> /\ <<op, t>>[1] = op /\ <<op, t>>[2] = t
  BY DEF Jobs
<1>4. job' \in [Writers -> Jobs] /\ step' \in [Writers -> SaveSteps] /\ draft' \in [Writers -> Counts]
  BY <1>1, <1>3 DEF TokensTypes, SaveSteps
<1>5. \A v \in Writers : /\ job'[v] = IF v = w THEN <<op, t>> ELSE job[v]
                         /\ step'[v] = IF v = w THEN "open" ELSE step[v]
  BY <1>1 DEF TokensTypes
<1>6. /\ \A v \in Writers : step'[v] # "load" => job'[v] # <<>>
      /\ \A v \in Writers : job'[v] # <<>> /\ job'[v][1] = "revoke" => job'[v][2] \in minted
  BY <1>3, <1>5 DEF TokensTypes
<1> QED
  BY <1>1, <1>2, <1>4, <1>6 DEF TokensTypes

LEMMA FinishTyped ==
  ASSUME TokensTypes, NEW w \in Writers, step[w] # "load", Finish(w)
  PROVE  /\ job' \in [Writers -> Jobs] /\ step' \in [Writers -> SaveSteps]
         /\ draft' \in [Writers -> Counts] /\ minted' \subseteq TokenIds /\ revoked' \subseteq minted'
         /\ charged' \in [TokenIds -> Nat]
         /\ \A v \in Writers : step'[v] # "load" => job'[v] # <<>>
         /\ \A v \in Writers : job'[v] # <<>> /\ job'[v][1] = "revoke" => job'[v][2] \in minted'
<1> DEFINE op == job[w][1]
           t == job[w][2]
<1>1. op \in {"charge", "mint", "revoke"} /\ t \in TokenIds /\ (op = "revoke" => t \in minted)
  <2>1. job[w] # <<>> /\ job[w] \in Jobs
    BY DEF TokensTypes
  <2>2. job[w] \in {"charge", "mint", "revoke"} \X TokenIds
    BY <2>1 DEF Jobs
  <2> QED BY <2>1, <2>2 DEF TokensTypes
<1>2. /\ job' = [job EXCEPT ![w] = <<>>] /\ step' = [step EXCEPT ![w] = "load"]
      /\ draft' = [draft EXCEPT ![w] = NoTokens]
      /\ minted' = (IF op = "mint" THEN minted \cup {t} ELSE minted)
      /\ revoked' = (IF op = "revoke" THEN revoked \cup {t} ELSE revoked)
      /\ charged' = (IF op = "charge" THEN [charged EXCEPT ![t] = @ + 1] ELSE charged)
  BY DEF Finish
<1> HIDE DEF op, t
<1>3. <<>> \in Jobs /\ NoTokens \in Counts
  BY CountsAre DEF Jobs
<1>4. job' \in [Writers -> Jobs] /\ step' \in [Writers -> SaveSteps] /\ draft' \in [Writers -> Counts]
  BY <1>2, <1>3 DEF TokensTypes, SaveSteps
<1>5. minted \subseteq minted' /\ minted' \subseteq TokenIds /\ revoked' \subseteq minted'
  BY <1>1, <1>2 DEF TokensTypes
<1>6. charged' \in [TokenIds -> Nat]
  BY <1>1, <1>2 DEF TokensTypes
<1>7. \A v \in Writers : /\ job'[v] = IF v = w THEN <<>> ELSE job[v]
                         /\ step'[v] = IF v = w THEN "load" ELSE step[v]
  BY <1>2 DEF TokensTypes
<1>8. /\ \A v \in Writers : step'[v] # "load" => job'[v] # <<>>
      /\ \A v \in Writers : job'[v] # <<>> /\ job'[v][1] = "revoke" => job'[v][2] \in minted'
  BY <1>5, <1>7 DEF TokensTypes
<1> QED BY <1>4, <1>5, <1>6, <1>8

LEMMA TokensTypesNext == TokensTypes /\ [TokensNext]_tokenVars => TokensTypes'
<1> SUFFICES ASSUME TokensTypes, [TokensNext]_tokenVars PROVE TokensTypes'
  OBVIOUS
<1>t. file.used \in Counts /\ \A w \in Writers : TempOf(w) \in Processes
  BY CountsAre, OwnProcess DEF TokensTypes, TempOf
<1>1. ASSUME NEW h \in Chargers, NEW t \in TokenIds, Authorize(h, t) PROVE TokensTypes'
  <2>1. [Loaded EXCEPT ![t] = @ + 1] \in Counts
    BY <1>1, <1>t, DraftsAreCounts DEF Authorize, Honoured, Loaded
  <2>2. Begin(h, "charge", t, [Loaded EXCEPT ![t] = @ + 1]) /\ h \in Writers
    BY <1>1 DEF Authorize, Writers
  <2> QED BY <2>1, <2>2, BeginTyped
<1>2. ASSUME NEW c \in Commands, NEW t \in TokenIds, Mint(c, t) PROVE TokensTypes'
  <2> DEFINE counts == [u \in (DOMAIN Loaded \ expired) \cup {t} |-> IF u = t THEN 0 ELSE Loaded[u]]
  <2>1. counts \in Counts
    BY <1>t, DraftsAreCounts DEF Loaded
  <2>2. Begin(c, "mint", t, counts) /\ c \in Writers
    BY <1>2 DEF Mint, Writers
  <2> HIDE DEF counts
  <2> QED BY <2>1, <2>2, BeginTyped
<1>3. ASSUME NEW c \in Commands, NEW t \in TokenIds, Revoke(c, t) PROVE TokensTypes'
  <2> DEFINE counts == Restrict(Loaded, DOMAIN Loaded \ {t})
  <2>1. counts \in Counts
    BY <1>t, DraftsAreCounts DEF Loaded
  <2>2. Begin(c, "revoke", t, counts) /\ c \in Writers /\ t \in minted
    BY <1>3 DEF Revoke, Writers
  <2> HIDE DEF counts
  <2> QED BY <2>1, <2>2, BeginTyped
<1>4. ASSUME NEW w \in Writers, Truncate(w) PROVE TokensTypes'
  <2>1. /\ step[w] = "open" /\ temp' = [temp EXCEPT ![TempOf(w)] = Holds("empty")]
        /\ handle' = [handle EXCEPT ![w] = "temp"] /\ step' = [step EXCEPT ![w] = "write"]
        /\ UNCHANGED <<file, job, draft, minted, revoked, expired, charged, raced>>
    BY <1>4 DEF Truncate
  <2>2. overlapped' \in BOOLEAN
    <3>1. overlapped' = (overlapped \/ \E v \in Writers \ {w} :
                                         ProcessOf(v) = ProcessOf(w) /\ Saving(v))
      BY <1>4 DEF Truncate
    <3> QED BY <3>1
  <2>3. temp' \in [Processes -> Contents]
    <3>1. Holds("empty") \in Contents
      BY CountsAre
    <3> QED BY <1>t, <2>1, <3>1 DEF TokensTypes
  <2>4. step' \in [Writers -> SaveSteps] /\ handle' \in [Writers -> {"temp", "file", "gone"}]
    BY <2>1 DEF TokensTypes, SaveSteps
  <2>5. \A v \in Writers : step'[v] # "load" => job[v] # <<>>
    BY <2>1 DEF TokensTypes
  <2> QED BY <2>1, <2>2, <2>3, <2>4, <2>5 DEF TokensTypes
<1>w. ASSUME NEW w \in Writers, NEW old, NEW c \in Written(old, draft[w])
      PROVE  c \in Contents
  <2>1. Whole(draft[w]) \in Contents /\ Holds("torn") \in Contents
    BY CountsAre DEF TokensTypes
  <2> QED BY <1>w, <2>1 DEF Written
<1>5. ASSUME NEW w \in Writers, WriteOut(w) PROVE TokensTypes'
  <2>1. /\ step[w] = "write" /\ step' = [step EXCEPT ![w] = "rename"]
        /\ UNCHANGED <<job, draft, handle, minted, revoked, expired, charged, raced, overlapped>>
    BY <1>5 DEF WriteOut
  <2>2. /\ UNCHANGED file \/ (\E c \in Written(file, draft[w]) : file' = c)
        /\ UNCHANGED temp \/ (\E c \in Written(temp[TempOf(w)], draft[w]) :
                                temp' = [temp EXCEPT ![TempOf(w)] = c])
    BY <1>5, Zenon DEF WriteOut
  <2>3. file' \in Contents
    BY <1>w, <2>2 DEF TokensTypes
  <2>4. temp' \in [Processes -> Contents]
    BY <1>t, <1>w, <2>2 DEF TokensTypes
  <2>5. step' \in [Writers -> SaveSteps] /\ \A v \in Writers : step'[v] # "load" => job[v] # <<>>
    BY <2>1 DEF TokensTypes, SaveSteps
  <2> QED BY <2>1, <2>3, <2>4, <2>5 DEF TokensTypes
<1>a. Holds("absent") \in Contents
  BY CountsAre
<1>6. ASSUME NEW w \in Writers, Rename(w) PROVE TokensTypes'
  <2>1. /\ step[w] = "rename" /\ file' = temp[TempOf(w)]
        /\ temp' = [temp EXCEPT ![TempOf(w)] = Holds("absent")]
        /\ handle' = [v \in Writers |-> IF v = w THEN "gone" ELSE Moved(v, w)]
        /\ Finish(w) /\ UNCHANGED <<expired, raced, overlapped>>
    BY <1>6 DEF Rename
  <2>2. file' \in Contents /\ temp' \in [Processes -> Contents]
    BY <1>t, <1>a, <2>1 DEF TokensTypes
  <2>3. handle' \in [Writers -> {"temp", "file", "gone"}]
    <3>1. \A v \in Writers : Moved(v, w) \in {"temp", "file", "gone"}
      BY DEF Moved, TokensTypes
    <3> QED BY <2>1, <3>1
  <2> QED BY <2>1, <2>2, <2>3, FinishTyped DEF TokensTypes
<1>7. ASSUME NEW w \in Writers, RenameFails(w) PROVE TokensTypes'
  <2>1. /\ step[w] = "rename" /\ step' = [step EXCEPT ![w] = "remove"]
        /\ UNCHANGED <<file, temp, job, draft, handle, minted, revoked, expired, charged,
                       raced, overlapped>>
    BY <1>7 DEF RenameFails
  <2>2. step' \in [Writers -> SaveSteps] /\ \A v \in Writers : step'[v] # "load" => job[v] # <<>>
    BY <2>1 DEF TokensTypes, SaveSteps
  <2> QED BY <2>1, <2>2 DEF TokensTypes
<1>8. ASSUME NEW w \in Writers, RemoveTemp(w) PROVE TokensTypes'
  <2>1. /\ step[w] = "remove" /\ temp' = [temp EXCEPT ![TempOf(w)] = Holds("absent")]
        /\ Finish(w) /\ UNCHANGED <<file, expired, raced, overlapped>>
    BY <1>8 DEF RemoveTemp
  <2>2. handle' \in [Writers -> {"temp", "file", "gone"}]
    BY <1>8 DEF RemoveTemp, TokensTypes
  <2>3. temp' \in [Processes -> Contents]
    BY <1>t, <1>a, <2>1 DEF TokensTypes
  <2> QED BY <2>1, <2>2, <2>3, FinishTyped DEF TokensTypes
<1>9. ASSUME NEW t \in TokenIds, Expire(t) PROVE TokensTypes'
  BY <1>9 DEF Expire, TokensTypes
<1>10. ASSUME NEW p \in Processes, Die(p) PROVE TokensTypes'
  <2> DEFINE dead == {w \in Writers : ProcessOf(w) = p}
  <2>1. /\ temp' = [temp EXCEPT ![p] = Holds("absent")]
        /\ job' = [w \in Writers |-> IF w \in dead THEN <<>> ELSE job[w]]
        /\ step' = [w \in Writers |-> IF w \in dead THEN "load" ELSE step[w]]
        /\ draft' = [w \in Writers |-> IF w \in dead THEN NoTokens ELSE draft[w]]
        /\ handle' = [w \in Writers |-> IF w \in dead THEN "gone" ELSE handle[w]]
        /\ UNCHANGED <<file, minted, revoked, expired, charged, raced, overlapped>>
    BY <1>10 DEF Die
  <2> HIDE DEF dead
  <2>2. temp' \in [Processes -> Contents]
    BY <1>a, <2>1 DEF TokensTypes
  <2>3. <<>> \in Jobs /\ NoTokens \in Counts
    BY CountsAre DEF Jobs
  <2>4. /\ job' \in [Writers -> Jobs] /\ draft' \in [Writers -> Counts]
        /\ step' \in [Writers -> SaveSteps] /\ handle' \in [Writers -> {"temp", "file", "gone"}]
    BY <2>1, <2>3 DEF TokensTypes, SaveSteps
  <2>5. \A w \in Writers : \/ job'[w] = <<>> /\ step'[w] = "load"
                           \/ job'[w] = job[w] /\ step'[w] = step[w]
    BY <2>1
  <2>6. /\ \A w \in Writers : step'[w] # "load" => job'[w] # <<>>
        /\ \A w \in Writers : job'[w] # <<>> /\ job'[w][1] = "revoke" => job'[w][2] \in minted
    BY <2>5 DEF TokensTypes
  <2> QED BY <2>1, <2>2, <2>4, <2>6 DEF TokensTypes
<1>11. CASE UNCHANGED tokenVars
  BY <1>11 DEF tokenVars, TokensTypes
<1>12. ASSUME NEW h \in Chargers, NEW t \in TokenIds, RefuseToken(h, t) PROVE TokensTypes'
  BY <1>11, <1>12 DEF RefuseToken
<1> QED
  BY <1>1, <1>2, <1>3, <1>4, <1>5, <1>6, <1>7, <1>8, <1>9, <1>10, <1>11, <1>12 DEF TokensNext

LEMMA TokensTyped == TokensTypes => TokensTypeOK
<1> SUFFICES ASSUME TokensTypes PROVE TokensTypeOK
  OBVIOUS
<1>1. \A c \in Counts : AreCounts(c)
  BY CountsAre DEF AreCounts
<1>2. \A f \in Contents : IsContent(f)
  <2>1. ASSUME NEW f \in [state : {"whole"}, used : Counts] PROVE IsContent(f)
    <3>1. f = [state |-> "whole", used |-> f.used] /\ f.used \in Counts
      BY <2>1
    <3> QED BY <1>1, <3>1 DEF IsContent, Whole
  <2> QED BY <2>1 DEF Contents, IsContent
<1> HIDE DEF Counts, Contents
<1> QED
  BY <1>1, <1>2 DEF TokensTypes, SaveSteps, Jobs, TokensTypeOK

-----------------------------------------------------------------------------
(* The metadata store's types.                                             *)

EntriesUpTo(n) == [title : BOOLEAN, total : 0 .. n, models : [Models -> 0 .. n]]
MapsUpTo(n) == [Chats -> EntriesUpTo(n)]

\* Turns that run can still be recorded within the bound.
TurnsFit ==
  /\ turns \in Nat /\ IsFiniteSet(running) /\ turns + Cardinality(running) <= MaxTurns
  /\ named \in 0 .. MaxNames

\* No entry counts more turns than were recorded, wherever it is.
CountsAreOfTurns ==
  /\ map \in MapsUpTo(turns) /\ disk \in MapsUpTo(turns) /\ queue \in Seq(MapsUpTo(turns))
  /\ inHand = <<>> \/ (\E m \in MapsUpTo(turns) : inHand = <<m>>)

ChatsAreTyped ==
  /\ unsaved \in BOOLEAN
  /\ files \subseteq {"cli", "native"} \X Chats
  /\ running \subseteq Chats /\ rewritten \subseteq Chats
  /\ tracker \in [Chats -> AllModels]
  /\ deleting \in [Chats -> {"no", "files", "meta", "done"}]

MetaTypes == TurnsFit /\ CountsAreOfTurns /\ ChatsAreTyped

LEMMA MapsGrow ==
  ASSUME NEW a \in Nat, NEW b \in Nat, a <= b
  PROVE  /\ MapsUpTo(a) \subseteq MapsUpTo(b)
         /\ \A s \in Seq(MapsUpTo(a)) : s \in Seq(MapsUpTo(b))
<1>1. 0 .. a \subseteq 0 .. b
  OBVIOUS
<1>2. EntriesUpTo(a) \subseteq EntriesUpTo(b)
  <2>1. [Models -> 0 .. a] \subseteq [Models -> 0 .. b]
    BY <1>1
  <2> QED BY <1>1, <2>1 DEF EntriesUpTo
<1>3. MapsUpTo(a) \subseteq MapsUpTo(b)
  BY <1>2 DEF MapsUpTo
<1> HIDE DEF MapsUpTo
<1> QED BY <1>3

LEMMA NoEntryFits == ASSUME NEW n \in Nat PROVE NoEntry \in EntriesUpTo(n)
BY DEF NoEntry, EntriesUpTo

LEMMA MetaTypesInit == MetaInit => MetaTypes
<1> SUFFICES ASSUME MetaInit PROVE MetaTypes
  OBVIOUS
<1>1. map \in MapsUpTo(0)
  <2>1. \A t \in BOOLEAN : [NoEntry EXCEPT !.title = t] \in EntriesUpTo(0)
    BY NoEntryFits DEF EntriesUpTo
  <2>2. map = [c \in Chats |->
                 [NoEntry EXCEPT !.title = \E e \in {"cli", "native"} : <<e, c>> \in files]]
    BY DEF MetaInit
  <2> HIDE DEF EntriesUpTo, NoEntry
  <2>3. \A c \in Chats : map[c] \in EntriesUpTo(0)
    BY <2>1, <2>2
  <2> QED BY <2>2, <2>3 DEF MapsUpTo
<1>2. IsFiniteSet({}) /\ Cardinality({}) = 0
  BY FS_EmptySet
<1>3. /\ disk = map /\ queue = <<>> /\ inHand = <<>> /\ unsaved = FALSE /\ running = {}
      /\ turns = 0 /\ named = 0 /\ rewritten = {} /\ tracker = [c \in Chats |-> NoModel]
      /\ deleting = [c \in Chats |-> "no"] /\ files \in SUBSET ({"cli", "native"} \X Chats)
  BY DEF MetaInit
<1>4. <<>> \in Seq(MapsUpTo(0))
  OBVIOUS
<1>5. TurnsFit
  BY <1>2, <1>3, MetaAssumption DEF TurnsFit
<1>6. CountsAreOfTurns
  BY <1>1, <1>3, <1>4 DEF CountsAreOfTurns
<1>7. ChatsAreTyped
  BY <1>3 DEF ChatsAreTyped, AllModels
<1> QED
  BY <1>5, <1>6, <1>7 DEF MetaTypes

\* The map that is sent is one of its type.
LEMMA ChangeTyped ==
  ASSUME MetaTypes, NEW n \in Nat, turns <= n, NEW m \in MapsUpTo(n), Change(m)
  PROVE  map' \in MapsUpTo(n) /\ queue' \in Seq(MapsUpTo(n))
<1>1. queue \in Seq(MapsUpTo(n)) /\ map' = m /\ queue' = Append(queue, m)
  BY MapsGrow DEF MetaTypes, TurnsFit, CountsAreOfTurns, ChatsAreTyped, Change
<1> QED BY <1>1, AppendEntries

LEMMA RewriteTyped ==
  ASSUME MetaTypes, NEW c \in Chats, Rewrite(c)
  PROVE  rewritten' \subseteq Chats
BY DEF MetaTypes, TurnsFit, CountsAreOfTurns, ChatsAreTyped, Rewrite

LEMMA MetaTypesNext == MetaTypes /\ [MetaNext]_metaVars => MetaTypes'
<1> SUFFICES ASSUME MetaTypes, [MetaNext]_metaVars PROVE MetaTypes'
  OBVIOUS
<1>t. /\ turns \in Nat /\ named \in Nat /\ named <= MaxNames /\ MaxNames \in Nat /\ MaxTurns \in Nat
      /\ Engine \in {"cli", "native"}
  BY MetaAssumption DEF MetaTypes, TurnsFit
<1>1. ASSUME NEW c \in Chats, NEW title \in BOOLEAN, SetMeta(c, title) PROVE MetaTypes'
  <2> DEFINE m == [map EXCEPT ![c].title = title]
  <2>1. m \in MapsUpTo(turns)
    <3>1. map[c] \in EntriesUpTo(turns)
      BY DEF MetaTypes, TurnsFit, CountsAreOfTurns, ChatsAreTyped, MapsUpTo
    <3>2. [map[c] EXCEPT !.title = title] \in EntriesUpTo(turns)
      BY <3>1 DEF EntriesUpTo
    <3> QED BY <3>2 DEF MetaTypes, TurnsFit, CountsAreOfTurns, ChatsAreTyped, MapsUpTo
  <2>2. /\ named < MaxNames /\ named' = named + 1 /\ files' = files \cup {<<Engine, c>>}
        /\ Change(m) /\ Rewrite(c)
        /\ UNCHANGED <<inHand, disk, unsaved, running, tracker, deleting, turns>>
    BY <1>1 DEF SetMeta
  <2> HIDE DEF m
  <2>3. map' \in MapsUpTo(turns) /\ queue' \in Seq(MapsUpTo(turns))
    BY <1>t, <2>1, <2>2, ChangeTyped
  <2>4. rewritten' \subseteq Chats
    BY <2>2, RewriteTyped
  <2>5. named' \in 0 .. MaxNames /\ files' \subseteq {"cli", "native"} \X Chats
    BY <1>t, <2>2, MetaAssumption DEF MetaTypes, TurnsFit, CountsAreOfTurns, ChatsAreTyped
  <2> QED BY <2>2, <2>3, <2>4, <2>5 DEF MetaTypes, TurnsFit, CountsAreOfTurns, ChatsAreTyped
<1>2. ASSUME NEW c \in Chats, TurnBegins(c) PROVE MetaTypes'
  <2>1. /\ c \notin running /\ turns + Cardinality(running) < MaxTurns
        /\ running' = running \cup {c}
        /\ UNCHANGED <<map, queue, inHand, disk, unsaved, files, tracker, deleting, rewritten,
                       turns, named>>
    BY <1>2 DEF TurnBegins
  <2>2. IsFiniteSet(running') /\ Cardinality(running') = Cardinality(running) + 1
        /\ Cardinality(running) \in Nat
    BY <2>1, FS_AddElement, FS_CardinalityType DEF MetaTypes, TurnsFit, CountsAreOfTurns, ChatsAreTyped
  <2>3. turns + Cardinality(running') <= MaxTurns /\ running' \subseteq Chats
    BY <1>t, <2>1, <2>2, MetaAssumption DEF MetaTypes, TurnsFit, CountsAreOfTurns, ChatsAreTyped
  <2> QED BY <2>1, <2>2, <2>3 DEF MetaTypes, TurnsFit, CountsAreOfTurns, ChatsAreTyped
<1>3. ASSUME NEW c \in Chats, NEW model \in Models, AssistantLine(c, model) PROVE MetaTypes'
  <2>1. /\ tracker' = [tracker EXCEPT ![c] = model]
        /\ UNCHANGED <<map, queue, inHand, disk, unsaved, files, running, deleting, rewritten,
                       turns, named>>
    BY <1>3 DEF AssistantLine
  <2>2. tracker' \in [Chats -> AllModels]
    BY <2>1 DEF MetaTypes, TurnsFit, CountsAreOfTurns, ChatsAreTyped, AllModels
  <2> QED BY <2>1, <2>2 DEF MetaTypes, TurnsFit, CountsAreOfTurns, ChatsAreTyped
<1>4. ASSUME NEW c \in Chats, SaveTranscript(c) PROVE MetaTypes'
  <2>1. /\ files' = files \cup {<<Engine, c>>} /\ Rewrite(c)
        /\ UNCHANGED <<map, queue, inHand, disk, unsaved, running, tracker, deleting, turns, named>>
    BY <1>4 DEF SaveTranscript
  <2>2. rewritten' \subseteq Chats /\ files' \subseteq {"cli", "native"} \X Chats
    BY <1>t, <2>1, RewriteTyped DEF MetaTypes, TurnsFit, CountsAreOfTurns, ChatsAreTyped
  <2> QED BY <2>1, <2>2 DEF MetaTypes, TurnsFit, CountsAreOfTurns, ChatsAreTyped
<1>e. ASSUME NEW c \in running
      PROVE  /\ IsFiniteSet(running \ {c}) /\ Cardinality(running \ {c}) \in Nat
             /\ turns + 1 + Cardinality(running \ {c}) <= MaxTurns
  <2>1. IsFiniteSet(running) /\ Cardinality(running) \in Nat
    BY FS_CardinalityType DEF MetaTypes, TurnsFit, CountsAreOfTurns, ChatsAreTyped
  <2>2. IsFiniteSet(running \ {c}) /\ Cardinality(running \ {c}) = Cardinality(running) - 1
        /\ Cardinality(running \ {c}) \in Nat
    BY <2>1, FS_RemoveElement, FS_CardinalityType
  <2> QED BY <1>t, <2>1, <2>2, MetaAssumption DEF MetaTypes, TurnsFit, CountsAreOfTurns, ChatsAreTyped
<1>5. ASSUME NEW c \in Chats, NEW model \in AllModels, ResultLine(c, model) PROVE MetaTypes'
  <2> DEFINE used == IF model = NoModel THEN tracker[c] ELSE model
             m == [map EXCEPT ![c] = RecordTurn(@, used)]
             n == turns + 1
  <2>1. n \in Nat /\ turns <= n
    BY <1>t
  <2>2. m \in MapsUpTo(n)
    <3> DEFINE e == map[c]
               counts == [k \in Models |-> IF k = used THEN e.models[k] + 1 ELSE e.models[k]]
    <3>1. e \in EntriesUpTo(turns) /\ e.models \in [Models -> 0 .. turns] /\ e.total \in 0 .. turns
      BY DEF MetaTypes, TurnsFit, CountsAreOfTurns, ChatsAreTyped, MapsUpTo, EntriesUpTo
    <3>2. counts \in [Models -> 0 .. n] /\ e.total + 1 \in 0 .. n
      <4>1. \A k \in Models : e.models[k] \in 0 .. n /\ e.models[k] + 1 \in 0 .. n
        BY <1>t, <3>1
      <4> HIDE DEF used
      <4> QED BY <1>t, <3>1, <4>1
    <3>3. RecordTurn(e, used) = [e EXCEPT !.total = e.total + 1, !.models = counts]
      BY DEF RecordTurn
    <3> HIDE DEF counts
    <3>4. RecordTurn(e, used) \in EntriesUpTo(n)
      BY <3>1, <3>2, <3>3 DEF EntriesUpTo
    <3>5. map \in MapsUpTo(n) /\ m = [map EXCEPT ![c] = RecordTurn(e, used)]
      BY <1>t, <2>1, MapsGrow DEF MetaTypes, TurnsFit, CountsAreOfTurns, ChatsAreTyped
    <3> QED BY <3>4, <3>5 DEF MapsUpTo
  <2>3. /\ c \in running /\ running' = running \ {c} /\ turns' = n /\ Change(m) /\ Rewrite(c)
        /\ UNCHANGED <<inHand, disk, unsaved, files, tracker, deleting, named>>
    BY <1>5 DEF ResultLine
  <2> HIDE DEF m
  <2>4. map' \in MapsUpTo(n) /\ queue' \in Seq(MapsUpTo(n))
    BY <2>1, <2>2, <2>3, ChangeTyped
  <2>5. rewritten' \subseteq Chats
    BY <2>3, RewriteTyped
  <2>6. IsFiniteSet(running') /\ n + Cardinality(running') <= MaxTurns /\ running' \subseteq Chats
    BY <1>e, <2>3 DEF MetaTypes, TurnsFit, CountsAreOfTurns, ChatsAreTyped
  <2>7. disk' \in MapsUpTo(n) /\ (inHand' = <<>> \/ \E x \in MapsUpTo(n) : inHand' = <<x>>)
    BY <1>t, <2>1, <2>3, MapsGrow DEF MetaTypes, TurnsFit, CountsAreOfTurns, ChatsAreTyped
  <2> HIDE DEF n
  <2> QED BY <2>1, <2>3, <2>4, <2>5, <2>6, <2>7 DEF MetaTypes, TurnsFit, CountsAreOfTurns, ChatsAreTyped
<1>6. ASSUME NEW c \in Chats, TurnLeavesNothing(c) PROVE MetaTypes'
  <2>1. /\ c \in running /\ running' = running \ {c}
        /\ UNCHANGED <<map, queue, inHand, disk, unsaved, files, tracker, deleting, rewritten,
                       turns, named>>
    BY <1>6 DEF TurnLeavesNothing
  <2>2. IsFiniteSet(running') /\ turns + 1 + Cardinality(running') <= MaxTurns
        /\ Cardinality(running') \in Nat
    BY <1>e, <2>1
  <2>3. turns + Cardinality(running') <= MaxTurns
    BY <1>t, <2>2
  <2>4. running' \subseteq Chats
    BY <2>1 DEF MetaTypes, ChatsAreTyped
  <2> QED BY <2>1, <2>2, <2>3, <2>4 DEF MetaTypes, TurnsFit, CountsAreOfTurns, ChatsAreTyped
<1>7. ASSUME NEW c \in Chats, DeleteChat(c) PROVE MetaTypes'
  BY <1>7 DEF DeleteChat, MetaTypes, TurnsFit, CountsAreOfTurns, ChatsAreTyped
<1>8. ASSUME NEW c \in Chats, DeleteFiles(c) PROVE MetaTypes'
  <2>1. /\ deleting' = [deleting EXCEPT ![c] = "meta"]
        /\ files' \subseteq files /\ rewritten' \subseteq rewritten \cup {c}
        /\ UNCHANGED <<map, queue, inHand, disk, unsaved, running, tracker, turns, named>>
    BY <1>8 DEF DeleteFiles
  <2> QED BY <2>1 DEF MetaTypes, TurnsFit, CountsAreOfTurns, ChatsAreTyped
<1>9. ASSUME NEW c \in Chats, DeleteMeta(c) PROVE MetaTypes'
  <2> DEFINE m == [map EXCEPT ![c] = NoEntry]
  <2>1. m \in MapsUpTo(turns)
    BY <1>t, NoEntryFits DEF MetaTypes, TurnsFit, CountsAreOfTurns, ChatsAreTyped, MapsUpTo
  <2>2. /\ deleting' = [deleting EXCEPT ![c] = "done"]
        /\ Change(m) \/ UNCHANGED <<map, queue>>
        /\ UNCHANGED <<inHand, disk, unsaved, files, running, tracker, rewritten, turns, named>>
    BY <1>9 DEF DeleteMeta
  <2> HIDE DEF m
  <2>3. map' \in MapsUpTo(turns) /\ queue' \in Seq(MapsUpTo(turns))
    BY <1>t, <2>1, <2>2, ChangeTyped DEF MetaTypes, TurnsFit, CountsAreOfTurns, ChatsAreTyped
  <2>4. deleting' \in [Chats -> {"no", "files", "meta", "done"}]
    BY <2>2 DEF MetaTypes, TurnsFit, CountsAreOfTurns, ChatsAreTyped
  <2> QED BY <2>2, <2>3, <2>4 DEF MetaTypes, TurnsFit, CountsAreOfTurns, ChatsAreTyped
<1>10. CASE WriterTakes
  <2>1. /\ queue # <<>> /\ inHand' = <<queue[Len(queue)]>> /\ queue' = <<>>
        /\ UNCHANGED <<map, disk, unsaved, files, running, tracker, deleting, rewritten, turns,
                       named>>
    BY <1>10 DEF WriterTakes, Last
  <2>2. queue[Len(queue)] \in MapsUpTo(turns) /\ <<>> \in Seq(MapsUpTo(turns))
    BY <2>1 DEF MetaTypes, TurnsFit, CountsAreOfTurns, ChatsAreTyped
  <2> QED BY <2>1, <2>2 DEF MetaTypes, TurnsFit, CountsAreOfTurns, ChatsAreTyped
<1>11. CASE WriterWrites
  <2>1. /\ inHand # <<>> /\ inHand' = <<>> /\ disk' \in {disk, inHand[1]} /\ unsaved' \in BOOLEAN
        /\ UNCHANGED <<map, queue, files, running, tracker, deleting, rewritten, turns, named>>
    BY <1>11 DEF WriterWrites
  <2>2. inHand[1] \in MapsUpTo(turns)
    BY <2>1 DEF MetaTypes, TurnsFit, CountsAreOfTurns, ChatsAreTyped
  <2> QED BY <2>1, <2>2 DEF MetaTypes, TurnsFit, CountsAreOfTurns, ChatsAreTyped
<1>12. CASE ServerRestarts
  <2>1. IsFiniteSet({}) /\ Cardinality({}) = 0 /\ <<>> \in Seq(MapsUpTo(turns))
    BY FS_EmptySet
  <2>2. turns <= MaxTurns
    BY <1>t, FS_CardinalityType, MetaAssumption DEF MetaTypes, TurnsFit, CountsAreOfTurns, ChatsAreTyped
  <2>3. /\ map' = disk /\ queue' = <<>> /\ inHand' = <<>> /\ unsaved' = FALSE /\ running' = {}
        /\ tracker' = [c \in Chats |-> NoModel] /\ deleting' = [c \in Chats |-> "no"]
        /\ rewritten' = {} /\ UNCHANGED <<disk, files, turns, named>>
    BY <1>12 DEF ServerRestarts
  <2>4. TurnsFit'
    BY <1>t, <2>1, <2>2, <2>3 DEF MetaTypes, TurnsFit
  <2>5. CountsAreOfTurns'
    BY <2>1, <2>3 DEF MetaTypes, CountsAreOfTurns
  <2>6. ChatsAreTyped'
    BY <2>3 DEF MetaTypes, ChatsAreTyped, AllModels
  <2> QED BY <2>4, <2>5, <2>6 DEF MetaTypes
<1>13. CASE UNCHANGED metaVars
  BY <1>13 DEF metaVars, MetaTypes, TurnsFit, CountsAreOfTurns, ChatsAreTyped
<1> QED
  BY <1>1, <1>2, <1>3, <1>4, <1>5, <1>6, <1>7, <1>8, <1>9, <1>10, <1>11, <1>12, <1>13 DEF MetaNext

LEMMA MetaTyped == MetaTypes => MetaTypeOK
<1> SUFFICES ASSUME MetaTypes PROVE MetaTypeOK
  OBVIOUS
<1>1. turns \in 0 .. MaxTurns
  BY FS_CardinalityType, MetaAssumption DEF MetaTypes, TurnsFit, CountsAreOfTurns, ChatsAreTyped
<1>2. /\ \A m \in MapsUpTo(turns) : m \in Maps
      /\ \A s \in Seq(MapsUpTo(turns)) : s \in Seq(Maps)
  <2>1. MapsUpTo(MaxTurns) = Maps
    BY DEF MapsUpTo, EntriesUpTo, Maps, Entries
  <2> QED BY <1>1, <2>1, MapsGrow, MetaAssumption
<1>3. inHand = <<>> \/ \E m \in Maps : inHand = <<m>>
  BY <1>2 DEF MetaTypes, CountsAreOfTurns
<1>4. Len(inHand) <= 1 /\ Range(inHand) \subseteq Maps
  <2>1. DOMAIN inHand = 1 .. Len(inHand) /\ Len(inHand) \in {0, 1}
        /\ \A i \in DOMAIN inHand : inHand[i] \in Maps
    <3>1. CASE inHand = <<>>
      BY <3>1
    <3>2. ASSUME NEW m \in Maps, inHand = <<m>> PROVE  /\ DOMAIN inHand = 1 .. Len(inHand) /\ Len(inHand) \in {0, 1}
                 /\ \A i \in DOMAIN inHand : inHand[i] \in Maps
      <4>1. Len(inHand) = 1 /\ DOMAIN inHand = {1} /\ inHand[1] = m
        BY <3>2
      <4> HIDE DEF Maps
      <4> QED BY <4>1
    <3> QED BY <1>3, <3>1, <3>2
  <2> QED BY <2>1 DEF Range
<1> QED BY <1>1, <1>2, <1>4 DEF MetaTypes, TurnsFit, CountsAreOfTurns, ChatsAreTyped, MetaTypeOK

-----------------------------------------------------------------------------
(* The MCP client's types.                                                 *)

PipesAreTyped ==
  /\ phase \in {"init", "list", "up", "skipped"}
  /\ writer \in SUBSET McpCalls /\ spoken \in 0 .. MaxLines
  /\ inOpen \in BOOLEAN /\ outOpen \in BOOLEAN /\ routing \in BOOLEAN

McpTypes == ServeInv /\ RequestsKnown /\ AnswersRead /\ PipesAreTyped

LEMMA McpTypesInit == McpInit => McpTypes
<1> SUFFICES ASSUME McpInit PROVE McpTypes
  OBVIOUS
<1>1. /\ phase = "init" /\ writer = {} /\ spoken = 0
      /\ inOpen = TRUE /\ outOpen = TRUE /\ routing = FALSE
  BY DEF McpInit
<1>2. PipesAreTyped
  <2>1. 0 \in 0 .. MaxLines /\ {} \in SUBSET McpCalls
    BY McpAssumption
  <2> QED BY <1>1, <2>1 DEF PipesAreTyped
<1> QED BY <1>2, ServeInvInit DEF McpTypes

LEMMA McpTypesNext == McpTypes /\ [McpNext]_mcpVars => McpTypes'
<1> SUFFICES ASSUME PipesAreTyped, [McpNext]_mcpVars PROVE PipesAreTyped'
  BY ServeInvNext, RequestsKnownNext, AnswersReadNext DEF McpTypes
<1> USE DEF wireVars
<1>n. MaxLines \in Nat
  BY McpAssumption
<1>1. CASE HandshakeLine
  <2>1. /\ phase' \in {phase, "list", "up"} /\ routing' \in {routing, TRUE}
        /\ UNCHANGED <<writer, spoken, inOpen, outOpen>>
    BY <1>1 DEF HandshakeLine
  <2> QED BY <2>1 DEF PipesAreTyped
<1>2. CASE HandshakeFails \/ ServerDies
  <2>1. /\ phase' \in {phase, "skipped"} /\ inOpen' = FALSE /\ outOpen' = FALSE
        /\ UNCHANGED <<writer, spoken, routing>>
    BY <1>2 DEF HandshakeFails, ServerDies
  <2> QED BY <2>1 DEF PipesAreTyped
<1>3. ASSUME NEW c \in McpCalls,
             CallNotFound(c) \/ Register(c) \/ LockStdin(c) \/ WriteLine(c) \/ WriteFails(c)
               \/ TakeAnswer(c) \/ TimeOut(c) \/ GiveUp(c)
      PROVE  PipesAreTyped'
  <2>1. /\ writer' \in {writer, {}, {c}}
        /\ UNCHANGED <<phase, spoken, inOpen, outOpen, routing>>
    BY <1>3 DEF CallNotFound, Register, LockStdin, WriteLine, WriteFails, TakeAnswer, TimeOut, GiveUp
  <2> QED BY <2>1 DEF PipesAreTyped
<1>4. CASE Route \/ ReaderEnds \/ ServerReads \/ ServerClosesOut
  <2>1. /\ outOpen' \in {outOpen, FALSE} /\ routing' \in {routing, FALSE}
        /\ UNCHANGED <<phase, writer, spoken, inOpen>>
    BY <1>4 DEF Route, ReaderEnds, ServerReads, ServerClosesOut
  <2> QED BY <2>1 DEF PipesAreTyped
<1>5. ASSUME NEW line, ServerSays(line) PROVE PipesAreTyped'
  <2>1. /\ spoken < MaxLines /\ spoken' = spoken + 1
        /\ UNCHANGED <<phase, writer, inOpen, outOpen, routing>>
    BY <1>5 DEF ServerSays
  <2> QED BY <1>n, <2>1 DEF PipesAreTyped
<1>6. CASE UNCHANGED mcpVars
  BY <1>6 DEF mcpVars, PipesAreTyped
<1> QED
  BY <1>1, <1>2, <1>3, <1>4, <1>5, <1>6 DEF McpNext

LEMMA McpTyped == McpTypes => McpTypeOK
<1> SUFFICES ASSUME McpTypes PROVE McpTypeOK
  OBVIOUS
<1>t. ServeTypes /\ IdsAreOwn /\ WaitersOwn /\ RequestsKnown /\ AnswersRead /\ PipesAreTyped
  BY DEF McpTypes, ServeInv
<1>1. \A i \in DOMAIN waiters : i \in 3 .. next_id /\ waiters[i] \in McpCalls
  BY <1>t DEF WaitersOwn, IdsAreOwn
<1>2. DOMAIN waiters \subseteq 3 .. next_id /\ Range(waiters) \subseteq McpCalls
  BY <1>1 DEF Range
<1>3. {inOpen, outOpen, routing} \subseteq BOOLEAN
  BY <1>t, Zenon DEF PipesAreTyped
<1>4. callAt \in [McpCalls -> {"none", "registered", "writing", "waiting", "late", "done"}]
  <2>1. InFlight \cup {"none", "done"} = {"none", "registered", "writing", "waiting", "late", "done"}
    BY DEF InFlight
  <2> QED BY <1>t, <2>1 DEF ServeTypes
<1>5. toServer \in Seq(1 .. next_id) /\ lines \in Seq(McpLines)
  BY <1>t DEF RequestsKnown, AnswersRead
<1> QED
  BY <1>t, <1>2, <1>3, <1>4, <1>5 DEF ServeTypes, RequestsKnown, PipesAreTyped, McpTypeOK

-----------------------------------------------------------------------------
(* The types of the adapter to Gemini and of the readers.                  *)

LEMMA GeminiTyped == GeminiInv => GeminiTypeOK
<1> SUFFICES ASSUME GeminiInv PROVE GeminiTypeOK
  OBVIOUS
<1>1. talk \in Seq(Messages) /\ blocks \in Seq(StreamBlocks)
  BY DEF GeminiInv, BlocksFit
<1>2. ASSUME NEW i \in DOMAIN talk
      PROVE  /\ talk[i].role \in {"user", "assistant"}
             /\ \A j \in DOMAIN talk[i].content : talk[i].content[j] \in BlockSet
  <2>1. talk[i] \in Messages
    BY <1>1
  <2>2. talk[i].role \in {"user", "assistant"} /\ talk[i].content \in Seq(BlockSet)
    BY <2>1 DEF Messages
  <2> HIDE DEF BlockSet
  <2> QED BY <2>2
<1>3. ASSUME NEW i \in DOMAIN blocks PROVE blocks[i].kind \in {"text", "thinking", "tool_use"}
  <2>1. blocks[i] \in StreamBlocks
    BY <1>1
  <2> QED BY <2>1 DEF StreamBlocks
<1> QED BY <1>2, <1>3 DEF GeminiInv, GeminiTypeOK

\* The clock, and the parts of the entry.
HistoryTypes ==
  /\ LoggedInv /\ SummaryInv
  /\ clock <= LastModified /\ twice \in BOOLEAN
  /\ DOMAIN cache = {"mtime", "summary"}

LEMMA HistoryTypesInit == HistoryInit => HistoryTypes
<1> SUFFICES ASSUME HistoryInit PROVE HistoryTypes
  OBVIOUS
<1>1. clock = 1 /\ twice = FALSE /\ cache = [mtime |-> 0, summary |-> NoSummary]
  BY Zenon DEF HistoryInit
<1>2. clock <= LastModified
  BY <1>1, HistoryAssumption
<1>4. twice \in BOOLEAN
  BY <1>1, Zenon
<1>3. DOMAIN cache = {"mtime", "summary"}
  BY <1>1
<1> QED
  BY <1>2, <1>3, <1>4, LoggedInvInit, SummaryInvInit DEF HistoryTypes

LEMMA HistoryTypesNext == HistoryTypes /\ [LogNext \/ ListNext]_historyVars => HistoryTypes'
<1> SUFFICES ASSUME HistoryTypes, [LogNext \/ ListNext]_historyVars PROVE HistoryTypes'
  OBVIOUS
<1>1. LoggedInv' /\ SummaryInv'
  BY LoggedInvNext, SummaryInvNext DEF HistoryTypes
<1>2. CASE Modify
  BY <1>1, <1>2 DEF Modify, HistoryTypes
<1>3. CASE TickOfFiles
  <2>1. clock < LastModified /\ clock' = clock + 1 /\ UNCHANGED <<twice, cache>> /\ clock \in Nat
        /\ LastModified \in Nat
    BY <1>3, HistoryAssumption DEF TickOfFiles, HistoryTypes, SummaryInv
  <2> QED BY <1>1, <2>1 DEF HistoryTypes
<1>4. CASE UNCHANGED <<clock, twice, cache>>
  BY <1>1, <1>4 DEF HistoryTypes
<1>5. ASSUME NEW r \in Listers, ListStore(r) PROVE HistoryTypes'
  BY <1>1, <1>5 DEF ListStore, ListGoes, HistoryTypes
<1>6. ASSUME NEW r \in Listers, ListStep(r) PROVE HistoryTypes'
  <2>1. ListStore(r) \/ UNCHANGED <<clock, twice, cache>>
    BY <1>6 DEF ListStep, ListStat, ListHit, ListMiss, ListRead, ListGoes
  <2> QED BY <1>4, <1>5, <2>1
<1>7. Modify \/ TickOfFiles \/ (\E r \in Listers : ListStep(r)) \/ UNCHANGED <<clock, twice, cache>>
  BY Zenon DEF LogNext, ListNext, AppendLine, CompleteLine, historyVars
<1> QED BY <1>2, <1>3, <1>4, <1>6, <1>7

LEMMA HistoryTyped == HistoryTypes => HistoryTypeOK
<1> SUFFICES ASSUME HistoryTypes PROVE HistoryTypeOK
  OBVIOUS
<1>1. /\ clock \in 0 .. LastModified /\ mtime \in 0 .. LastModified
      /\ statOf \in [Listers -> 0 .. LastModified]
  <2>1. LastModified \in Nat /\ clock \in Nat /\ mtime \in Nat /\ mtime <= clock
        /\ clock <= LastModified
    BY HistoryAssumption DEF HistoryTypes, SummaryInv
  <2>2. statOf \in [Listers -> Nat] /\ \A r \in Listers : statOf[r] <= mtime
    BY DEF HistoryTypes, SummaryInv
  <2> QED BY <2>1, <2>2
<1>2. {clock, mtime} \subseteq 0 .. LastModified
  BY <1>1
<1>3. listAt \in [Listers -> {"idle", "looking", "reading", "storing"}]
  BY DEF HistoryTypes, SummaryInv
<1> QED
  BY <1>1, <1>2, <1>3 DEF HistoryTypes, LoggedInv, HistoryTypeOK

-----------------------------------------------------------------------------
(* The parts together.                                                     *)

PartsAreTyped ==
  /\ part \in Parts
  /\ PermissionTypeOK /\ PartyTypes /\ LimitsTypeOK /\ TokensTypes /\ SeatsTypes /\ MetaTypes
  /\ McpTypes /\ GuestTypes /\ GeminiInv /\ HistoryTypes /\ ShellTypes

LEMMA PartsAreTypedInit == Init => PartsAreTyped
BY PermissionTypeInit, PartyTypesInit, LimitsTypeInit, TokensTypesInit, SeatsTypesInit,
   MetaTypesInit, McpTypesInit, GuestTypesInit, GeminiInvInit, HistoryTypesInit, ShellTypesInit,
   Zenon DEF Init, PartsAreTyped

\* A step is one of a single part.
LEMMA PartsAreTypedNext == PartsAreTyped /\ [Next]_vars => PartsAreTyped'
<1> SUFFICES ASSUME PartsAreTyped, [Next]_vars PROVE PartsAreTyped'
  OBVIOUS
<1>1. /\ part' = part
      /\ [PermissionNext]_permissionVars /\ [PartyNext]_partyVars /\ [LimitsNext]_limitVars
      /\ [TokensNext]_tokenVars /\ [SeatsNext]_seatVars /\ [MetaNext]_metaVars
      /\ [McpNext]_mcpVars /\ [GuestNext]_guestVars /\ [GeminiNext]_geminiVars
      /\ [LogNext \/ ListNext]_historyVars /\ [ShellNext]_shellVars
  BY Zenon DEF Next, vars, aVars, bVars, LimitsNext
<1>2. PermissionTypeOK' /\ LimitsTypeOK'
  BY <1>1, PermissionTypeNext, LimitsTypeNext, Zenon DEF PartsAreTyped
<1>3. PartyTypes'
  BY <1>1, NamesInvNext, TalkInvNext, NamesAreNamesNext, PostsAreKnownNext, Zenon
  DEF PartsAreTyped, PartyTypes
<1>4. TokensTypes' /\ SeatsTypes' /\ MetaTypes' /\ McpTypes'
  BY <1>1, TokensTypesNext, SeatsTypesNext, MetaTypesNext, McpTypesNext, Zenon DEF PartsAreTyped
<1>5. GuestTypes' /\ GeminiInv' /\ HistoryTypes' /\ ShellTypes'
  BY <1>1, GuestTypesNext, GeminiInvNext, HistoryTypesNext, ShellTypesNext, Zenon DEF PartsAreTyped
<1> QED
  BY <1>1, <1>2, <1>3, <1>4, <1>5, Zenon DEF PartsAreTyped

\* For all values of all constants, every variable of every service has its type in every
\* state: what is queued, counted, stored and sent stays within its bound.
THEOREM TypeCorrect == Spec => []TypeOK
<1>1. PartsAreTyped => TypeOK
  BY PartyTyped, TokensTyped, SeatsTyped, MetaTyped, McpTyped, GuestTyped, GeminiTyped,
     HistoryTyped, ShellTyped, Zenon DEF PartsAreTyped, TypeOK
<1> QED
  BY PartsAreTypedInit, PartsAreTypedNext, <1>1, PTL DEF Spec
=============================================================================
