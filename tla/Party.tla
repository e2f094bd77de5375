-------------------------------- MODULE Party --------------------------------
(***************************************************************************)
(* The side chat of the whole server (PartyHub in src/src/session.rs) and  *)
(* the part of a socket that uses it (src/src/ws.rs): display names, the   *)
(* bounded log that a newcomer is shown, the ring that carries what is     *)
(* said meanwhile, and the two halves of post.                             *)
(***************************************************************************)
EXTENDS Integers, Sequences, FiniteSets, Functions

CONSTANTS Guests,     \* sockets
          Wishes,     \* names that people ask for: a word and the numbers after it
          NoName,
          LogMax,     \* PARTY_LOG_MAX
          RingCap,    \* BROADCAST_CAP
          MaxPosts,   \* bound: messages said in a run
          MaxAuto     \* bound: names "guest n" given in a run

\* The sockets are finitely many, and a name that is asked for is a sequence.
ASSUME PartyAssumption ==
  /\ LogMax \in Nat \ {0} /\ RingCap \in Nat \ {0} /\ {MaxPosts, MaxAuto} \subseteq Nat
  /\ NoName \notin Wishes
  /\ IsFiniteSet(Guests)
  /\ \A w \in Wishes : /\ Len(w) \in Nat \ {0} /\ w = [i \in 1 .. Len(w) |-> w[i]]
                        /\ \A i \in 2 .. Len(w) : w[i] \in Nat

VARIABLES
  place,     \* place[g]: "off", "joining", "on", or "posting": between log and ring
  own,       \* own[g]: Conn.name of the socket, NoName if it has none
  names,     \* names[g]: the name the hub holds for it
  guestSeq,  \* GUEST_SEQ
  log,       \* PartyHub.log: the newest messages
  ring,      \* every message sent on the ring, in order; of it RingCap are kept
  posted,    \* messages said so far
  saying,    \* saying[g]: the message g has logged and not yet sent, or 0
  next,      \* next[g]: the place of its receiver on the ring
  heard,     \* heard[g]: the messages its client has got since it connected
  lagged     \* lagged[g]: its receiver has skipped messages

nameVars == <<own, names, guestSeq>>
chatVars == <<log, ring, posted, saying, next, heard, lagged>>
partyVars == <<place, nameVars, chatVars>>

PartyInit ==
  /\ place = [g \in Guests |-> "off"]
  /\ own = [g \in Guests |-> NoName]
  /\ names = [g \in Guests |-> NoName]
  /\ guestSeq = 1
  /\ log = <<>> /\ ring = <<>> /\ posted = 0
  /\ saying = [g \in Guests |-> 0]
  /\ next = [g \in Guests |-> 1]
  /\ heard = [g \in Guests |-> {}]
  /\ lagged = [g \in Guests |-> FALSE]

-----------------------------------------------------------------------------
(* Names.                                                                  *)

Taken(g, name) == \E h \in Guests \ {g} : names[h] = name

\* The name asked for, or its first numbered variant that nobody else holds.
Unique(g, wanted) ==
  IF ~Taken(g, wanted) THEN wanted
  ELSE LET free == {i \in 2 .. Cardinality(Guests) + 1 : ~Taken(g, Append(wanted, i))}
       IN Append(wanted, CHOOSE i \in free : \A j \in free : i <= j)

\* Mutant: a socket that renames itself keeps its first name in the hub.
ClaimOnce(g, wanted) ==
  LET name == Unique(g, wanted) IN
    /\ names' = [names EXCEPT ![g] = IF @ = NoName THEN name ELSE @]
    /\ own' = [own EXCEPT ![g] = name]

\* claim_name, and the socket's own copy of what it was given.
ClaimName(g, wanted) ==
  LET name == Unique(g, wanted) IN
    /\ names' = [names EXCEPT ![g] = name]
    /\ own' = [own EXCEPT ![g] = name]

SetIdentity(g, wanted) ==
  /\ place[g] = "on"
  /\ ClaimName(g, wanted)
  /\ UNCHANGED <<place, guestSeq, chatVars>>

\* An empty name: the socket forgets its name, the hub does not.
ClearIdentity(g) ==
  /\ place[g] = "on"
  /\ own' = [own EXCEPT ![g] = NoName]
  /\ UNCHANGED <<place, names, guestSeq, chatVars>>

\* resolve_name: the name it has, or the next "guest n".
ResolveName(g) ==
  IF own[g] # NoName
  THEN UNCHANGED nameVars
  ELSE /\ guestSeq <= MaxAuto
       /\ ClaimName(g, <<"guest", guestSeq>>)
       /\ guestSeq' = guestSeq + 1

-----------------------------------------------------------------------------
(* Talk.                                                                   *)

\* A socket opens: first its receiver, then the log.
Subscribe(g) ==
  /\ place[g] = "off"
  /\ place' = [place EXCEPT ![g] = "joining"]
  /\ next' = [next EXCEPT ![g] = Len(ring) + 1]
  /\ heard' = [heard EXCEPT ![g] = {}]
  /\ lagged' = [lagged EXCEPT ![g] = FALSE]
  /\ UNCHANGED <<nameVars, log, ring, posted, saying>>

History(g) ==
  /\ place[g] = "joining"
  /\ place' = [place EXCEPT ![g] = "on"]
  /\ heard' = [heard EXCEPT ![g] = Range(log)]
  /\ UNCHANGED <<nameVars, log, ring, posted, saying, next, lagged>>

\* Mutant: the log is not trimmed.
KeepAll(l) == l
\* PartyChat: the message enters the log, which keeps the newest ...
Keep(l) == IF Len(l) > LogMax THEN Tail(l) ELSE l
Post(g) ==
  /\ place[g] = "on" /\ posted < MaxPosts
  /\ ResolveName(g)
  /\ posted' = posted + 1
  /\ log' = Keep(Append(log, posted + 1))
  /\ saying' = [saying EXCEPT ![g] = posted + 1]
  /\ place' = [place EXCEPT ![g] = "posting"]
  /\ UNCHANGED <<ring, next, heard, lagged>>

\* Mutant: what is sent is the newest message of the log.
PostSendNewest(g) ==
  /\ place[g] = "posting"
  /\ ring' = Append(ring, log[Len(log)])
  /\ saying' = [saying EXCEPT ![g] = 0]
  /\ place' = [place EXCEPT ![g] = "on"]
  /\ UNCHANGED <<nameVars, log, posted, next, heard, lagged>>

\* ... and then, the lock released, the ring: two that post may overtake each other.
PostSend(g) ==
  /\ place[g] = "posting"
  /\ ring' = Append(ring, saying[g])
  /\ saying' = [saying EXCEPT ![g] = 0]
  /\ place' = [place EXCEPT ![g] = "on"]
  /\ UNCHANGED <<nameVars, log, posted, next, heard, lagged>>

OldestOnRing == IF Len(ring) > RingCap THEN Len(ring) - RingCap + 1 ELSE 1

Hear(g) ==
  /\ place[g] = "on"
  /\ next[g] >= OldestOnRing /\ next[g] <= Len(ring)
  /\ heard' = [heard EXCEPT ![g] = @ \cup {ring[next[g]]}]
  /\ next' = [next EXCEPT ![g] = @ + 1]
  /\ UNCHANGED <<place, nameVars, log, ring, posted, saying, lagged>>

\* A receiver that the ring has overtaken goes on with the oldest message there is.
HearLagged(g) ==
  /\ place[g] = "on"
  /\ next[g] < OldestOnRing
  /\ next' = [next EXCEPT ![g] = OldestOnRing]
  /\ lagged' = [lagged EXCEPT ![g] = TRUE]
  /\ UNCHANGED <<place, nameVars, log, ring, posted, saying, heard>>

\* The socket closes; its name is free for the next one.
Leave(g) ==
  /\ place[g] = "on"
  /\ place' = [place EXCEPT ![g] = "off"]
  /\ own' = [own EXCEPT ![g] = NoName]
  /\ names' = [names EXCEPT ![g] = NoName]
  /\ UNCHANGED <<guestSeq, chatVars>>

PartyNext ==
  \E g \in Guests :
    \/ \E wanted \in Wishes : SetIdentity(g, wanted)
    \/ ClearIdentity(g)
    \/ Subscribe(g)
    \/ History(g)
    \/ Post(g)
    \/ PostSend(g)
    \/ Hear(g)
    \/ HearLagged(g)
    \/ Leave(g)

PartySpec == PartyInit /\ [][PartyNext]_partyVars

-----------------------------------------------------------------------------
Words == {"guest"} \cup {Head(w) : w \in Wishes}
IsName(n) == n = NoName \/ (Head(n) \in Words /\ Range(Tail(n)) \subseteq Nat)

PartyTypeOK ==
  /\ place \in [Guests -> {"off", "joining", "on", "posting"}]
  /\ \A g \in Guests : IsName(own[g]) /\ IsName(names[g])
  /\ guestSeq \in 1 .. MaxAuto + 1
  /\ Len(log) <= LogMax /\ Range(log) \subseteq 1 .. posted
  /\ posted \in 0 .. MaxPosts /\ saying \in [Guests -> 0 .. posted]
  /\ next \in [Guests -> 1 .. Len(ring) + 1]
  /\ heard \in [Guests -> SUBSET (1 .. posted)]
  /\ lagged \in [Guests -> BOOLEAN]

\* No two people are known by one name, whoever renames, clears a name, leaves, or
\* asks for a name that reads like another's numbered one or like a guest's.
NamesAreApart ==
  \A g, h \in Guests : g # h /\ own[g] # NoName => own[g] # own[h]

\* Who has read the whole ring and never lagged has got every message of the log but
\* those about to be sent: between log and ring nothing falls through, in whatever
\* order messages are logged and sent while somebody joins.
JoinedHearAll ==
  \A g \in Guests :
    place[g] \in {"on", "posting"} /\ next[g] = Len(ring) + 1 /\ ~lagged[g] =>
      Range(log) \ Range(saying) \subseteq heard[g]
=============================================================================
