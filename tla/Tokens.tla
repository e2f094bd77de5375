------------------------------- MODULE Tokens -------------------------------
(***************************************************************************)
(* The broker's token store (src/src/broker.rs): one JSON file that the    *)
(* handlers of the server and the broker command, a process of its own,    *)
(* load, change and save without a lock; and the way it is saved           *)
(* (write_atomic in src/src/config.rs): truncate a temporary file that is  *)
(* named after the process, write it, rename it.                           *)
(***************************************************************************)
EXTENDS Naturals, FiniteSets, Functions

CONSTANTS TokenIds,     \* tokens, each with a label of its own
          Chargers,     \* handlers of /broker/v1/messages in the server
          Commands,     \* runs of the broker command
          MaxRequests,  \* the budget a token is minted with, 0 for none
          MaxCharges    \* bound: requests charged in a run

ASSUME TokensAssumption == MaxRequests \in Nat /\ MaxCharges \in Nat

VARIABLES
  file,       \* broker_tokens.json
  temp,       \* temp[p]: the temporary file of the process p
  job,        \* job[w]: what a writer does: <<>>, or an operation and its token
  step,       \* step[w]: how far its save has come
  draft,      \* draft[w]: the tokens it will save, with their counts
  handle,     \* handle[w]: where the file it has opened is now
  minted, revoked, expired,
  charged,    \* charged[t]: the requests authorize has let through
  raced,      \* two operations have overlapped, from load to save
  overlapped  \* two saves of one process have overlapped

tokenVars == <<file, temp, job, step, draft, handle, minted, revoked, expired,
               charged, raced, overlapped>>

Writers == Chargers \cup Commands
Processes == {"server"} \cup Commands
ProcessOf(w) == IF w \in Commands THEN w ELSE "server"

\* Mutant: the temporary file has one name for all.
OneTemp(w) == "server"
\* The temporary file a writer uses: its name ends with the process id.
TempOf(w) == ProcessOf(w)

\* What a file holds: the tokens and their counts, or nothing that parses.
AreCounts(c) == \E ts \in SUBSET TokenIds : c \in [ts -> Nat]
Whole(counts) == [state |-> "whole", used |-> counts]
NoTokens == [t \in {} |-> 0]
Holds(state) == [state |-> state, used |-> NoTokens]
IsContent(f) ==
  \/ f \in {Holds(s) : s \in {"absent", "empty", "torn"}}
  \/ AreCounts(f.used) /\ f = Whole(f.used)

TokensInit ==
  /\ file = Holds("absent")
  /\ temp = [p \in Processes |-> Holds("absent")]
  /\ job = [w \in Writers |-> <<>>]
  /\ step = [w \in Writers |-> "load"]
  /\ draft = [w \in Writers |-> NoTokens]
  /\ handle = [w \in Writers |-> "gone"]
  /\ minted = {} /\ revoked = {} /\ expired = {}
  /\ charged = [t \in TokenIds |-> 0]
  /\ raced = FALSE /\ overlapped = FALSE

-----------------------------------------------------------------------------
(* The operations: load, decide, and if there is something to save, save.  *)

\* load_tokens: a file that is missing or does not parse is an empty list.
Loaded == file.used

Begin(w, op, t, counts) ==
  /\ job' = [job EXCEPT ![w] = <<op, t>>]
  /\ step' = [step EXCEPT ![w] = "open"]
  /\ draft' = [draft EXCEPT ![w] = counts]
  /\ raced' = (raced \/ \E v \in Writers \ {w} : job[v] # <<>>)
  /\ UNCHANGED <<file, temp, handle, minted, revoked, expired, charged, overlapped>>

\* Mutant: the budget is compared one too late.
HonouredLate(t) ==
  /\ t \in DOMAIN Loaded /\ t \notin expired
  /\ MaxRequests # 0 => Loaded[t] <= MaxRequests

\* The token is in the store, has not expired and has budget left.
Honoured(t) ==
  /\ t \in DOMAIN Loaded /\ t \notin expired
  /\ MaxRequests # 0 => Loaded[t] < MaxRequests

\* Bound: requests charged, and being charged.
Charges ==
  SumFunction(charged) + Cardinality({w \in Chargers : job[w] # <<>>})

Authorize(h, t) ==
  /\ job[h] = <<>> /\ Honoured(t)
  /\ Charges < MaxCharges
  /\ Begin(h, "charge", t, [Loaded EXCEPT ![t] = @ + 1])

\* A token that is unknown, expired or used up is refused; nothing is saved.
RefuseToken(h, t) == job[h] = <<>> /\ ~Honoured(t) /\ UNCHANGED tokenVars

\* broker new: expired tokens are dropped on the way.
Mint(c, t) ==
  /\ job[c] = <<>> /\ t \notin minted
  /\ \A w \in Writers : job[w] # <<"mint", t>>
  /\ Begin(c, "mint", t, [u \in (DOMAIN Loaded \ expired) \cup {t} |->
                            IF u = t THEN 0 ELSE Loaded[u]])

\* broker revoke: it saves even if nothing carries the label.
Revoke(c, t) ==
  /\ job[c] = <<>> /\ t \in minted \ revoked
  /\ Begin(c, "revoke", t, Restrict(Loaded, DOMAIN Loaded \ {t}))

-----------------------------------------------------------------------------
(* write_atomic.                                                           *)

\* The save is over, whether or not it succeeded, and the operation returns.
Finish(w) ==
  /\ job' = [job EXCEPT ![w] = <<>>]
  /\ step' = [step EXCEPT ![w] = "load"]
  /\ draft' = [draft EXCEPT ![w] = NoTokens]
  /\ LET op == job[w][1]  t == job[w][2] IN
       /\ minted' = IF op = "mint" THEN minted \cup {t} ELSE minted
       /\ revoked' = IF op = "revoke" THEN revoked \cup {t} ELSE revoked
       /\ charged' = IF op = "charge" THEN [charged EXCEPT ![t] = @ + 1] ELSE charged

Saving(w) == step[w] \in {"write", "rename", "remove"}

\* The temporary file is created, or emptied if it is there.
Truncate(w) ==
  /\ step[w] = "open"
  /\ temp' = [temp EXCEPT ![TempOf(w)] = Holds("empty")]
  /\ handle' = [handle EXCEPT ![w] = "temp"]
  /\ step' = [step EXCEPT ![w] = "write"]
  /\ overlapped' = (overlapped \/ \E v \in Writers \ {w} :
                                     ProcessOf(v) = ProcessOf(w) /\ Saving(v))
  /\ UNCHANGED <<file, job, draft, minted, revoked, expired, charged, raced>>

\* Bytes written over those of another leave its tail, if that was longer.
Written(old, counts) == {Whole(counts)} \cup (IF old.state = "empty" THEN {} ELSE {Holds("torn")})

\* They go where the opened file is by now: another writer may have renamed it.
WriteOut(w) ==
  /\ step[w] = "write"
  /\ step' = [step EXCEPT ![w] = "rename"]
  /\ \/ /\ handle[w] = "temp"
        /\ \E c \in Written(temp[TempOf(w)], draft[w]) : temp' = [temp EXCEPT ![TempOf(w)] = c]
        /\ UNCHANGED file
     \/ /\ handle[w] = "file"
        /\ \E c \in Written(file, draft[w]) : file' = c
        /\ UNCHANGED temp
     \/ /\ handle[w] = "gone"
        /\ UNCHANGED <<file, temp>>
  /\ UNCHANGED <<job, draft, handle, minted, revoked, expired, charged, raced, overlapped>>

\* Where an opened file is once the temporary file of w has become the file.
Moved(v, w) ==
  CASE handle[v] = "file" -> "gone"
    [] handle[v] = "temp" /\ TempOf(v) = TempOf(w) -> "file"
    [] OTHER -> handle[v]

Rename(w) ==
  /\ step[w] = "rename" /\ temp[TempOf(w)].state # "absent"
  /\ file' = temp[TempOf(w)]
  /\ temp' = [temp EXCEPT ![TempOf(w)] = Holds("absent")]
  /\ handle' = [v \in Writers |-> IF v = w THEN "gone" ELSE Moved(v, w)]
  /\ Finish(w)
  /\ UNCHANGED <<expired, raced, overlapped>>

\* Another writer has renamed it away: the rename fails, ...
RenameFails(w) ==
  /\ step[w] = "rename" /\ temp[TempOf(w)].state = "absent"
  /\ step' = [step EXCEPT ![w] = "remove"]
  /\ UNCHANGED <<file, temp, job, draft, handle, minted, revoked, expired, charged,
                 raced, overlapped>>

\* ... and what has the name by now is removed.
RemoveTemp(w) ==
  /\ step[w] = "remove"
  /\ temp' = [temp EXCEPT ![TempOf(w)] = Holds("absent")]
  /\ handle' = [v \in Writers |->
       IF v = w \/ (handle[v] = "temp" /\ TempOf(v) = TempOf(w)) THEN "gone" ELSE handle[v]]
  /\ Finish(w)
  /\ UNCHANGED <<file, expired, raced, overlapped>>

-----------------------------------------------------------------------------
Expire(t) ==
  /\ t \in minted \ expired
  /\ expired' = expired \cup {t}
  /\ UNCHANGED <<file, temp, job, step, draft, handle, minted, revoked, charged,
                 raced, overlapped>>

\* A process dies between two steps of its saves; its next run has another id.
Die(p) ==
  LET dead == {w \in Writers : ProcessOf(w) = p} IN
  /\ \E w \in dead : job[w] # <<>>
  /\ temp' = [temp EXCEPT ![p] = Holds("absent")]
  /\ job' = [w \in Writers |-> IF w \in dead THEN <<>> ELSE job[w]]
  /\ step' = [w \in Writers |-> IF w \in dead THEN "load" ELSE step[w]]
  /\ draft' = [w \in Writers |-> IF w \in dead THEN NoTokens ELSE draft[w]]
  /\ handle' = [w \in Writers |-> IF w \in dead THEN "gone" ELSE handle[w]]
  /\ UNCHANGED <<file, minted, revoked, expired, charged, raced, overlapped>>

TokensNext ==
  \/ \E h \in Chargers, t \in TokenIds : Authorize(h, t) \/ RefuseToken(h, t)
  \/ \E c \in Commands, t \in TokenIds : Mint(c, t) \/ Revoke(c, t)
  \/ \E w \in Writers :
       Truncate(w) \/ WriteOut(w) \/ Rename(w) \/ RenameFails(w) \/ RemoveTemp(w)
  \/ \E t \in TokenIds : Expire(t)
  \/ \E p \in Processes : Die(p)

TokensSpec == TokensInit /\ [][TokensNext]_tokenVars

-----------------------------------------------------------------------------
TokensTypeOK ==
  /\ IsContent(file)
  /\ DOMAIN temp = Processes /\ \A p \in Processes : IsContent(temp[p])
  /\ \A w \in Writers : job[w] = <<>> \/ job[w] \in {"charge", "mint", "revoke"} \X TokenIds
  /\ step \in [Writers -> {"load", "open", "write", "rename", "remove"}]
  /\ DOMAIN draft = Writers /\ \A w \in Writers : AreCounts(draft[w])
  /\ handle \in [Writers -> {"temp", "file", "gone"}]
  /\ minted \subseteq TokenIds /\ revoked \subseteq minted /\ expired \subseteq TokenIds
  /\ charged \in [TokenIds -> Nat]
  /\ raced \in BOOLEAN /\ overlapped \in BOOLEAN

\* As long as no two operations have overlapped between load and save, the store is
\* exact, crashes included: every token minted and neither revoked nor expired is in
\* it, none that was revoked is, each carries the number of requests that were let
\* through for it, and that is within its budget.  Once two have overlapped, in one
\* process or in two, a charge, a new token or a revocation may be lost.
ExactUntilRaced ==
  ~raced =>
    /\ file.state \in {"absent", "whole"}
    /\ minted \ (revoked \cup expired) \subseteq DOMAIN file.used
    /\ DOMAIN file.used \cap revoked = {}
    /\ \A t \in DOMAIN file.used : file.used[t] = charged[t]
    /\ MaxRequests # 0 => \A t \in TokenIds : charged[t] <= MaxRequests

\* A reader finds a whole store, at every moment and after any crash, unless two saves
\* of one process have overlapped: those share a temporary file.  Two processes that
\* save at once never tear it.
TornOnlyByOverlap == ~overlapped => file.state \in {"absent", "whole"}
=============================================================================
