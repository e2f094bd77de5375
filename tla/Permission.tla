----------------------------- MODULE Permission -----------------------------
(***************************************************************************)
(* The permission protocol of a CLI keeper (src/src/session.rs): the child *)
(* asks to use a tool, the actor allows it from the caps of the newest     *)
(* prompt or shows it to the viewers, and any viewer may answer, several   *)
(* of them and late ones included.  One keeper; the child is external.     *)
(***************************************************************************)
EXTENDS Naturals, Sequences, FiniteSets

CONSTANTS Requests,   \* ids of control requests
          Groups,     \* tool groups the caps panel switches on and off
          Answerers,  \* viewers
          ChannelCap  \* capacity of the command channel

ASSUME PermissionAssumption == ChannelCap \in Nat \ {0}

VARIABLES
  currentCaps,  \* the caps of the newest prompt the actor has received
  commands,     \* the command channel
  stdout,       \* requests the child has written and the actor has not read
  pending,      \* pending_controls: the requests whose input is kept
  given,        \* given[r]: the answers written to the child for r, in order
  card,         \* card[r]: what the stream shows of r
  voted,        \* voted[r]: the viewers that have answered r
  serving       \* the actor's loop still runs

permissionVars == <<currentCaps, commands, stdout, pending, given, card, voted, serving>>

\* What a request is about: a tool of a group, AskUserQuestion, or a tool that no
\* group gates.
Kinds == Groups \cup {"question", "ungated"}
\* A viewer's decision: a plain approval, one that adds answers (or a freeform
\* response) to the request's input, a refusal.
Replies == {"allow", "answers", "deny"}
Given == {"allow", "answers", "deny", "empty"}

Prompts == [type : {"user"}, caps : SUBSET Groups]
Responses == [type : {"response"}, id : Requests, reply : Replies]

Allows(caps, kind) == kind = "ungated" \/ kind \in caps

PermissionInit ==
  /\ currentCaps = Groups
  /\ commands = <<>> /\ stdout = <<>>
  /\ pending = {}
  /\ given = [r \in Requests |-> <<>>]
  /\ card = [r \in Requests |-> "none"]
  /\ voted = [r \in Requests |-> {}]
  /\ serving = TRUE

Enqueue(cmd) ==
  /\ Len(commands) < ChannelCap
  /\ commands' = Append(commands, cmd)

\* A driver's prompt with the caps of its panel.
PromptWithCaps(caps) ==
  /\ Enqueue([type |-> "user", caps |-> caps])
  /\ UNCHANGED <<currentCaps, stdout, pending, given, card, voted, serving>>

\* A viewer answers a card it was shown; it may not have seen the answer of another.
Vote(v, r, reply) ==
  /\ card[r] # "none" /\ v \notin voted[r]
  /\ Enqueue([type |-> "response", id |-> r, reply |-> reply])
  /\ voted' = [voted EXCEPT ![r] = @ \cup {v}]
  /\ UNCHANGED <<currentCaps, stdout, pending, given, card, serving>>

\* The child asks once per request, and may ask for several before an answer.
ChildAsks(r, kind) ==
  /\ serving
  /\ given[r] = <<>> /\ card[r] = "none"
  /\ \A i \in 1 .. Len(stdout) : stdout[i].id # r
  /\ stdout' = Append(stdout, [id |-> r, kind |-> kind])
  /\ UNCHANGED <<currentCaps, commands, pending, given, card, voted, serving>>

Answer(r, what) == given' = [given EXCEPT ![r] = Append(@, what)]

\* Mutant: a prompt starts with no pending requests.
TakePromptAfresh ==
  /\ serving /\ commands # <<>> /\ Head(commands).type = "user"
  /\ commands' = Tail(commands)
  /\ currentCaps' = Head(commands).caps
  /\ pending' = {}
  /\ UNCHANGED <<stdout, given, card, voted, serving>>

\* The loop: the next command.
TakePrompt ==
  /\ serving /\ commands # <<>> /\ Head(commands).type = "user"
  /\ commands' = Tail(commands)
  /\ currentCaps' = Head(commands).caps
  /\ UNCHANGED <<stdout, pending, given, card, voted, serving>>

\* What the child is told: an approval carries the kept input, or an empty one if
\* nothing is kept under this id (any more).
Told(cmd) ==
  IF cmd.reply = "deny" THEN "deny" ELSE IF cmd.id \in pending THEN cmd.reply ELSE "empty"

\* Mutant: the card is closed only by an approval.
CloseOnApproval(r, reply) ==
  card' = IF reply = "deny" THEN card ELSE [card EXCEPT ![r] = "resolved"]

\* Every viewer is told that the request is resolved, whatever the answer.
CloseCard(r, reply) == card' = [card EXCEPT ![r] = "resolved"]

TakeResponse ==
  /\ serving /\ commands # <<>> /\ Head(commands).type = "response"
  /\ LET cmd == Head(commands) IN
       /\ commands' = Tail(commands)
       /\ pending' = pending \ {cmd.id}
       /\ Answer(cmd.id, Told(cmd))
       /\ CloseCard(cmd.id, cmd.reply)
  /\ UNCHANGED <<currentCaps, stdout, voted, serving>>

\* The loop: the next line of the child, if it is a control request.
AutoApprove ==
  /\ serving /\ stdout # <<>>
  /\ Allows(currentCaps, Head(stdout).kind)
  /\ stdout' = Tail(stdout)
  /\ Answer(Head(stdout).id, "allow")
  /\ UNCHANGED <<currentCaps, commands, pending, card, voted, serving>>

AskViewers ==
  /\ serving /\ stdout # <<>>
  /\ ~Allows(currentCaps, Head(stdout).kind)
  /\ stdout' = Tail(stdout)
  /\ pending' = pending \cup {Head(stdout).id}
  /\ card' = [card EXCEPT ![Head(stdout).id] = "open"]
  /\ UNCHANGED <<currentCaps, commands, given, voted, serving>>

\* The child exits, is killed by an interrupt, or no longer reads: the loop ends, and
\* its locals, what is in the channel and what is unread are lost with it.  The cards
\* stay as they are: nobody tells the viewers that a request is resolved.
ServingEnds ==
  /\ serving
  /\ serving' = FALSE
  /\ commands' = <<>> /\ stdout' = <<>> /\ pending' = {}
  /\ UNCHANGED <<currentCaps, given, card, voted>>

\* A send to the closed channel is ignored.
SendToClosed == ~serving /\ UNCHANGED permissionVars

PermissionNext ==
  \/ \E caps \in SUBSET Groups : serving /\ PromptWithCaps(caps)
  \/ \E v \in Answerers, r \in Requests, reply \in Replies : serving /\ Vote(v, r, reply)
  \/ \E r \in Requests, kind \in Kinds : ChildAsks(r, kind)
  \/ TakePrompt
  \/ TakeResponse
  \/ AutoApprove
  \/ AskViewers
  \/ ServingEnds
  \/ SendToClosed

PermissionSpec == PermissionInit /\ [][PermissionNext]_permissionVars

-----------------------------------------------------------------------------
PermissionTypeOK ==
  /\ currentCaps \in SUBSET Groups
  /\ commands \in Seq(Prompts \cup Responses) /\ Len(commands) <= ChannelCap
  /\ stdout \in Seq([id : Requests, kind : Kinds])
  /\ pending \in SUBSET Requests
  /\ given \in [Requests -> Seq(Given)]
  /\ card \in [Requests -> {"none", "open", "resolved"}]
  /\ voted \in [Requests -> SUBSET Answerers]
  /\ serving \in BOOLEAN

\* Whatever the order of prompts, answers and requests, the first answer the child
\* gets for a request is a refusal or an approval with that request's own input: an
\* empty input reaches it only after a request has been answered.
FirstAnswerFits == \A r \in Requests : given[r] # <<>> => given[r][1] # "empty"

\* While the actor runs, the cards that viewers see open are the requests whose input it
\* keeps, so that no unanswered request lost its card or its input; and no card stays
\* open behind an answer, by whomever it was given, also after the actor has ended,
\* when the cards of the unanswered requests stay open and nobody takes an answer.
WaitingIsShown ==
  \A r \in Requests :
    /\ serving => (card[r] = "open" <=> r \in pending)
    /\ card[r] = "open" => given[r] = <<>>
=============================================================================
