--------------------------------- MODULE Mcp ---------------------------------
(***************************************************************************)
(* The client of one MCP server (src/src/agent/mcp.rs), shared by the      *)
(* native engines: the handshake, calls that are pipelined over one pair   *)
(* of pipes, the reader that routes lines by id, time-outs, and a server   *)
(* that answers late, twice, in any order, or not at all, and sends        *)
(* requests of its own under ids of its own.                               *)
(***************************************************************************)
EXTENDS Integers, Sequences, FiniteSets, Functions

CONSTANTS McpCalls,  \* calls of tools, each made once
          PipeCap,   \* how many requests the server's stdin holds unread
          OwnIds,    \* ids under which the server numbers its own requests
          MaxLines   \* bound: lines the server writes in a run

ASSUME McpAssumption == PipeCap \in Nat \ {0} /\ OwnIds \subseteq Nat /\ MaxLines \in Nat

VARIABLES
  phase,     \* spawn_server: "init", "list", then "up", or "skipped"
  callAt,    \* callAt[c]: where the call is
  idOf,      \* idOf[c]: the id of its request, 0 before it has one
  outcome,   \* outcome[c]: what it returned
  next_id,
  waiters,   \* Server.pending: from ids to the calls that wait
  box,       \* box[c]: what was sent to the call's channel and not yet taken
  writer,    \* the calls that hold the lock of stdin
  toServer,  \* requests in the pipe
  taken,     \* requests the server has read
  lines,     \* lines in the pipe from the server
  spoken,    \* lines written so far
  inOpen, outOpen,  \* the server has its stdin, its stdout open
  routing    \* reader_loop runs

wireVars == <<toServer, taken, lines, spoken, inOpen, outOpen>>
mcpVars == <<phase, callAt, idOf, outcome, next_id, waiters, box, writer, wireVars, routing>>

\* What a line of the server is, and under which id: the answer to a request, a request
\* of its own, one without an id (blank, no JSON, a notification), and one that is not
\* UTF-8, which ends the reader.  A line with an id is all a call can be sent besides
\* a failure.
AnswerTo(i) == [what |-> "answer", id |-> i]
OwnRequest(i) == [what |-> "own", id |-> i]
Noise == [what |-> "noise", id |-> 0]
NotText == [what |-> "not text", id |-> 0]
HasId(line) == line.what \in {"answer", "own"}
Failure(what) == [what |-> what, id |-> 0]
Empty == Failure("nothing")

McpLines == [what : {"answer", "own", "noise", "not text"}, id : Nat]
Outcomes ==
  [what : {"answer", "own", "nothing", "closed", "timed out", "not written", "not found"},
   id : Nat]

McpInit ==
  /\ phase = "init"
  /\ callAt = [c \in McpCalls |-> "none"]
  /\ idOf = [c \in McpCalls |-> 0]
  /\ outcome = [c \in McpCalls |-> Empty]
  /\ next_id = 2
  /\ waiters = [i \in {} |-> 0]
  /\ box = [c \in McpCalls |-> Empty]
  /\ writer = {}
  /\ toServer = <<1>> /\ taken = {} /\ lines = <<>> /\ spoken = 0
  /\ inOpen = TRUE /\ outOpen = TRUE
  /\ routing = FALSE

Unwait(i) == waiters' = Restrict(waiters, DOMAIN waiters \ {i})
Return(c, what) ==
  /\ callAt' = [callAt EXCEPT ![c] = "done"]
  /\ outcome' = [outcome EXCEPT ![c] = what]

-----------------------------------------------------------------------------
(* The handshake: requests 1 and 2, one at a time.                         *)

Handshaking == phase \in {"init", "list"}

\* Lines under another id are skipped.  One under id 1, be it an answer or not, sends
\* request 2, which waits for room in the pipe; one under id 2 hands the pipe to the
\* reader.
HandshakeLine ==
  /\ Handshaking /\ lines # <<>> /\ Head(lines) # NotText
  /\ lines' = Tail(lines)
  /\ IF phase = "init" /\ HasId(Head(lines)) /\ Head(lines).id = 1
     THEN /\ inOpen /\ Len(toServer) < PipeCap
          /\ phase' = "list" /\ toServer' = Append(toServer, 2)
          /\ UNCHANGED routing
     ELSE IF phase = "list" /\ HasId(Head(lines)) /\ Head(lines).id = 2
     THEN phase' = "up" /\ routing' = TRUE /\ UNCHANGED toServer
     ELSE UNCHANGED <<phase, toServer, routing>>
  /\ UNCHANGED <<callAt, idOf, outcome, next_id, waiters, box, writer, taken, spoken,
                 inOpen, outOpen>>

\* An error, a time-out, a closed stream: the server is killed and left out.
HandshakeFails ==
  /\ Handshaking
  /\ phase' = "skipped"
  /\ inOpen' = FALSE /\ outOpen' = FALSE
  /\ toServer' = <<>> /\ lines' = <<>>
  /\ UNCHANGED <<callAt, idOf, outcome, next_id, waiters, box, writer, taken, spoken, routing>>

-----------------------------------------------------------------------------
(* A call.                                                                 *)

CallNotFound(c) ==
  /\ phase = "skipped" /\ callAt[c] = "none"
  /\ Return(c, Failure("not found"))
  /\ UNCHANGED <<phase, idOf, next_id, waiters, box, writer, wireVars, routing>>

\* A fresh id, and a waiter under it.
Register(c) ==
  /\ phase = "up" /\ callAt[c] = "none"
  /\ callAt' = [callAt EXCEPT ![c] = "registered"]
  /\ idOf' = [idOf EXCEPT ![c] = next_id + 1]
  /\ next_id' = next_id + 1
  /\ waiters' = [i \in DOMAIN waiters \cup {next_id + 1} |->
                   IF i = next_id + 1 THEN c ELSE waiters[i]]
  /\ UNCHANGED <<phase, outcome, box, writer, wireVars, routing>>

LockStdin(c) ==
  /\ callAt[c] = "registered" /\ writer = {}
  /\ writer' = {c}
  /\ callAt' = [callAt EXCEPT ![c] = "writing"]
  /\ UNCHANGED <<phase, idOf, outcome, next_id, waiters, box, wireVars, routing>>

\* The write waits, with the lock and without a time-out, while the pipe is full.
WriteLine(c) ==
  /\ callAt[c] = "writing" /\ inOpen /\ Len(toServer) < PipeCap
  /\ toServer' = Append(toServer, idOf[c])
  /\ writer' = {}
  /\ callAt' = [callAt EXCEPT ![c] = "waiting"]
  /\ UNCHANGED <<phase, idOf, outcome, next_id, waiters, box, taken, lines, spoken,
                 inOpen, outOpen, routing>>

WriteFails(c) ==
  /\ callAt[c] = "writing" /\ ~inOpen
  /\ writer' = {}
  /\ Unwait(idOf[c])
  /\ Return(c, Failure("not written"))
  /\ UNCHANGED <<phase, idOf, next_id, box, wireVars, routing>>

\* The call takes what was sent to it.
TakeAnswer(c) ==
  /\ callAt[c] = "waiting" /\ box[c] # Empty
  /\ Return(c, box[c])
  /\ UNCHANGED <<phase, idOf, next_id, waiters, box, writer, wireVars, routing>>

\* The time is up; the answer may still come before the waiter is removed.
TimeOut(c) ==
  /\ callAt[c] = "waiting" /\ box[c] = Empty
  /\ callAt' = [callAt EXCEPT ![c] = "late"]
  /\ UNCHANGED <<phase, idOf, outcome, next_id, waiters, box, writer, wireVars, routing>>

GiveUp(c) ==
  /\ callAt[c] = "late"
  /\ Unwait(idOf[c])
  /\ Return(c, Failure("timed out"))
  /\ UNCHANGED <<phase, idOf, next_id, box, writer, wireVars, routing>>

-----------------------------------------------------------------------------
(* reader_loop.                                                            *)

\* Mutant: a line goes to the oldest call that waits.
RouteInOrder ==
  /\ routing /\ lines # <<>> /\ HasId(Head(lines))
  /\ lines' = Tail(lines)
  /\ \E i \in DOMAIN waiters :
       /\ \A j \in DOMAIN waiters : i <= j
       /\ Unwait(i)
       /\ box' = [box EXCEPT ![waiters[i]] = Head(lines)]
  /\ UNCHANGED <<phase, callAt, idOf, outcome, next_id, writer, toServer, taken, spoken,
                 inOpen, outOpen, routing>>

\* The waiter under the id of a line is removed and gets it, whatever the line is;
\* lines under other ids, or without one, are dropped.
Route ==
  /\ routing /\ lines # <<>> /\ Head(lines) # NotText
  /\ lines' = Tail(lines)
  /\ IF HasId(Head(lines)) /\ Head(lines).id \in DOMAIN waiters
     THEN /\ Unwait(Head(lines).id)
          /\ box' = [box EXCEPT ![waiters[Head(lines).id]] = Head(lines)]
     ELSE UNCHANGED <<waiters, box>>
  /\ UNCHANGED <<phase, callAt, idOf, outcome, next_id, writer, toServer, taken, spoken,
                 inOpen, outOpen, routing>>

\* The stream ends, or a line cannot be read: every waiter is told.
ReaderEnds ==
  /\ routing
  /\ \/ lines = <<>> /\ ~outOpen
     \/ lines # <<>> /\ Head(lines) = NotText
  /\ routing' = FALSE
  /\ box' = [c \in McpCalls |-> IF c \in Range(waiters) THEN Failure("closed") ELSE box[c]]
  /\ waiters' = [i \in {} |-> 0]
  /\ UNCHANGED <<phase, callAt, idOf, outcome, next_id, writer, wireVars>>

-----------------------------------------------------------------------------
(* The server (external).                                                  *)

ServerReads ==
  /\ inOpen /\ toServer # <<>>
  /\ taken' = taken \cup {Head(toServer)}
  /\ toServer' = Tail(toServer)
  /\ UNCHANGED <<phase, callAt, idOf, outcome, next_id, waiters, box, writer, lines, spoken,
                 inOpen, outOpen, routing>>

\* It answers what it has read, in any order, perhaps twice; asks something itself,
\* under an id that may be that of a call that waits or will; or says something else.
SayableLines == {AnswerTo(i) : i \in taken} \cup {OwnRequest(i) : i \in OwnIds} \cup {Noise, NotText}

ServerSays(line) ==
  /\ outOpen /\ spoken < MaxLines
  /\ line \in SayableLines
  /\ lines' = Append(lines, line)
  /\ spoken' = spoken + 1
  /\ UNCHANGED <<phase, callAt, idOf, outcome, next_id, waiters, box, writer, toServer, taken,
                 inOpen, outOpen, routing>>

ServerClosesOut ==
  /\ outOpen /\ outOpen' = FALSE
  /\ UNCHANGED <<phase, callAt, idOf, outcome, next_id, waiters, box, writer, toServer, taken,
                 lines, spoken, inOpen, routing>>

ServerDies ==
  /\ inOpen
  /\ inOpen' = FALSE /\ outOpen' = FALSE /\ toServer' = <<>>
  /\ UNCHANGED <<phase, callAt, idOf, outcome, next_id, waiters, box, writer, taken, lines,
                 spoken, routing>>

McpNext ==
  \/ HandshakeLine \/ HandshakeFails
  \/ \E c \in McpCalls :
       \/ CallNotFound(c) \/ Register(c) \/ LockStdin(c) \/ WriteLine(c) \/ WriteFails(c)
       \/ TakeAnswer(c) \/ TimeOut(c) \/ GiveUp(c)
  \/ Route \/ ReaderEnds
  \/ ServerReads \/ ServerClosesOut \/ ServerDies
  \/ \E line \in SayableLines : ServerSays(line)

McpSpec == McpInit /\ [][McpNext]_mcpVars

-----------------------------------------------------------------------------
McpTypeOK ==
  /\ phase \in {"init", "list", "up", "skipped"}
  /\ callAt \in [McpCalls -> {"none", "registered", "writing", "waiting", "late", "done"}]
  /\ idOf \in [McpCalls -> Nat] /\ next_id \in Nat
  /\ outcome \in [McpCalls -> Outcomes] /\ box \in [McpCalls -> Outcomes]
  /\ DOMAIN waiters \subseteq 3 .. next_id /\ Range(waiters) \subseteq McpCalls
  /\ writer \in SUBSET McpCalls
  /\ toServer \in Seq(1 .. next_id) /\ Len(toServer) <= PipeCap
  /\ taken \subseteq 1 .. next_id
  /\ lines \in Seq(McpLines) /\ spoken \in 0 .. MaxLines
  /\ {inOpen, outOpen, routing} \subseteq BOOLEAN

\* Whatever order, repetition or delay the server's lines have, and whatever it sends
\* under ids of its own, a call returns with a line that bears its own id or with a
\* failure: the answer to one call never reaches another.  What it returns as an answer
\* was given after the server had read its request.  (A request of the server under the
\* id of a call that waits is taken for its answer.)
LineIsOwn ==
  \A c \in McpCalls :
    /\ HasId(outcome[c]) => outcome[c].id = idOf[c]
    /\ outcome[c].what = "answer" => idOf[c] \in taken

\* The table of waiters is exact: a call that still waits with nothing sent to it is in
\* it, under its own id, so that an answer or the end of the stream can reach it; one
\* that has returned has left nothing behind, so that a late answer meets nobody.
WaitersAreExact ==
  \A c \in McpCalls :
    /\ callAt[c] \in {"registered", "writing", "waiting"} /\ box[c] = Empty =>
         idOf[c] \in DOMAIN waiters /\ waiters[idOf[c]] = c
    /\ callAt[c] = "done" => c \notin Range(waiters)

\* A call gets a line of its own, and is waited for exactly until it returns, although
\* time-outs, late and repeated answers and the end of the server cross one another.
CallsAreServed == LineIsOwn /\ WaitersAreExact
=============================================================================
