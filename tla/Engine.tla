------------------------------- MODULE Engine -------------------------------
(***************************************************************************)
(* The native engine: one chat's turn loop (src/src/agent/mod.rs), the     *)
(* stream of the model's answer (src/src/agent/client.rs) and the file the *)
(* chat is saved in (src/src/agent/store.rs).                              *)
(*                                                                         *)
(* A turn asks the model, runs the tools it calls, and asks again until no *)
(* tool is called.  Requests fail and are retried, an interrupt comes at   *)
(* any time, a save may fail, and the server may die between two steps; a  *)
(* new engine then starts from the file.  The provider is external.        *)
(***************************************************************************)
EXTENDS Integers, Sequences, FiniteSets, SequencesExt

CONSTANTS Calls,        \* the ids of tool calls; the model may use one twice
          MaxSteps,     \* MAX_STEPS
          MaxRetries,   \* MAX_RETRIES
          MaxMessages,  \* MAX_MESSAGES
          MaxHistory    \* bound: no prompt is taken once the chat is longer

ASSUME EngineAssumption ==
  /\ IsFiniteSet(Calls)
  /\ MaxSteps \in Nat /\ MaxRetries \in Nat /\ MaxMessages \in Nat /\ MaxHistory \in Nat

VARIABLES
  messages,   \* Engine.stored.messages
  disk,       \* the messages in the chat's file
  pc,         \* where run_turn is; "idle": no turn, "down": no engine
  interrupt,  \* the flag the actor raises
  steps,      \* requests made in this turn
  attempt,    \* attempts at this request
  acc,        \* the Accumulator: the blocks of the answer so far
  got,        \* got_event
  shown,      \* history: the blocks of this answer that viewers were sent
  todo,       \* calls of the answer that have no result yet
  results     \* calls that have one

turn == <<steps, attempt, acc, got, shown, todo, results>>
vars == <<messages, disk, pc, interrupt, turn>>

-----------------------------------------------------------------------------
(* Messages.  An image is not told apart from no content: only text is.    *)

Message == [role : {"user", "assistant"}, text : BOOLEAN,
            calls : SUBSET Calls, results : SUBSET Calls]
Blocks == [text : BOOLEAN, calls : SUBSET Calls]
Nothing == [text |-> FALSE, calls |-> {}]

UserMessage(text) == [role |-> "user", text |-> text, calls |-> {}, results |-> {}]
AssistantMessage(b) == [role |-> "assistant", text |-> b.text, calls |-> b.calls, results |-> {}]
ResultsMessage(R) == [role |-> "user", text |-> FALSE, calls |-> {}, results |-> R]

IsUserPrompt(m) == m.role = "user" /\ m.text

\* Mutant: drops the oldest messages, wherever that cuts a turn.
CompactBlindly(h) ==
  IF Len(h) <= MaxMessages THEN h ELSE SubSeq(h, Len(h) - MaxMessages + 1, Len(h))

\* compact: drop the oldest messages, up to the next prompt.  If no prompt is left
\* nothing is dropped.
Cuts(h) == {d \in (Len(h) - MaxMessages) .. (Len(h) - 1) : IsUserPrompt(h[d + 1])}
Compact(h) ==
  IF Len(h) <= MaxMessages \/ Cuts(h) = {}
  THEN h
  ELSE LET d == CHOOSE d \in Cuts(h) : \A e \in Cuts(h) : d <= e
       IN SubSeq(h, d + 1, Len(h))

\* What sanitize_messages returns: after every message with calls that the next one
\* does not answer, a message that does is inserted.  So message i moves back by the
\* number of unanswered messages before it.
Unanswered(h, i) == h[i].calls \ (IF i < Len(h) THEN h[i + 1].results ELSE {})
Dangling(h) == {i \in 1 .. Len(h) : Unanswered(h, i) # {}}
Place(h, i) == i + Cardinality({j \in Dangling(h) : j < i})
Sanitize(h) ==
  [p \in 1 .. (Len(h) + Cardinality(Dangling(h))) |->
     IF \E i \in 1 .. Len(h) : Place(h, i) = p
     THEN h[CHOOSE i \in 1 .. Len(h) : Place(h, i) = p]
     ELSE ResultsMessage(Unanswered(h, CHOOSE i \in Dangling(h) : Place(h, i) = p - 1))]

\* The code inserts them in a loop: round i looks at message i of the history so far,
\* one that an earlier round inserted included, until there is none.
SanitizeRound(h, i) ==
  IF Unanswered(h, i) = {} THEN h ELSE InsertAt(h, i + 1, ResultsMessage(Unanswered(h, i)))

\* r[i] is the history at the top of the loop before round i.
SanitizeRounds(h, r) ==
  /\ r \in Seq(Seq(Message)) /\ Len(r) > 0 /\ r[1] = h
  /\ \A i \in 1 .. Len(r) - 1 : i <= Len(r[i]) /\ r[i + 1] = SanitizeRound(r[i], i)

\* The loop over h ends with the history g.
SanitizeLoop(h, g) ==
  \E r \in Seq(Seq(Message)) :
    SanitizeRounds(h, r) /\ r[Len(r)] = g /\ Len(r) > Len(g)

-----------------------------------------------------------------------------
Init ==
  /\ messages = <<>> /\ disk = <<>>
  /\ pc = "idle"
  /\ interrupt = FALSE
  /\ steps = 0 /\ attempt = 0
  /\ acc = Nothing /\ got = FALSE /\ shown = Nothing
  /\ todo = {} /\ results = {}

\* The locals of run_turn end with it.
ForgetTurn ==
  /\ steps' = 0 /\ attempt' = 0
  /\ acc' = Nothing /\ got' = FALSE /\ shown' = Nothing
  /\ todo' = {} /\ results' = {}

EndTurn == pc' = "idle" /\ ForgetTurn

\* save_async: the file is replaced as a whole; a failure is only logged.
Save(h) == disk' \in {disk, h}

\* The actor takes a prompt, with text or with images only.
Prompt(text) ==
  /\ pc = "idle"
  /\ Len(messages) <= MaxHistory
  /\ messages' = Append(Compact(messages), UserMessage(text))
  /\ interrupt' = FALSE
  /\ pc' = "loop"
  /\ UNCHANGED <<disk, turn>>

\* The actor receives an interrupt, or loses its last handle, during the turn.
Interrupt ==
  /\ pc \notin {"idle", "down"}
  /\ interrupt' = TRUE
  /\ UNCHANGED <<messages, disk, pc, turn>>

\* The top of the loop.
LoopInterrupted ==
  /\ pc = "loop" /\ interrupt
  /\ EndTurn
  /\ UNCHANGED <<messages, disk, interrupt>>

StepCap ==
  /\ pc = "loop" /\ ~interrupt
  /\ steps >= MaxSteps
  /\ EndTurn
  /\ UNCHANGED <<messages, disk, interrupt>>

Request ==
  /\ pc = "loop" /\ ~interrupt
  /\ steps < MaxSteps
  /\ pc' = "sending"
  /\ steps' = steps + 1
  /\ attempt' = 1
  /\ acc' = Nothing /\ got' = FALSE /\ shown' = Nothing
  /\ UNCHANGED <<messages, disk, interrupt, todo, results>>

\* The provider starts to answer; the interrupt is not looked at before.
Responds ==
  /\ pc = "sending"
  /\ pc' = "streaming"
  /\ UNCHANGED <<messages, disk, interrupt, turn>>

\* An event of the stream: a call, text, or one that is shown but not stored
\* (thinking, usage).
StreamEvent ==
  /\ pc = "streaming"
  /\ got' = TRUE
  /\ \/ \E c \in Calls : /\ acc' = [acc EXCEPT !.calls = @ \union {c}]
                         /\ shown' = [shown EXCEPT !.calls = @ \union {c}]
     \/ /\ acc' = [acc EXCEPT !.text = TRUE]
        /\ shown' = [shown EXCEPT !.text = TRUE]
     \/ UNCHANGED <<acc, shown>>
  /\ UNCHANGED <<messages, disk, pc, interrupt, steps, attempt, todo, results>>

\* Mutant: one attempt too many.
RetriesOnceMore(retryable) == ~got /\ attempt <= MaxRetries + 1 /\ retryable

\* Mutant: forgets that something was streamed.
RetriesStreamed(retryable) == attempt <= MaxRetries /\ retryable

Retries(retryable) == ~got /\ attempt <= MaxRetries /\ retryable

\* The request fails: no answer, an error status, or a connection that breaks while
\* the answer is streamed.
RequestFails ==
  /\ pc \in {"sending", "streaming"}
  /\ \E retryable \in BOOLEAN :
       \/ Retries(retryable) /\ pc' = "backoff" /\ UNCHANGED turn
       \/ ~Retries(retryable) /\ EndTurn
  /\ UNCHANGED <<messages, disk, interrupt>>

\* The backoff does not look at the interrupt either.
RetryNow ==
  /\ pc = "backoff"
  /\ pc' = "sending"
  /\ attempt' = attempt + 1
  /\ acc' = Nothing /\ got' = FALSE
  /\ UNCHANGED <<messages, disk, interrupt, steps, shown, todo, results>>

\* What follows the stream: the answer is stored, saved, and its tools are next.
StoreAnswer ==
  LET h == Append(messages, AssistantMessage(acc))
  IN /\ messages' = h
     /\ Save(h)
     /\ \/ acc.calls = {} /\ EndTurn
        \/ /\ acc.calls # {}
           /\ pc' = "tools"
           /\ todo' = acc.calls
           /\ results' = {}
           /\ UNCHANGED <<steps, attempt, acc, got, shown>>
     /\ UNCHANGED interrupt

StreamEnds == pc = "streaming" /\ StoreAnswer

\* Mutant: looks at the interrupt only after an event.
InterruptedAfterEvent == pc = "streaming" /\ interrupt /\ got /\ StoreAnswer

\* The stream is polled at least every 50 ms for the interrupt; what has come so far
\* is stored as the answer.
StreamInterrupted == pc = "streaming" /\ interrupt /\ StoreAnswer

\* A tool runs, or is refused, or is not started because of the interrupt: it has a
\* result in any case.
Tool(c) ==
  /\ pc = "tools" /\ c \in todo
  /\ todo' = todo \ {c}
  /\ results' = results \union {c}
  /\ UNCHANGED <<messages, disk, pc, interrupt, steps, attempt, acc, got, shown>>

StoreResults ==
  /\ pc = "tools" /\ todo = {}
  /\ LET h == Append(messages, ResultsMessage(results))
     IN messages' = h /\ Save(h)
  /\ pc' = "loop"
  /\ results' = {}
  /\ UNCHANGED <<interrupt, steps, attempt, acc, got, shown, todo>>

\* The server dies.  Without a turn it may also be that only the actor ends.
Crash ==
  /\ pc # "down"
  /\ pc' = "down"
  /\ ForgetTurn
  /\ messages' = <<>>
  /\ interrupt' = FALSE
  /\ UNCHANGED disk

\* Engine::new for the same chat.
Restart ==
  /\ pc = "down"
  /\ messages' = Sanitize(disk)
  /\ pc' = "idle"
  /\ UNCHANGED <<disk, interrupt, turn>>

Next ==
  \/ \E text \in BOOLEAN : Prompt(text)
  \/ Interrupt
  \/ LoopInterrupted \/ StepCap \/ Request
  \/ Responds \/ StreamEvent \/ RequestFails \/ RetryNow
  \/ StreamEnds \/ StreamInterrupted
  \/ \E c \in Calls : Tool(c)
  \/ StoreResults
  \/ Crash \/ Restart

Spec == Init /\ [][Next]_vars

\* The engine's own steps; the backoff is a sleep.  Nothing is assumed of the provider,
\* and nothing of a tool: a call to an MCP server waits for its stdin without a limit.
Fairness ==
  /\ WF_vars(LoopInterrupted \/ StepCap \/ Request)
  /\ WF_vars(RetryNow)
  /\ WF_vars(StreamInterrupted)
  /\ WF_vars(StoreResults)

FairSpec == Spec /\ Fairness

-----------------------------------------------------------------------------
Asking == {"sending", "streaming", "backoff"}

TypeOK ==
  /\ messages \in Seq(Message) /\ disk \in Seq(Message)
  /\ pc \in {"idle", "loop", "tools", "down"} \union Asking
  /\ interrupt \in BOOLEAN
  /\ steps \in 0 .. MaxSteps /\ attempt \in 0 .. (MaxRetries + 1)
  /\ acc \in Blocks /\ got \in BOOLEAN /\ shown \in Blocks
  /\ todo \subseteq Calls /\ results \subseteq Calls

\* Every call in the history is answered by the very next message, every result
\* answers a call of the message before it, and the history begins with the user: a
\* provider rejects anything else.  So every request is valid, after interrupts,
\* failed saves, compaction, and a crash at any point of an earlier turn.
Paired(h) ==
  \A i \in 1 .. Len(h) :
    /\ h[i].calls # {} => i < Len(h) /\ h[i].calls = h[i + 1].results
    /\ h[i].results # {} => i > 1 /\ h[i].results = h[i - 1].calls
    /\ i = 1 => h[i].role = "user"
RequestsArePaired == pc \in Asking => Paired(messages)

\* "Retry only if nothing streamed yet (no duplicate output)": the answer that will
\* be stored is what the viewers were shown, whatever was retried before.
ShownIsStored == pc \in Asking => acc = shown

\* A turn ends, or hangs on one of three things for good: the wait for an answer to
\* begin, and a tool that does not return, where no interrupt reaches it, or a stream
\* that nobody interrupts.  It hangs nowhere else, and an interrupt ends a silent stream.
TurnEnds ==
  \/ [](pc \notin {"idle", "down"} => <>(pc \in {"idle", "down"}))
  \/ <>[](pc = "sending")
  \/ <>[](pc = "tools" /\ todo # {})
  \/ <>[](pc = "streaming" /\ ~interrupt)

=============================================================================
