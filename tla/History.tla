------------------------------- MODULE History -------------------------------
(***************************************************************************)
(* The transcript that the claude child process keeps of a chat, and its   *)
(* readers (src/src/history.rs): the summary for the list of chats, behind *)
(* a cache that is keyed by the file's time of modification, and the turns *)
(* of an opened chat.  The child appends while the file is read.           *)
(***************************************************************************)
EXTENDS Naturals, Sequences, FiniteSets, SequencesExt, FiniteSetsExt

CONSTANTS MessageIds,  \* ids of assistant messages
          Listers,     \* requests for the list of chats
          MaxLog,      \* bound: lines of the transcript
          MaxListed,   \* bound: lines of it while the list is read
          LastModified \* bound: the last tick of the file system's clock

ASSUME HistoryAssumption ==
  {MaxLog, MaxListed} \subseteq Nat /\ LastModified \in Nat \ {0}

VARIABLES
  jsonl,     \* the lines of the transcript
  torn,      \* the last line is not written to its end
  clock,     \* the clock of the file system
  mtime,     \* when the file was last modified; 0: there is no file
  twice,     \* history: it was modified more than once at that tick
  cache,     \* SUMMARY_CACHE: the entry of this file
  listAt,    \* listAt[r]: where the request is in cached_summary
  statOf,    \* statOf[r]: the modification time it read
  summaryOf  \* summaryOf[r]: what it computed

historyVars == <<jsonl, torn, clock, mtime, twice, cache, listAt, statOf, summaryOf>>

-----------------------------------------------------------------------------
(* Lines: a prompt, a tool's result with or without an image, or a piece   *)
(* of an assistant message: text, a call, or what is not rendered.         *)

NoId == "no id"
UserLines == [role : {"user"}, id : {NoId}, kind : {"text", "result", "image"}]
AssistantLines == [role : {"assistant"}, id : MessageIds \union {NoId},
                   kind : {"text", "call", "thought"}]
Lines == UserLines \union AssistantLines
PlainAnswer == [role |-> "assistant", id |-> NoId, kind |-> "text"]

\* has_tool_result, and what extract_text and extract_tools leave empty.
HasToolResult(l) == l.kind \in {"result", "image"}
Rendered(l) == l.kind \in {"text", "call"}

\* A line that is not whole does not parse and is skipped.
Parsed == IF torn THEN Front(jsonl) ELSE jsonl

\* summarize_jsonl_file: an assistant message that is logged again does not count.
\* The usage of a line is that of its message; context is whose was counted last.
NoSummary == [messages |-> 0, turns |-> 0, context |-> NoId, titled |-> FALSE, seen |-> {}]
CountUser(s, l) ==
  [s EXCEPT !.messages = @ + 1, !.titled = @ \/ l.kind = "text"]
CountAssistant(s, l) ==
  [s EXCEPT !.messages = @ + 1, !.turns = @ + 1, !.context = l.id,
            !.seen = @ \union ({l.id} \ {NoId})]
Logged(s, l) == l.id \in s.seen

CountLine(s, l) ==
  IF l.role = "user" THEN CountUser(s, l)
  ELSE IF Logged(s, l) THEN s
  ELSE CountAssistant(s, l)
Summarize[lines \in Seq(Lines)] ==
  IF lines = <<>> THEN NoSummary
  ELSE CountLine(Summarize[Front(lines)], Last(lines))

\* load_jsonl_chat: results are not turns of their own; their images go to the
\* assistant's message before them.
RenderLine(turns, l) ==
  IF HasToolResult(l)
  THEN IF l.kind = "image" /\ turns # <<>> /\ Last(turns).role = "assistant"
       THEN [turns EXCEPT ![Len(turns)].images = @ + 1]
       ELSE turns
  ELSE IF Rendered(l) THEN Append(turns, [role |-> l.role, images |-> 0])
  ELSE turns
Transcript[lines \in Seq(Lines)] ==
  IF lines = <<>> THEN <<>>
  ELSE RenderLine(Transcript[Front(lines)], Last(lines))

-----------------------------------------------------------------------------
HistoryInit ==
  /\ jsonl = <<>> /\ torn = FALSE
  /\ clock = 1 /\ mtime = 0 /\ twice = FALSE
  /\ cache = [mtime |-> 0, summary |-> NoSummary]
  /\ listAt = [r \in Listers |-> "idle"]
  /\ statOf = [r \in Listers |-> 0]
  /\ summaryOf = [r \in Listers |-> NoSummary]

Modify ==
  /\ mtime' = clock
  /\ twice' = (mtime = clock)
  /\ UNCHANGED <<clock, cache, listAt, statOf, summaryOf>>

\* A result is logged in a turn that has a call.
InTurn(l) ==
  HasToolResult(l) =>
    \E i \in DOMAIN jsonl :
      /\ jsonl[i].kind = "call"
      /\ \A k \in i .. Len(jsonl) : jsonl[k] \in AssistantLines \/ HasToolResult(jsonl[k])

\* The child appends a line, which takes one write or two.
AppendLine(l) ==
  /\ ~torn /\ InTurn(l)
  /\ jsonl' = Append(jsonl, l)
  /\ torn' \in BOOLEAN
  /\ Modify

CompleteLine ==
  /\ torn /\ torn' = FALSE
  /\ UNCHANGED jsonl
  /\ Modify

TickOfFiles ==
  /\ clock < LastModified
  /\ clock' = clock + 1
  /\ UNCHANGED <<jsonl, torn, mtime, twice, cache, listAt, statOf, summaryOf>>

\* cached_summary: the time, the entry, the file, the entry again.
ListGoes(r, from, to) ==
  /\ listAt[r] = from
  /\ listAt' = [listAt EXCEPT ![r] = to]
  /\ UNCHANGED <<jsonl, torn, clock, mtime, twice>>

ListStat(r) ==
  /\ ListGoes(r, "idle", "looking")
  /\ mtime > 0
  /\ statOf' = [statOf EXCEPT ![r] = mtime]
  /\ UNCHANGED <<cache, summaryOf>>

ListHit(r) ==
  /\ ListGoes(r, "looking", "idle")
  /\ cache.mtime = statOf[r]
  /\ UNCHANGED <<cache, statOf, summaryOf>>

ListMiss(r) ==
  /\ ListGoes(r, "looking", "reading")
  /\ cache.mtime # statOf[r]
  /\ UNCHANGED <<cache, statOf, summaryOf>>

ListRead(r) ==
  /\ ListGoes(r, "reading", "storing")
  /\ summaryOf' = [summaryOf EXCEPT ![r] = Summarize[Parsed]]
  /\ UNCHANGED <<cache, statOf>>

ListDone(r) ==
  /\ statOf' = [statOf EXCEPT ![r] = 0]
  /\ summaryOf' = [summaryOf EXCEPT ![r] = NoSummary]

\* Mutant: the entry gets the time at which it is made.
ListStoreNow(r) ==
  /\ ListGoes(r, "storing", "idle")
  /\ cache' = [mtime |-> mtime, summary |-> summaryOf[r]]
  /\ ListDone(r)

ListStore(r) ==
  /\ ListGoes(r, "storing", "idle")
  /\ cache' = [mtime |-> statOf[r], summary |-> summaryOf[r]]
  /\ ListDone(r)

ListStep(r) == ListStat(r) \/ ListHit(r) \/ ListMiss(r) \/ ListRead(r) \/ ListStore(r)

\* Transcripts of any lines, which nobody lists meanwhile.
LogNext == \E l \in Lines : Len(jsonl) < MaxLog /\ AppendLine(l)

\* Requests for the list while plain answers are logged.
ListNext ==
  \/ Len(jsonl) < MaxListed /\ AppendLine(PlainAnswer)
  \/ CompleteLine
  \/ TickOfFiles
  \/ \E r \in Listers : ListStep(r)

HistorySpec == HistoryInit /\ [][LogNext \/ ListNext]_historyVars

-----------------------------------------------------------------------------
HistoryTypeOK ==
  /\ jsonl \in Seq(Lines) /\ torn \in BOOLEAN
  /\ {clock, mtime} \subseteq 0 .. LastModified /\ twice \in BOOLEAN
  /\ DOMAIN cache = {"mtime", "summary"}
  /\ listAt \in [Listers -> {"idle", "looking", "reading", "storing"}]
  /\ statOf \in [Listers -> 0 .. LastModified]

\* "Mtime granularity means a rewrite within the same clock tick could serve a stale
\* summary": an entry that a request would be served is what the file holds, with any
\* number of requests reading, storing and overtaking one another while the child
\* writes, unless the file was modified twice at one tick.
ServedIsCurrent ==
  mtime > 0 /\ cache.mtime = mtime /\ ~twice => cache.summary = Summarize[Parsed]

\* "The CLI can log the same message twice": however messages are repeated, a message
\* counts once, and the context shown is that of the newest message, not of the line
\* that was logged last.  The transcript shows every image that a tool returned on a
\* message of the assistant.
ReadersCountOnce ==
  LET lines == Parsed
      newest == {i \in DOMAIN lines :
                   /\ lines[i].role = "assistant"
                   /\ lines[i].id # NoId => \A j \in 1 .. (i - 1) : lines[j].id # lines[i].id}
      s == Summarize[lines]
  IN /\ s.turns = Cardinality(newest)
     /\ newest # {} => s.context = lines[Max(newest)].id
     /\ s.messages = s.turns + Cardinality({i \in DOMAIN lines : lines[i].role = "user"})

ReadTurns == [role : {"user", "assistant"}, images : Nat]
ImagesOf[turns \in Seq(ReadTurns)] ==
  IF turns = <<>> THEN 0 ELSE ImagesOf[Front(turns)] + Last(turns).images

ImagesStay ==
  ImagesOf[Transcript[Parsed]]
    = Cardinality({i \in DOMAIN Parsed : Parsed[i].kind = "image"})

TranscriptIsRead == ServedIsCurrent /\ ReadersCountOnce /\ ImagesStay
=============================================================================
