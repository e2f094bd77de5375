-------------------------------- MODULE Gemini --------------------------------
(***************************************************************************)
(* The adapter between the native engine and Gemini                        *)
(* (src/src/agent/gemini.rs): the parts of an answer become blocks of the  *)
(* accumulator (src/src/agent/mod.rs), the stored conversation becomes the *)
(* contents of the next request.  A chat goes on for a few rounds of tool  *)
(* calls, and may have been begun under an earlier version.                *)
(***************************************************************************)
EXTENDS Naturals, Sequences, FiniteSets, SequencesExt

CONSTANTS ToolNames,  \* the tools the model calls
          MaxParts,   \* bound: parts of one answer
          MaxTalk     \* bound: a chat of this length is not continued

ASSUME GeminiAssumption == MaxParts \in Nat /\ MaxTalk \in Nat

VARIABLES
  talk,          \* Stored.messages
  geminiAt,      \* "idle", "stream", "tools": where run_turn is
  current_kind,  \* Translator
  blocks,        \* Accumulator.blocks; their indices count from 1
  streamed,      \* history: the parts of this answer
  asked          \* the contents of the newest request

geminiVars == <<talk, geminiAt, current_kind, blocks, streamed, asked>>

NoTool == "unknown"  \* the name of a call that is not found
NoKind == "none"

-----------------------------------------------------------------------------
(* Stored messages.  The content of a result is a bare string in a chat of *)
(* an earlier version, and a list of blocks since.                         *)

Block(kind, id, name, signed, bare) ==
  [kind |-> kind, id |-> id, name |-> name, signed |-> signed, bare |-> bare]
TextBlock == Block("text", 0, NoTool, FALSE, FALSE)
ToolUse(id, name, signed) == Block("tool_use", id, name, signed, FALSE)
ToolResult(id, bare) == Block("tool_result", id, NoTool, FALSE, bare)
Said(role, content) == [role |-> role, content |-> content]

CallsOf(m) ==
  FlattenSeq([j \in DOMAIN m.content |->
    IF m.content[j].kind = "tool_use" THEN <<m.content[j]>> ELSE <<>>])

\* normalize_content, when a chat is loaded.
Normalize(h) ==
  [i \in DOMAIN h |->
    [h[i] EXCEPT !.content = [j \in DOMAIN @ |-> [@[j] EXCEPT !.bare = FALSE]]]]

\* A chat of an earlier version, with another provider: a turn that was interrupted
\* after the result of its one call.
LegacyChat(name) ==
  << Said("user", <<TextBlock>>),
     Said("assistant", <<ToolUse(0, name, FALSE)>>),
     Said("user", <<ToolResult(0, TRUE)>>) >>

-----------------------------------------------------------------------------
(* The request.                                                            *)

\* call_names: the name a later call stores under an id replaces an earlier one.
Named(h, id) == {at \in UNION {{i} \X DOMAIN h[i].content : i \in DOMAIN h} :
                   LET b == h[at[1]].content[at[2]] IN b.kind = "tool_use" /\ b.id = id}
After(a, b) == a[1] > b[1] \/ (a[1] = b[1] /\ a[2] > b[2])
CallName(h, id) ==
  IF Named(h, id) = {} THEN NoTool
  ELSE LET at == CHOOSE at \in Named(h, id) : \A o \in Named(h, id) : o = at \/ After(at, o)
       IN h[at[1]].content[at[2]].name

\* to_gemini_part.  A result is sent with its text if the text is a bare string.
ToPart(h, b) ==
  CASE b.kind = "text" -> [kind |-> "text", name |-> NoTool, signed |-> FALSE, text |-> TRUE]
    [] b.kind = "tool_use" ->
         [kind |-> "functionCall", name |-> b.name, signed |-> b.signed, text |-> FALSE]
    [] b.kind = "tool_result" ->
         [kind |-> "functionResponse", name |-> CallName(h, b.id), signed |-> FALSE, text |-> b.bare]

\* build_body.
RequestContents(h) ==
  [i \in DOMAIN h |->
    [role |-> IF h[i].role = "assistant" THEN "model" ELSE "user",
     parts |-> [j \in DOMAIN h[i].content |-> ToPart(h, h[i].content[j])]]]

\* A request is sent; its translator and its accumulator are new.
Ask(h) ==
  /\ talk' = h
  /\ asked' = RequestContents(h)
  /\ geminiAt' = "stream"
  /\ current_kind' = NoKind /\ blocks' = <<>> /\ streamed' = <<>>

GeminiInit ==
  /\ talk \in {<<>>} \union {Normalize(LegacyChat(n)) : n \in ToolNames}
  /\ geminiAt = "idle"
  /\ current_kind = NoKind /\ blocks = <<>> /\ streamed = <<>>
  /\ asked = <<>>

PromptGemini ==
  /\ geminiAt = "idle"
  /\ Len(talk) < MaxTalk
  /\ Ask(Append(talk, Said("user", <<TextBlock>>)))

-----------------------------------------------------------------------------
(* The answer.                                                             *)

\* What a part of a chunk can be: a call, text or a thought, or something else, such
\* as an image.  The pieces of text may be empty.
CallParts == [kind : {"tool_use"}, name : ToolNames, signed : BOOLEAN]
TextParts == [kind : {"text", "thinking"}, empty : BOOLEAN]
OtherPart == [kind |-> "other"]

Hears(p) ==
  /\ geminiAt = "stream" /\ Len(streamed) < MaxParts
  /\ streamed' = Append(streamed, p)
  /\ UNCHANGED <<talk, geminiAt, asked>>

\* Mutant: the block before the call is taken to go on after it.
HearCallKeepsKind(p) ==
  /\ Hears(p)
  /\ blocks' = Append(blocks, [kind |-> "tool_use", pieces |-> <<p>>])
  /\ UNCHANGED current_kind

\* A call is a block of its own, whose id is its index.
HearCall(p) ==
  /\ Hears(p)
  /\ blocks' = Append(blocks, [kind |-> "tool_use", pieces |-> <<p>>])
  /\ current_kind' = NoKind

\* The first piece of another kind opens a block, every piece is added to the newest.
HearText(p) ==
  /\ Hears(p)
  /\ LET open == IF current_kind = p.kind THEN blocks
                 ELSE Append(blocks, [kind |-> p.kind, pieces |-> <<>>])
     IN blocks' = IF p.empty THEN open
                  ELSE [open EXCEPT ![Len(open)].pieces = Append(@, p)]
  /\ current_kind' = p.kind

SkipOther == Hears(OtherPart) /\ UNCHANGED <<current_kind, blocks>>

\* assistant_content: thoughts and empty texts are not stored.
Stored(B) ==
  FlattenSeq([i \in DOMAIN B |->
    CASE B[i].kind = "tool_use" ->
           <<ToolUse(i, Head(B[i].pieces).name, Head(B[i].pieces).signed)>>
      [] B[i].kind = "text" /\ B[i].pieces # <<>> -> <<TextBlock>>
      [] OTHER -> <<>>])

\* The stream ends, or is cut short by an interrupt.
AnswerEnds ==
  /\ geminiAt = "stream"
  /\ talk' = Append(talk, Said("assistant", Stored(blocks)))
  /\ geminiAt' = IF \E i \in DOMAIN blocks : blocks[i].kind = "tool_use" THEN "tools" ELSE "idle"
  /\ UNCHANGED <<current_kind, blocks, streamed, asked>>

\* The calls have their results, in their order, and the model is asked again.
SendResults ==
  /\ geminiAt = "tools"
  /\ Len(talk) < MaxTalk
  /\ LET calls == CallsOf(Last(talk))
         results == [j \in DOMAIN calls |-> ToolResult(calls[j].id, FALSE)]
     IN Ask(Append(talk, Said("user", results)))

GeminiNext ==
  \/ PromptGemini
  \/ \E p \in CallParts : HearCall(p)
  \/ \E p \in TextParts : HearText(p)
  \/ SkipOther
  \/ AnswerEnds
  \/ SendResults

GeminiSpec == GeminiInit /\ [][GeminiNext]_geminiVars

-----------------------------------------------------------------------------
BlockSet == [kind : {"text", "tool_use", "tool_result"}, id : 0 .. MaxParts,
             name : ToolNames \union {NoTool}, signed : BOOLEAN, bare : BOOLEAN]
GeminiTypeOK ==
  /\ \A i \in DOMAIN talk : /\ talk[i].role \in {"user", "assistant"}
                            /\ \A j \in DOMAIN talk[i].content : talk[i].content[j] \in BlockSet
  /\ geminiAt \in {"idle", "stream", "tools"}
  /\ current_kind \in {NoKind, "text", "thinking"}
  /\ \A i \in DOMAIN blocks : blocks[i].kind \in {"text", "thinking", "tool_use"}
  /\ Len(streamed) <= MaxParts

\* The parts that say something.
IsPiece(p) == p.kind = "tool_use" \/ (p.kind \in {"text", "thinking"} /\ ~p.empty)
Pieces(parts) ==
  FlattenSeq([i \in DOMAIN parts |-> IF IsPiece(parts[i]) THEN <<parts[i]>> ELSE <<>>])

\* "Block boundaries are inferred here from when a part's kind changes": whatever
\* order texts, thoughts and calls come in, the blocks hold every piece that was
\* streamed, in order and once, and each in a block of its kind, so that a text after
\* a call is not lost in the call's block.
BlocksFollowParts ==
  /\ FlattenSeq([i \in DOMAIN blocks |-> blocks[i].pieces]) = Pieces(streamed)
  /\ \A i \in DOMAIN blocks : \A k \in DOMAIN blocks[i].pieces :
       blocks[i].pieces[k].kind = blocks[i].kind

\* "The tool_result's name is looked up from the matching tool_use id", and its text is
\* the result: every functionResponse of a request carries the name of the call it
\* answers, which stands at its place in the content before, and what the tool returned.
ResultsReachTheModel ==
  \A i \in DOMAIN asked : \A j \in DOMAIN asked[i].parts :
    LET p == asked[i].parts[j]
        calls == SelectSeq(asked[i - 1].parts, LAMBDA q : q.kind = "functionCall")
    IN p.kind = "functionResponse" => p.text /\ p.name = calls[j].name
=============================================================================
