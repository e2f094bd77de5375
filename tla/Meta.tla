-------------------------------- MODULE Meta --------------------------------
(***************************************************************************)
(* The chats' metadata (src/src/titles.rs): the map, the snapshots of it   *)
(* that are queued for the writer thread, and the file; the turn tracker   *)
(* of the keepers that feeds it (src/src/session.rs); and the handlers     *)
(* that name and delete a chat (src/src/main.rs), a few steps each, while  *)
(* turns of the same chat go on.                                           *)
(***************************************************************************)
EXTENDS Naturals, Sequences, FiniteSets, SequencesExt

CONSTANTS Chats,
          Models,    \* model names
          Engine,    \* the engine of this server: "cli" or "native"
          MaxTurns,  \* bound: turns recorded in a run
          MaxNames   \* bound: names set in a run

\* No name: the empty string.
NoModel == "no model"

ASSUME MetaAssumption ==
  /\ Engine \in {"cli", "native"} /\ NoModel \notin Models
  /\ MaxTurns \in Nat /\ MaxNames \in Nat

VARIABLES
  map,       \* MetaStore.map
  queue,     \* snapshots sent to the writer thread
  inHand,    \* the snapshot it is writing: a sequence of none or one
  disk,      \* chat_meta.json
  unsaved,   \* its last write failed
  files,     \* the transcripts: <<engine, chat>>
  running,   \* chats with a turn that has not ended
  tracker,   \* tracker[c]: the model the keeper's tracker saw last
  deleting,  \* deleting[c]: how far delete_chat has come: "no", "files", "meta", "done"
  rewritten, \* chats written again, or kept, since their deletion began
  turns, named

metaVars == <<map, queue, inHand, disk, unsaved, files, running, tracker, deleting,
              rewritten, turns, named>>

Entries == [title : BOOLEAN, total : 0 .. MaxTurns, models : [Models -> 0 .. MaxTurns]]
NoEntry == [title |-> FALSE, total |-> 0, models |-> [m \in Models |-> 0]]

\* A chat is in the map if its entry says anything: a blank title, no icon and no
\* turns is no entry.
Maps == [Chats -> Entries]
Present(m) == {c \in Chats : m[c] # NoEntry}
AllModels == Models \cup {NoModel}

\* Chats of either engine may be there from earlier runs, with their entries.
MetaInit ==
  /\ files \in SUBSET ({"cli", "native"} \X Chats)
  /\ map = [c \in Chats |->
       [NoEntry EXCEPT !.title = \E e \in {"cli", "native"} : <<e, c>> \in files]]
  /\ disk = map
  /\ queue = <<>> /\ inHand = <<>> /\ unsaved = FALSE
  /\ running = {}
  /\ tracker = [c \in Chats |-> NoModel]
  /\ deleting = [c \in Chats |-> "no"]
  /\ rewritten = {}
  /\ turns = 0 /\ named = 0

\* The whole map is sent, by whoever changes it.
Change(m) == map' = m /\ queue' = Append(queue, m)

\* History: whoever writes a chat during or after its deletion brings it back.
Rewrite(c) == rewritten' = IF deleting[c] = "no" THEN rewritten ELSE rewritten \cup {c}

-----------------------------------------------------------------------------
(* Naming: under the map's lock the transcript is created if it is missing *)
(* and the entry replaced, its turns kept.                                 *)

SetMeta(c, title) ==
  /\ named < MaxNames
  /\ named' = named + 1
  /\ files' = files \cup {<<Engine, c>>}
  /\ Change([map EXCEPT ![c].title = title])
  /\ Rewrite(c)
  /\ UNCHANGED <<inHand, disk, unsaved, running, tracker, deleting, turns>>

-----------------------------------------------------------------------------
(* Turns, as the tracker sees them.                                        *)

TurnBegins(c) ==
  /\ c \notin running /\ turns + Cardinality(running) < MaxTurns
  /\ running' = running \cup {c}
  /\ UNCHANGED <<map, queue, inHand, disk, unsaved, files, tracker, deleting, rewritten,
                 turns, named>>

\* An answer of a CLI keeper names the model; the tracker keeps it for the result.
AssistantLine(c, model) ==
  /\ c \in running
  /\ tracker' = [tracker EXCEPT ![c] = model]
  /\ UNCHANGED <<map, queue, inHand, disk, unsaved, files, running, deleting, rewritten,
                 turns, named>>

\* The engine or the child writes the transcript.
SaveTranscript(c) ==
  /\ c \in running
  /\ files' = files \cup {<<Engine, c>>}
  /\ Rewrite(c)
  /\ UNCHANGED <<map, queue, inHand, disk, unsaved, running, tracker, deleting, turns, named>>

RecordTurn(entry, model) ==
  [entry EXCEPT !.total = @ + 1,
                !.models = [m \in Models |-> IF m = model THEN @[m] + 1 ELSE @[m]]]

\* The result: the model it names itself, if it does, else the one the tracker saw.
ResultLine(c, model) ==
  /\ c \in running
  /\ running' = running \ {c}
  /\ turns' = turns + 1
  /\ Change([map EXCEPT ![c] = RecordTurn(@, IF model = NoModel THEN tracker[c] ELSE model)])
  /\ Rewrite(c)
  /\ UNCHANGED <<inHand, disk, unsaved, files, tracker, deleting, named>>

\* A result without a duration or tokens, or none at all.
TurnLeavesNothing(c) ==
  /\ c \in running
  /\ running' = running \ {c}
  /\ UNCHANGED <<map, queue, inHand, disk, unsaved, files, tracker, deleting, rewritten,
                 turns, named>>

-----------------------------------------------------------------------------
(* delete_chat.                                                            *)

\* The keeper is dropped and interrupted: its turn, if there is one, goes on to its end.
DeleteChat(c) ==
  /\ deleting[c] \in {"no", "done"} /\ \E e \in {"cli", "native"} : <<e, c>> \in files
  /\ deleting' = [deleting EXCEPT ![c] = "files"]
  /\ rewritten' = rewritten \ {c}
  /\ UNCHANGED <<map, queue, inHand, disk, unsaved, files, running, tracker, turns, named>>

\* Mutant: only the transcript of the server's own engine is removed.
DeleteOwnFile(c) ==
  /\ deleting[c] = "files"
  /\ deleting' = [deleting EXCEPT ![c] = "meta"]
  /\ files' = files \ {<<Engine, c>>}
  /\ UNCHANGED <<map, queue, inHand, disk, unsaved, running, tracker, rewritten, turns, named>>

\* A file that cannot be removed is logged and kept.
DeleteFiles(c) ==
  /\ deleting[c] = "files"
  /\ deleting' = [deleting EXCEPT ![c] = "meta"]
  /\ \E kept \in SUBSET {f \in files : f[2] = c} :
       /\ files' = {f \in files : f[2] # c} \cup kept
       /\ rewritten' = IF kept = {} THEN rewritten ELSE rewritten \cup {c}
  /\ UNCHANGED <<map, queue, inHand, disk, unsaved, running, tracker, turns, named>>

\* The entry is removed, and the map sent if there was one.
DeleteMeta(c) ==
  /\ deleting[c] = "meta"
  /\ deleting' = [deleting EXCEPT ![c] = "done"]
  /\ IF c \in Present(map) THEN Change([map EXCEPT ![c] = NoEntry]) ELSE UNCHANGED <<map, queue>>
  /\ UNCHANGED <<inHand, disk, unsaved, files, running, tracker, rewritten, turns, named>>

-----------------------------------------------------------------------------
(* The writer thread.                                                      *)

\* Mutant: of what is queued the first is written.
WriterTakesFirst ==
  /\ inHand = <<>> /\ queue # <<>>
  /\ inHand' = <<Head(queue)>> /\ queue' = <<>>
  /\ UNCHANGED <<map, disk, unsaved, files, running, tracker, deleting, rewritten, turns, named>>

\* It takes all that is queued and writes the newest.
WriterTakes ==
  /\ inHand = <<>> /\ queue # <<>>
  /\ inHand' = <<Last(queue)>> /\ queue' = <<>>
  /\ UNCHANGED <<map, disk, unsaved, files, running, tracker, deleting, rewritten, turns, named>>

\* The file is replaced as a whole; a failure is ignored.
WriterWrites ==
  /\ inHand # <<>>
  /\ inHand' = <<>>
  /\ \/ disk' = inHand[1] /\ unsaved' = FALSE
     \/ disk' = disk /\ unsaved' = TRUE
  /\ UNCHANGED <<map, queue, files, running, tracker, deleting, rewritten, turns, named>>

\* The server dies and starts again from the file: what was queued is lost, and a
\* deletion that was under way is never finished.
ServerRestarts ==
  /\ map' = disk
  /\ queue' = <<>> /\ inHand' = <<>> /\ unsaved' = FALSE
  /\ running' = {}
  /\ tracker' = [c \in Chats |-> NoModel]
  /\ deleting' = [c \in Chats |-> "no"]
  /\ rewritten' = {}
  /\ UNCHANGED <<disk, files, turns, named>>

MetaNext ==
  \/ \E c \in Chats :
       \/ \E title \in BOOLEAN : SetMeta(c, title)
       \/ TurnBegins(c) \/ SaveTranscript(c) \/ TurnLeavesNothing(c)
       \/ \E m \in AllModels : ResultLine(c, m)
       \/ \E m \in Models : AssistantLine(c, m)
       \/ DeleteChat(c) \/ DeleteFiles(c) \/ DeleteMeta(c)
  \/ WriterTakes \/ WriterWrites \/ ServerRestarts

MetaSpec == MetaInit /\ [][MetaNext]_metaVars

-----------------------------------------------------------------------------
MetaTypeOK ==
  /\ map \in Maps /\ disk \in Maps
  /\ queue \in Seq(Maps) /\ Len(inHand) <= 1 /\ Range(inHand) \subseteq Maps
  /\ unsaved \in BOOLEAN
  /\ files \subseteq {"cli", "native"} \X Chats
  /\ running \subseteq Chats /\ rewritten \subseteq Chats
  /\ tracker \in [Chats -> AllModels]
  /\ deleting \in [Chats -> {"no", "files", "meta", "done"}]
  /\ turns \in 0 .. MaxTurns /\ named \in 0 .. MaxNames

\* Whenever the writer has nothing left to do, the file holds the map as it is, unless
\* the last write failed: however names, turns and deletions are queued while it writes,
\* none is dropped and none is overtaken by an older one, restarts included.
QuietFileIsCurrent == queue = <<>> /\ inHand = <<>> /\ ~unsaved => disk = map

\* A chat whose deletion has ended is gone: no transcript of either engine and no entry,
\* unless a file could not be removed or a turn that was still running, or a new name,
\* wrote it again since the deletion began.  That can happen: the keeper is interrupted,
\* not waited for.
DeletedIsGone ==
  \A c \in Chats :
    deleting[c] = "done" /\ c \notin rewritten =>
      c \notin Present(map) /\ \A f \in files : f[2] # c
=============================================================================
