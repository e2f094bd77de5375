-------------------------------- MODULE Shell --------------------------------
(***************************************************************************)
(* The native engine's Bash tool (src/src/agent/tools.rs): a shell with    *)
(* two pipes, what it leaves in the background, the two readers that keep  *)
(* the beginning of each stream and discard the rest, and the time-out     *)
(* that kills the command.  What is written is counted.                    *)
(***************************************************************************)
EXTENDS Naturals, FiniteSets, FiniteSetsExt

CONSTANTS ShellPipe,  \* what a pipe holds
          MaxOutput,  \* MAX_OUTPUT
          MaxWritten  \* bound: what is written to one stream

ASSUME ShellAssumption ==
  ShellPipe \in Nat \ {0} /\ MaxOutput \in Nat /\ MaxWritten \in Nat

Streams == {"stdout", "stderr"}

VARIABLES
  wholeTree,   \* Windows: a kill reaches the descendants too
  shell,       \* "running", "exited"
  background,  \* what the shell started with &: "none", "piped" (it holds the shell's
               \* pipes), "detached" (its output goes elsewhere), "exited"
  written,     \* written[s]: what was written to s
  inPipe,      \* inPipe[s]: what of it is in the pipe
  kept,        \* kept[s]: the length of buf in read_capped
  truncated,   \* truncated[s]
  ended,       \* ended[s]: the reader of s is done
  answer       \* the tool's result: "none", "output", "timed out"

shellVars == <<wholeTree, shell, background, written, inPipe, kept, truncated, ended, answer>>

ShellInit ==
  /\ wholeTree \in BOOLEAN
  /\ shell = "running" /\ background = "none"
  /\ written = [s \in Streams |-> 0]
  /\ inPipe = [s \in Streams |-> 0]
  /\ kept = [s \in Streams |-> 0]
  /\ truncated = [s \in Streams |-> FALSE]
  /\ ended = [s \in Streams |-> FALSE]
  /\ answer = "none"

-----------------------------------------------------------------------------
(* The command.                                                            *)

\* A process holds both pipes until it exits.
HoldsPipes == {p \in {"shell", "background"} :
                 IF p = "shell" THEN shell = "running" ELSE background = "piped"}

\* A write waits while the pipe is full.
CommandWrites(s) ==
  /\ answer = "none"
  /\ HoldsPipes # {}
  /\ written[s] < MaxWritten /\ inPipe[s] < ShellPipe
  /\ written' = [written EXCEPT ![s] = @ + 1]
  /\ inPipe' = [inPipe EXCEPT ![s] = @ + 1]
  /\ UNCHANGED <<wholeTree, shell, background, kept, truncated, ended, answer>>

CommandForks ==
  /\ shell = "running" /\ background = "none"
  /\ background' \in {"piped", "detached"}
  /\ UNCHANGED <<wholeTree, shell, written, inPipe, kept, truncated, ended, answer>>

ShellExits ==
  /\ shell = "running" /\ shell' = "exited"
  /\ UNCHANGED <<wholeTree, background, written, inPipe, kept, truncated, ended, answer>>

BackgroundExits ==
  /\ background \in {"piped", "detached"} /\ background' = "exited"
  /\ UNCHANGED <<wholeTree, shell, written, inPipe, kept, truncated, ended, answer>>

-----------------------------------------------------------------------------
(* The tool.                                                               *)

\* Mutant: stderr is read once stdout has ended.
ReadingInTurn(s) == ~ended[s] /\ (s = "stderr" => ended["stdout"])

\* The two readers are joined: neither waits for the other.
Reading(s) == ~ended[s]

\* read_capped: a chunk is kept as far as there is room.
Takes(s, n) == Min({n, MaxOutput - kept[s]})

ReadChunk(s, n) ==
  /\ answer = "none" /\ Reading(s)
  /\ n <= inPipe[s]
  /\ inPipe' = [inPipe EXCEPT ![s] = @ - n]
  /\ kept' = [kept EXCEPT ![s] = @ + Takes(s, n)]
  /\ truncated' = [truncated EXCEPT ![s] = @ \/ Takes(s, n) < n]
  /\ UNCHANGED <<wholeTree, shell, background, written, ended, answer>>

ReadEnd(s) ==
  /\ answer = "none" /\ Reading(s)
  /\ inPipe[s] = 0 /\ HoldsPipes = {}
  /\ ended' = [ended EXCEPT ![s] = TRUE]
  /\ UNCHANGED <<wholeTree, shell, background, written, inPipe, kept, truncated, answer>>

\* What the answer shows: stdout, then stderr, and of both together no more than one
\* stream may have.  The line break between them is not counted.
Shown(s) ==
  IF s = "stdout" THEN kept[s] ELSE Min({kept[s], MaxOutput - kept["stdout"]})
Marked == \/ \E s \in Streams : truncated[s]
          \/ kept["stdout"] + kept["stderr"] > MaxOutput

\* Both streams have ended and the shell is waited for.
BashReturns ==
  /\ answer = "none"
  /\ \A s \in Streams : ended[s]
  /\ shell = "exited"
  /\ answer' = "output"
  /\ UNCHANGED <<wholeTree, shell, background, written, inPipe, kept, truncated, ended>>

\* kill_process_tree: everything on Windows, the shell alone elsewhere.
BashTimesOut ==
  /\ answer = "none"
  /\ answer' = "timed out"
  /\ shell' = "exited"
  /\ background' = IF wholeTree /\ background # "none" THEN "exited" ELSE background
  /\ UNCHANGED <<wholeTree, written, inPipe, kept, truncated, ended>>

ShellNext ==
  \/ \E s \in Streams : CommandWrites(s)
  \/ CommandForks \/ ShellExits \/ BackgroundExits
  \/ \E s \in Streams : \E n \in 1 .. ShellPipe : ReadChunk(s, n)
  \/ \E s \in Streams : ReadEnd(s)
  \/ BashReturns \/ BashTimesOut

ShellSpec == ShellInit /\ [][ShellNext]_shellVars

-----------------------------------------------------------------------------
ShellTypeOK ==
  /\ wholeTree \in BOOLEAN
  /\ shell \in {"running", "exited"}
  /\ background \in {"none", "piped", "detached", "exited"}
  /\ {written, inPipe, kept} \subseteq [Streams -> 0 .. MaxWritten]
  /\ {truncated, ended} \subseteq [Streams -> BOOLEAN]
  /\ answer \in {"none", "output", "timed out"}

\* "The excess is drained and discarded so the child never blocks on a full pipe":
\* while the tool waits, a full pipe is being read, whatever the other stream does and
\* however much was kept of this one.
NeverWedged ==
  answer = "none" => \A s \in Streams : inPipe[s] = ShellPipe => Reading(s)

\* "Each stream is capped as it's read": the answer of a command that finishes begins
\* with all that the command, and what it left on its pipes, wrote to stdout, up to the
\* cap, and it is marked as truncated exactly if something that was written is missing.
AnswerHoldsOutput ==
  answer = "output" =>
    /\ HoldsPipes = {}
    /\ Shown("stdout") = Min({written["stdout"], MaxOutput})
    /\ Marked <=> \E s \in Streams : Shown(s) < written[s]

CommandIsHeard == NeverWedged /\ AnswerHoldsOutput
=============================================================================
