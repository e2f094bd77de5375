# agent_web in TLA+

`agent_web` puts a coding agent in the browser: a Rust/Axum server that, for
every chat, owns a background *keeper* - either a `claude` child process or its
own agent loop - and streams its events over websockets to any number of
viewers.  The code is small, but most of what it does is concurrent: keepers
outlive connections, connections attach and detach while the keeper works, a
reaper forgets keepers, an operator drains the server, several people share one
agent.  Around the sessions stand smaller services with races of their own: tool
permissions, a side chat, guest access, a token broker, metadata, an MCP client,
the control of a virtual machine.  These modules model both, TLC checks them on
small instances and TLAPS proves the main results for every size.

All line numbers in `PROJECT.json` refer to the repository's files; the `map`
there names the lines behind every definition.

## 1. The system

| component | state | operations | hard part | what makes it correct |
|---|---|---|---|---|
| event stream (`session.rs` emit/subscribe, `ws.rs` attach) | scrollback under a mutex, broadcast ring, a receiver per socket | emit, broadcast_ephemeral, subscribe, replay, receive, lag, disconnect | a viewer joins in the middle of emission; slow viewers | every line exactly once and in order, nothing lost without a lag |
| room (`session.rs` `room_*`) | members, driver, last activity | join, leave, take, release, touch, role check of Send | handlers wait between check and effect; idle takeover; respawned keepers | one driver, present, not dispossessed while active, and only its prompts run |
| actors (`run_actor`, `run_native_actor`) | command channel, busy, finished, interrupt flag, child | user turn, interrupt, result, exit, end of handles | bounded channel, pipes, a child that dies at any moment | busy reports turns; the actor and its child end |
| drain and stop (`main.rs`, `ws.rs` Send) | draining flag, count of active turns | begin/end drain, health poll, stop signal, forced stop | flag, busy and channels are read at different times | no turn that is reported as running is cut off; a drain settles; a stop completes |
| keeper life cycle (`SessionManager`, `AttachGuard`, reaper) | map, viewer count, idle clock | get, get_or_spawn, attach, drop, reap, remove | count and clock are updated separately, the reaper reads both | no keeper leaks, none is reaped in use, no orphaned process |
| websocket handler (`ws.rs`) | keeper, guard, receiver, rate limiter per socket | one handler per client message | awaits inside a handler | see the four above |
| permission protocol (`session.rs` control requests) | caps of the newest prompt, kept inputs, cards | child asks, auto-approval, several viewers answer | late and second answers, caps that change meanwhile | the first answer of a request fits it; while the keeper lives a card is open exactly while its request waits |
| party hub (`PartyHub`) | names, log, ring | claim/release name, subscribe, history, post | collisions of wished, numbered and given names; log and ring are written apart | names are apart; who joined hears what the log holds |
| native engine (`agent/mod.rs`, `client.rs`, `store.rs`) | messages array, its file, the answer being received | prompt, request, retry, stream, tools, save, compact, sanitize | failures, interrupts and crashes between any two steps | calls and results are paired in every request; what is stored was shown; turns end |
| Bash tool (`agent/tools.rs`) | two pipes, two capped buffers | read, time-out, kill | full pipes, a background process that holds them | neither pipe is left unread; what is missing is marked |
| Gemini adapter (`agent/gemini.rs`) | kind of the open block, made-up ids | translate an answer, build a request | boundaries and names are inferred | no piece is lost; a result reaches the model under its call's name |
| MCP client (`agent/mcp.rs`) | table of waiters, lock of stdin, reader task | handshake, call, answer, time-out, death | late, repeated and reordered answers, the server's own requests, dead server | a call gets a line of its own id or a failure, and leaves no waiter |
| chat metadata (`titles.rs`, `TurnTracker`, `delete_chat`) | map, queue of snapshots, file | name, record a turn, delete, write, restart | a writer thread behind the map; turns that outlive a deletion | an idle writer has written the newest map; what is deleted is gone |
| guest access (`auth.rs`) | codes, their copy on the guest machine, cookies | mint, revoke (routes and command), push, log in, gate | a file without a lock, pushes that fail, overtake each other or are not made, two clocks | a served page had a code that lasts |
| broker tokens (`broker.rs`, `config.rs`) | a JSON file, its temporary file | mint, revoke, charge, expire; truncate, write, rename | no lock from load to save; two processes; crash | exact until two operations overlap; torn only if two saves of one process do |
| rate limits (`ratelimit.rs`, `ws.rs`) | windows of hits | allow, sweep | the clock is read before the lock | never more than the budget in a window |
| executor (`executor.rs`, `handle_executor`) | the guest machine, its server | start, stop, drain-stop by several sockets | polling flags that change, of a server that may be unreachable | the machine is not stopped under the turns a drain waits for |
| chat list and transcripts (`history.rs`) | the CLI's files, a cache of summaries | list, load | files are read while they are written | a cached summary is that of the file; a repeated message counts once |
| browser client (`static/js`) | socket, composer hold | reconnect, send, confirm | echo of another client | no prompt lost or doubled |
| routes, files, banner, wizard, MCP guest bridge | - | parsing, I/O | none of its own | - |

How they interact: a websocket task calls `SessionManager` (a lock around the
map), gets an `Arc` of a keeper, subscribes to its ring, counts itself in with an
`AttachGuard`, joins the room, and from then on sends commands through a bounded
channel to the actor.  The actor emits lines.  The reaper and `delete_chat` take
keepers out of the map and send them an interrupt.  `/api/drain`, SIGUSR1 and the
stop signal set or read the draining flag and `active_turns`, which looks at every
keeper's `busy` and `finished`.

The services are called from these handlers and from HTTP routes: the permission
protocol runs inside the CLI actor, the engine calls the tools, the MCP client and the
Gemini adapter, a keeper's turn tracker feeds the metadata, `/broker/v1/messages`
charges tokens, the owner's socket controls the guest machine, and the guest codes are
pushed to it.  None of them shares a variable with another one or with the session
core.

The hazards of this code, each at its line and with the properties that cover it,
are the `hazards` of `PROJECT.json`.

## 2. The modules

    StreamSpec      abstract: one log, a cursor per viewer
    Stream          the event stream                 <- StreamProofs, MCStream
    RoomSpec        abstract: who is present, who holds the wheel, who says something
    Room            the room of a session            <- RoomProofs, MCRoom
    Actors          the actors (no Next of its own)  <- ActorsProofs
      Drain         Actors + connections + drain     <- DrainProofs, MCDrain
      Keeper        Actors + connections + map,
                    reaper, removal                  <- KeeperProofs, MCKeeper
    Engine          the native engine's turn         <- EngineProofs, MCEngine
    Permission, Party, Limits, Tokens, Seats, Meta,
    Mcp, Guest, History, Shell, Gemini               <- MCServices (<- ServiceProofs)
    Seats, Guest                                     <- MCAccess
    Gemini                                           <- MCGemini
    SequenceInduction  lemmas on sequences           <- ServiceProofs, EngineProofs

Operators whose comment starts with "Mutant:" are wrong variants of the operator
that follows them: plausible bugs, each of which breaks one of the properties
below.  No specification uses them.

### Stream

The state is the scrollback, the whole history of the ring (`chan`; a receiver
may read its last `BroadcastCap` entries, like tokio's broadcast channel), the
half of `emit` the actor is in, and per viewer its step in `attach`, its position
on the ring and what is left of its replay.  `emit` and `subscribe` are two
actions each, because the mutex is held across both halves; `MutexFree` is the
guard.  `BroadcastEphemeral` (rosters) does not take the mutex and puts frames
without a number on the ring.  `seen` and `lagged` are history.

- `ExactlyOnce`: a viewer is sent consecutive lines, unless it lagged; then later
  ones, never one twice.
- `CaughtUpHasNewest`: a viewer that read all of the ring and never lagged has the
  newest line.  It is proved for every size, no run repeats it.
- `EveryFrameIsRead` (liveness): a viewer that stays gets past every frame.
- `ImplementsStreamSpec`: the refinement of `StreamSpec`, whose viewer starts
  `Window` lines back and gets one line after the other.  A viewer joins the
  abstract stream when it copies the scrollback; its cursor is the line before the
  next one of its replay, or the last it was sent.

Run `stream`: two viewers, a scrollback and a ring of 2, 3 lines and a roster
more.  That is enough for the scrollback to be trimmed, for a replay to fall behind
the ring, for a lag, and for a second attach after each of them.

### Room

`enforced` is `auth.enabled`: on a guest instance only the driver may send.  Rooms
are indexed by the keeper's number, since a respawned keeper has an empty room and
a connection that moves on does not leave the old one.  `asleep` holds the members
whose last activity is `WHEEL_IDLE` old.  A Send is a check (`SendCheck`, with
`room_touch`) and later an `Enqueue`, because the channel may be full in between.
`told` is what the client was last told about its role.

- `WheelHeldByPresent`: the driver of a running session is a member whose socket is
  attached, and the room is within its cap.
- `BelievedDriverDrives`: with roles enforced, an awake client that was told it
  drives does.
- `SteeredByDriver`: a prompt enters the channel only from the driver, or from one
  that slept through its own wait for the channel (`slept`).
- `ImplementsRoomSpec`: the refinement of `RoomSpec`, which knows people and rooms but
  no sockets, handlers, role frames or keepers.  A handler past its role check is
  `cleared`, the command channel is what was `said`; a keeper that ends hears no more.
  A person who is cleared does not leave, and says what it was cleared for as the
  holder of the wheel or after it fell idle.  That the wheel passes from a member to
  another only if the first is asleep (`WheelNotSeized`) is part of it, and proved by itself.

Run `room`: three connections, two seats, a channel of one, two keepers.  A
connection that was refused a seat is never joined later, although ws.rs:901-904 says
it can't drive or chat "until a slot frees": the model has no such action.  A native keeper that is taken out of the map while it lives is `Keeper`'s subject;
in `Room` a keeper is followed by another only when its actor has ended.

### Actors

One function per piece of keeper state, one action per branch of the two
`select!` loops.  A prompt makes the CLI actor busy and then waits in `write_all`
(`CliUser`, `CliWrite`); `kill_process_tree` does not wait for the child to exit;
`busy` and `finished` are stored before the last kill (`CliFinish`, `CliKill`).
The native actor drops a prompt and notes an interrupt while a turn runs, and
ignores an interrupt when idle.  The child is external: it answers or exits at any
time.  `CWI_ENGINE` chooses the actor for the whole server, hence the constant
`Engines`.

### Drain

A Send handler reads the flag (`SendCheck`, `SendSpawns`), and sends its prompt
later.  `active_turns` reads one keeper per step (`CountOne`); it holds the map's
lock, but busy and finished are atomics that actors change meanwhile.  A drain begins
and ends at any time, also while a stop waits: the routes are public and SIGUSR1 is
served until the process ends.  `owed` is history: the keepers that `busy` reported
mid-turn at the stop signal and has reported so ever since; `lifted` notes that a drain
was ended while the stop waited.

- `StopWaitsForTurns`: an unforced stop leaves nothing owed.  It speaks of what `busy`
  reports, which is not all that runs: see section 4.
- `NativeBusyIsTurn`: native keepers report a turn exactly while one runs.  It is
  proved for every size, no run repeats it.
- `DrainSettles` (liveness): under a lasting drain all turns end for good, or one turn
  never ends.  `StopCompletes`: a stop that waits completes, unless the drain is ended
  meanwhile or one turn never ends.  Prompts that passed the check cannot hold either up
  for ever.
- `ZeroIsSafe` is violated (run `drain_zero`), see the findings.

Runs: `drain` (safety) has two keepers on either engine and two connections, so that the
count passes one keeper while the other's turn begins or ends, with channels and pipes
of one.  `drain_live` has one keeper and channels and pipes of two, so that two prompts are
in flight.

### Keeper

One chat.  Attaching is: take the `Arc` (`AttachMsg`, `SendFinds`, `SendSpawns`),
replay, count (`CountViewer`), stop the clock (`StopClock`), drop the guard that is
replaced, set keeper and guard (`Attached`), and for a Send the prompt.  Dropping a
guard is `UncountViewer` and, for the last one, `StartClock`.  The reaper reads the
count (`ReaperLooks`), then clock and `finished` under the same lock
(`ReaperForgets`, `ReaperKeeps`), and interrupts after it (`ReaperKills`).  A keeper
that nothing refers to any more is `Freed`, and its name used again.

- `IdleClock`: a keeper without viewers has its clock running, or a guard on its
  way to start it.
- `ViewersCounted`: the count is the number of guards, whatever fails half-way.
- `NoOrphanProcess` (CLI): a keeper outside the map is on its way out.
- `UnviewedIsForgotten`, `ForgottenChildExits`, `UnreachableActorEnds` (liveness).
- `NoTurnAfterRemoval` is violated (run `keeper_removed`), see the findings.

Runs: `keeper` (CLI, two keepers, one connection: a chat whose keeper is reaped, removed
or dies and is replaced, and its guard with it; 2.3 million states up to symmetry),
`keeper_live` (one keeper of either engine, two connections: one attaches while the other's
guard is dropped; 0.1 million states, and every liveness property), and `keeper_removed`
(native, two connections).  `KeeperProofs` has the safety properties for
any number of connections.

### Engine

One chat of the native engine: the history in memory (`messages`) and in its file
(`disk`), the place of `run_turn`, and its locals.  A message keeps its role,
whether it has text, and the ids of the calls or results in it.  `Prompt` compacts
and appends; `Request`, `Responds`, `StreamEvent`, `RequestFails` and `RetryNow` are
the retry loop, in which the interrupt is looked at only while the answer streams;
`StoreAnswer` follows the stream, whether it ended or was interrupted; tools give one
result each, whatever becomes of them.  Every append is followed by a save that may
fail.  `Crash` keeps only the file; `Restart` loads and repairs it.  In a step the loop
of `sanitize_messages` is its result (`Sanitize`); `SanitizeRound` is one round of it and
`SanitizeLoop` the whole.  That the two agree is proved for every history, damaged ones
included; `MCEngine` also evaluates it for those of up to three messages.

- `RequestsArePaired`: whatever happened before, the history of a request has the
  result of every call in the next message, no result without its call, and begins
  with the user.
- `ShownIsStored`: retries never make the stored answer differ from the one shown.
- `TurnEnds` (liveness): a turn ends, or hangs for good in one of three places: the wait
  for the provider's response, where no interrupt reaches it; a tool that does not return,
  where none is looked at either; a stream that nobody interrupts.

Run `engine`: two calls, two steps, one retry, a cap of two messages, and prompts while
the history has at most three: enough for a cut in the middle of a turn, for a turn
longer than the cap, and for crashes with open calls in the file.

### The services

Each of these modules stands alone, with variables, `Next` and a type invariant of its
own.  `MCServices` runs them side by side: `part` says which one a behaviour is about,
only that one steps, and the others stay as they began, so that the states of the
parts add up instead of multiplying.  Since no two of them share a variable, nothing is
lost.  Run `services` has 0.8 million states.  *Seats* and *Guest* are there
with one code and one keeper, for their types; their properties need more participants at
once, and run `access` checks them alone (`MCAccess`, built the same way).

**Permission.**  A CLI keeper's `run_actor` as far as tools are concerned: the caps of the
newest prompt it has received, requests of the child (`ChildAsks`), auto-approval or a
card (`AutoApprove`, `AskViewers`), and answers that come through the command channel from
any viewer that was shown the card (`Vote`, `TakeResponse`).  `FirstAnswerFits`: the first
answer is a refusal or carries the request's own input, although a second answer finds
no input and allows with an empty one.  `WaitingIsShown`: while the actor runs, cards open
and inputs kept are the same set, and no open card has been answered.  When the child exits,
the kept inputs are gone with the loop and the cards stay open: nobody is told.

**Party.**  A name is a word and the numbers after it, so that a wish can read like
another's numbered name.  `Post` logs and resolves the name, `PostSend` sends on the ring
after the lock is released; `Subscribe` comes before `History`.  `NamesAreApart`;
`JoinedHearAll`: between log and ring nothing falls through.  The headcount frames that
share the ring are left out: they can only make a receiver lag sooner.

**Limits.**  `ReadClock` and `Allow` are apart, because `allow` gets its `Instant` before the
lock; `AllowFrame` is the limiter of one socket.  `accepted` is history: when the last
requests were let through.  `WithinBudget`: no stretch of a window has more than the
budget, whatever late readings and the sweep do; a late reading may cost its delay.

**Tokens.**  Handlers of the server and runs of the `broker` command load, decide and save;
the save is `write_atomic` step by step: truncate, write, rename, or remove when the rename
fails.  `handle` follows an opened file that somebody renames.  `Die` is a crash of one
process.  `ExactUntilRaced`: until two operations overlap the store is exact, crashes
included.  `TornOnlyByOverlap`.

**Seats.**  The owner's codes in a file that handlers and the `guest` command read, change and
write without a lock (`ReadStore`, `MintCode`, `RevokeCode`), copies of it on the way to the guest
machine (`CopyStore`, `PushArrives`; the command makes none), logins there in two steps
(`VerifyCode`, `GrantSeat`) with a clock that may advance between, and the gate.
`ServedHadCode`: a page is served only while the code lasts, give or take one login, and
for a revoked code only if at the login the machine's copy was old or the file had been set
back.  When that is the case is said by `astray` (a command revoked, or a push failed or was
overtaken, and none has arrived alone since), by the edits still on their way, and by
`undone` (a file read before a revocation was written after it).  In run `access`: two codes, two
editors, a guest, three seconds; 1.2 million states up to symmetry.

**Meta.**  The map and its snapshots, the writer thread, the turn tracker, naming, and
`delete_chat` in three steps while turns go on; `ServerRestarts` keeps the file.
`QuietFileIsCurrent`: an idle writer has written the map, unless its last write failed.
`DeletedIsGone`: unless somebody wrote the chat again since the deletion began
(`rewritten`).

**Mcp.**  One server: handshake, pipelined calls with the lock of stdin, the table of
waiters, the reader.  The server answers what it has read in any order, twice, late or
never, sends requests of its own under any of `OwnIds`, writes other lines, closes its output
or dies.  `CallsAreServed`: a call returns with a line that bears its own id or a failure, with
an answer only to what the server has read (`LineIsOwn`), and it is in the table exactly
while it can still be answered (`WaitersAreExact`).  That the line is a response at all is
not so: see section 4.

**Guest.**  `start`, `stop` and `drain` as sequences of polls, run by two sockets at once over a
machine and a guest server that are external.  Of that server there are the draining flag and,
per keeper, the prompts and the `busy` flag, which a prompt sets and the first result clears.
A poll reads the flags one after the other and its answer takes a while, hence `seen`: the
values a flag had meanwhile.  `DrainWaitsForTurns`: a drain goes on to the stop only when every
keeper that was busy as it began has been idle since, or when it gave up.  It says nothing
of a second prompt that runs after the flag was cleared: see section 4.  In run `access`: two
operators, two keepers of two prompts; 0.3 million states up to symmetry.

**Gemini.**  The translator and accumulator on one side, `build_body` on the other, over
several rounds of tools.  `BlocksFollowParts`: every piece that was streamed is in one block of
its kind, in order.  `ResultsReachTheModel` is violated (run `gemini`), see the findings.

**History.**  The cache of summaries under requests that read and store while the child
appends lines in one or two writes, and the two readers of a transcript.
`TranscriptIsRead`: a summary that would be served is that of the file, unless the file
changed twice at one tick; a message counts once however often it is logged; no image is
lost.

**Shell.**  The Bash tool: a shell, what it leaves in the background, two pipes, two readers
with a cap, the time-out.  `CommandIsHeard`: no full pipe is left unread, and the answer
shows the beginning of stdout and is marked exactly if something is missing.

## 3. Bounds and fairness

Bounds in guards: `MaxLines`, `MaxRoster` (Stream), `MaxKeepers` (Room),
`MaxInFlight` (Drain, Keeper: prompts a keeper has accepted and not answered),
`MaxHistory` (Engine: no prompt is taken once the chat is longer).
`MaxInFlight <= PipeCap` keeps the child's pipes from filling; what happens when
they do is listed as a hazard that no run covers yet.  Of the services: `MaxPosts`,
`MaxAuto` (messages, given names), `LastTick`, `LastSecond`, `LastModified` (clocks),
`MaxCharges`, `MaxTurns`, `MaxNames`, `MaxLines` (lines of an MCP server), `MaxParts`,
`MaxTalk` (an answer, a chat), `MaxLog`, `MaxListed` (lines of a transcript, and with
requests for the list), `MaxWritten` (a stream), `MaxAsked` (prompts of a keeper of the guest
server).  They are small, but each is above the
limit it has to cross: three messages on a log of two and a ring of one, four ticks in
windows of two with a sweep at every second request, four characters through a pipe of
two into a cap of two, three polls against two that may be missed.  One token has a
budget of one, so that a charge that is counted twice or not at all shows.

Symmetry is used in runs that check no liveness property: of the connections of `room`, the
keepers of `keeper`, keepers and connections of `drain`, and codes, editors, operators and
keepers in `access`.  The models of the sessions never deadlock, and their runs check
it.  `services`, `access` and `gemini` switch the check off: there a
bounded part is at its end when its clock, its calls or its chat are.

Fairness: a task that can run is polled (weak fairness for its steps); `select!`
chooses among its ready branches at random, and senders of a full channel are
served in order, so the branches of an actor and the senders get strong fairness.
A child that was killed exits.  That a turn ends is assumed nowhere, for the code does not
see to it: the HTTP client has no timeout, a call of an MCP server waits for the server's stdin
without one, and a permission card waits for a person.  The liveness properties of `Drain` and
`Keeper` therefore name the exception, a turn that itself never ends (in `Keeper`: although it
was interrupted), and `TurnEnds` of `Engine` says where that can be.  `Engine` assumes nothing
of the provider or of the tools.  Nothing assumes that a client connects, sends, or closes,
or that an operator acts.

## 4. Findings

- `drain_zero`: the comment at the drain check says the operator can safely stop
  once `active_turns` is zero; a prompt that passed the check may not have started.
- `keeper_removed`: a removed native keeper goes on to run turns for a connection
  that still holds it, although `remove` is there so that no actor lingers.
- `gemini`: the engine stores what a tool returned as a list of blocks, also in chats of
  earlier versions, and the Gemini adapter reads a string: every `functionResponse`
  is sent empty.  The adapter's own test passes a string.  Beside it, the ids that the
  adapter makes up (`gemini-call-0`, ...) start again with every answer, so that the
  results of earlier rounds are sent under the names of later calls.

Other disagreements, met while modelling.  No run of its own shows them, but the models
have the behaviour, and the properties except it or do not promise it:

- Drain: `active_turns` is said to count the sessions in which an agent is working
  (session.rs:531).  `busy` is a flag: the first of two results of a CLI keeper clears it
  (981-985) while the child works on the second prompt, which a stop or a drain then cuts off.
  It happens in `drain_live`.
- Drain: a stop signal that finds no active turn returns without setting the flag
  (main.rs:428), so that turns accepted while the server closes its connections are cut off.
- Keeper: the reaper is said to take keepers without viewers (session.rs:1092-1093); it can
  forget one that was given a viewer between its reading of the count and of the clock, by
  a connection that held the keeper already.  It happens in `keeper_live`.
- Engine: `compact` is said to keep the conversation within a cap (mod.rs:97-98).  It drops
  nothing when the newest messages hold no text prompt (104-110), so that chats of long turns,
  or of images only, grow with every turn.  It happens in `engine`.
- Mcp: `reader_loop` is said to route responses (mcp.rs:227-228).  It takes a request of the
  server itself, under the id of a call that waits, for the answer to that call (239-249).  It
  happens in `services`.
- Seats: `links_revoke` is said to revoke every code of a label (auth.rs:569).  A mint that
  overlaps it, in the server or by the `guest` command, writes the revoked code back
  (197-207, 221-228).  It happens in `access`.
- Tokens: a charge, a new token or a revocation is lost once two operations overlap.
  The file itself is torn only when two saves of one process overlap, which write
  through one temporary file.
- Permission: no card is closed when the child exits (session.rs:870, 1001-1003 drop what
  was kept; ws.js:230-235 does nothing about cards), so that viewers go on to see, and a
  replay to show, cards whose answer nobody takes.
- Seats: a cookie may outlive its code by the pause within a login, and cookies stay
  valid when their code is revoked or the machine is restored.  A code that the `guest`
  command revokes is admitted by the machine until the next push.
- Drain: `/api/drain/end` is served while a stop waits, so that new turns begin again and
  may hold the stop up for as long as they follow one another.
- Meta: `delete_chat` interrupts the keeper and does not wait for it, so that a turn
  may write the chat again.
- Mcp: the time-out of a call begins after its write; a server that stops reading holds
  the call, and every call behind it, without a limit.
- Shell: on Unix the time-out kills the shell alone, although tools.rs:498-500 speaks
  of the whole tree; a background process that holds the pipes makes the tool wait
  until the time-out; stderr is not shown when stdout fills the cap.
- History: the transcript shows a message twice that was logged twice, while the
  summary counts it once.
- Engine: an interrupt before the first block stores an assistant message without
  content.  Actors: a native prompt in the middle of a turn is dropped.

## 5. Proofs

`tlapm` checks them for all values of the constants that satisfy the modules'
assumptions (capacities are positive, sets of connections finite, ...).

- `StreamProofs`: `TypeCorrect`, `DeliveredExactlyOnce`, `NothingLostAtTheCut`.
  `ExactlyOnce` is not inductive: it says nothing of what is still in the ring or in
  a replay.  The invariant adds that the scrollback is the tail of `1..emitted`, that
  the lines on the ring are consecutive up to `emitted` (one less between the two
  halves of `emit`), and for each viewer that what it has seen, what it still
  replays and what its receiver has still to read join without gap or overlap.
- `StreamProofs`: `StreamImplementsSpec`, every step maps to a step or a stutter
  of `StreamSpec`, from the same invariant.
- `RoomProofs`: `TypeCorrect`, `WheelIsHeldByPresent`, `BelievedDriverIsDriver`,
  `WheelIsNotSeized`, `SteeredOnlyByDriver`.  The invariant ties driver, membership,
  what clients were told and the senders past their check together: a sender that
  was checked is still the driver, or slept.
- `RoomProofs`: `RoomImplementsSpec`, every step maps to a step or a stutter of
  `RoomSpec`.  It needs one fact more, `SleptIsAsleep`: who is noted in `slept` still
  waits and has not been seen since, so that the history variable may stand for the
  abstract `idle`.
- `ActorsProofs`: lemmas for the next two: every step of an actor or its child keeps
  the types, concerns one keeper, and neither spawns nor frees one.
- `DrainProofs`: `TypeCorrect`, `NativeBusyIsTheTurn`, `StopWaits`.  That a stop
  leaves nothing owed is not inductive, since the count reads the keepers one after
  the other.  The invariant adds that a keeper that is owed its turn has been
  reported mid-turn since the signal, so that a count that has passed it found a turn and
  will not end with zero, whether the drain still holds or not.

- `KeeperProofs`: `TypeCorrect`, `CountIsRight`, `ClockIsRunning`, `NoOrphan`, every
  safety property that the runs `keeper` and `keeper_live` check.  The invariant
  says what a socket task refers to at each of its steps (`ConnInv`), what the reaper
  and a deletion refer to (`TaskInv`: the reaper's victim stays in the map while it
  holds the lock), and that the count is the size of two sets, the guards that exist
  and those being made (`CountInv`), from which `ClockIsRunning` follows step by step.
  `NoOrphan` needs in addition what the place of the CLI actor says of its child
  (`ChildInv`), and that an interrupt in a channel is not lost (`TailInterrupted`,
  `AppendInterrupted`).

- `EngineProofs`: `TypeCorrect`, `RequestsPair`, `ShownStored`.  `RequestsArePaired`
  speaks of memory while a request runs; the invariant (`HistoryInv`) says of memory and
  file at all times that they are paired up to the last message (`Almost`), and when
  that one may have open calls.  `CompactKeeps`, `AppendKeeps` and `SanitizeKeeps` are the
  lemmas about the operators; the last rests on the fact that at most the last message
  of a stored history is open, so that the repair appends at most one.
- `EngineProofs`: `LoopIsSanitize`, for every history and not only for those the engine
  itself writes: the loop of `sanitize_messages`, which inserts into the list it walks
  over, ends, and it ends with `Sanitize`.  The invariant of the loop (`LoopInv`) says that
  before round i all up to the place of some message e is as in the result and the rest is
  the history from e on, and that the round looks at e or at what was inserted before it.

- `SequenceInduction`: induction over naturals and sequences, and the existence of a
  function defined by recursion over a sequence, from the library's theorem that a set of
  naturals has a minimum.  The provers cannot instantiate an operator, so a property is a
  set and a recursive step is a function.  With it come what `FlattenSeq` returns and how
  `Front` and `Last` undo `Append`; what a recursive function of a model computes for
  sequences of any length follows from these.

- `ServiceProofs`: `TypeCorrect` of the whole of `MCServices`, and `FirstAnswersFit`,
  `CardsAreTrue`, `NamesStayApart`, `JoinedHear`, `BudgetsHold`, `StoreIsExact`,
  `StoreIsWhole`, `SeatsHaveCodes`, `FileIsCurrent`, `DeletedStaysGone`, `CallsServed`,
  `DrainWaits`, `ListIsCurrent`, `TranscriptRead`, `CommandsAreHeard`, `BlocksFollow`: all
  that `services` and `access` check.  The bounds of the runs are constants here, of any value.  What
  the invariants add:
  - *Permission*: requests the actor has not read are fresh, and an answer in the channel is one to a
    card that was shown; both are empty once the actor has ended.
  - *Party*: a socket's own copy of its name is the hub's; that a free number is among the
    first ones is the pigeonhole principle, for which the sockets must be finitely many.  A message
    of the log was heard, is about to be sent, or is ahead of the receiver.
  - *Limits* (`Fits`): the hits of a bucket are the readings of the last requests it let
    through, each at most the delay old; those that left the bucket are out of the
    window.  `Delay <= HttpWindow` and `Stale > HttpWindow` are assumed, as in the code.
  - *Tokens*: one invariant for each theorem.  Saves that have not overlapped have their temporary file to
    themselves and rename a whole one; operations that have not overlapped come one at a time, and
    each saves a store that holds what will have been done when it ends (`Plans`), so that a
    crash at any step leaves the store as it was or as it will be.
  - *Seats*: a login pauses at most `MaxPause`, and a cookie outlives its code by no more than
    that; unless the machine's copy may be old, at most one copy is on its way and it is the
    owner's file, and unless a file was set back, that has no revoked code.
  - *Meta*: the newest snapshot in the queue or in hand is the map; after the step that removes
    a chat's files there is no transcript, unless it was written again.
  - *Mcp*: ids are unique and belong to one call; what is sent to a call bears its id, and is no
    answer before the server has read the request.
  - *Guest*: while a drain waits, `misses` is the number of answers missed in a row, and the keepers
    it is owed are busy and have not been idle for a moment of the poll under way.
  - *History*: what was read under a modification time that still holds, and was set once, is what
    the file holds.  What the readers compute is an induction over the lines: `Summarize` has
    counted the ids it holds, each at its first line, and `Transcript` has kept the images.
  - *Gemini*: between two parts the kind the translator remembers is the kind of the last block, if
    it remembers one, and the pieces of the blocks are those of the stream so far.
  - *Shell*: what a reader has kept is the beginning of what it has read, up to the cap.
  - *Types* (`PartsAreTyped`): most type invariants are inductive with the invariants above.
    Others need what bounds a count: turns that ended and turns that run are together at
    most `MaxTurns` (*Meta*), a login and a code end before the last second (*Seats*), the
    first request of an MCP connection is alone in the pipe (*Mcp*).

Only model-checked are the liveness properties, for fairness and ENABLED are out of the
prover's reach: `EveryFrameIsRead`, `DrainSettles`, `StopCompletes`,
`UnviewedIsForgotten`, `ForgottenChildExits`, `UnreachableActorEnds` and `TurnEnds`.  Every
invariant and every action property that a passing run checks, and both refinements, are
theorems.

## 6. Not modelled, and the plan

Line contents, display names, JSON layout and logging are abstracted away.  Left out of
components that are otherwise modelled: `chat_is_frozen` and the status frames of a socket;
a directory that is full or read-only in the middle of `write_atomic`; the forwarding of a
brokered request; the removal of a chat's directory on the guest machine; provider token
counts.  Simplified: in *Shell* what is shown is `min(written, cap)`, which is exact only for
valid text that is cut between characters (invalid bytes are replaced, and a read error ends a
stream without a mark); in *History* every line of an assistant carries its usage (one without leaves
the context as it was, history.rs:325-342); in *Meta* only a chat with a transcript is deleted.
The races that *Tokens* and *Meta* cannot exclude are named there by history variables
(`raced`, `rewritten`): the properties say what holds outside of them, and do not catch
them.  Not modelled at all:

- Routes, files, banner, wizard, MCP guest bridge: request plumbing, path checks and console
  output without a protocol of their own.
- The engine's other tools: each is one call of the file system.
- The readers of native chats and the caches of fetched values (`usage.rs`, `models.rs`).
- The browser client.  Reading it showed what a model should examine: the composer is
  unlocked by any user echo, also that of another client or of a replay; a send that the
  server refuses leaves it locked; the queue is flushed after an await during which the
  socket may have changed.

Next:

1. The pipes of a CLI keeper without `MaxInFlight`: the actor waits in `write_all` while the
   child waits on its stdout.
2. Two native engines of one chat on one file, and an abstract specification of a chat's
   history that `Engine` implements; a file that cannot be parsed and is replaced.
3. The browser's composer over `Stream` and `Room`.
4. The bytes of a provider's stream: `from_utf8_lossy` is applied to each chunk, so that a
   character that two chunks share is lost.
5. A refinement from `Keeper` to a specification of a chat with at most one live keeper in
   CLI mode.
