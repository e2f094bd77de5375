SPECIFICATION Spec

CONSTANTS
  \* Permission
  Requests = {r1, r2}
  Groups = {"run"}
  Answerers = {a1, a2}
  ChannelCap = 2
  \* Party
  Guests = {g1, g2}
  Wishes <- MCWishes
  NoName = NoName
  LogMax = 2
  RingCap = 1
  MaxPosts = 3
  MaxAuto = 1
  \* Limits
  Clients = {"local"}
  Workers = {w1, w2}
  Sockets = {"s"}
  LoginMax = 1
  GenMax = 2
  SocketMax = 2
  HttpWindow = 2
  SocketWindow = 1
  Stale = 3
  SweepEvery = 2
  Delay = 1
  LastTick = 4
  \* Tokens
  TokenIds = {t1, t2}
  Chargers = {h1, h2}
  Commands = {c1}
  MaxRequests = 1
  MaxCharges = 2
  \* Seats
  Codes = {k1}
  Editors = {e1, e2}
  Browsers = {b1}
  Lives = {1}
  LastSecond = 2
  MaxPause = 1
  \* Meta
  Chats = {"chat"}
  Models = {"opus"}
  Engine = "native"
  MaxTurns = 2
  MaxNames = 1
  \* Mcp
  McpCalls = {m1, m2}
  PipeCap = 1
  OwnIds = {1, 3}
  MaxLines = 4
  \* Guest
  Admins = {o1, o2}
  GuestKeepers = {u1}
  MaxAsked = 2
  MaxPolls = 3
  MaxUnreachable = 2
  SshPolls = 1
  AcpiPolls = 1
  \* Gemini
  ToolNames = {"Read"}
  MaxParts = 3
  MaxTalk = 4
  \* History
  MessageIds = {"m1", "m2"}
  Listers = {r1, r2}
  MaxLog = 4
  MaxListed = 3
  LastModified = 3
  \* Shell
  ShellPipe = 2
  MaxOutput = 2
  MaxWritten = 4

INVARIANTS
  TypeOK
  FirstAnswerFits
  WaitingIsShown
  NamesAreApart
  JoinedHearAll
  WithinBudget
  ExactUntilRaced
  TornOnlyByOverlap
  QuietFileIsCurrent
  DeletedIsGone
  CallsAreServed
  BlocksFollowParts
  TranscriptIsRead
  CommandIsHeard

CHECK_DEADLOCK FALSE
