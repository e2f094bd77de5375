------------------------------- MODULE Limits -------------------------------
(***************************************************************************)
(* The two rate limiters: one of all HTTP requests, with a bucket per      *)
(* route class and client, a sweep of dead buckets and a clock that is     *)
(* read before the lock is taken (src/src/ratelimit.rs), and one of the    *)
(* frames of a single socket (src/src/ws.rs).                              *)
(***************************************************************************)
EXTENDS Integers, Sequences, FiniteSets, SequencesExt

CONSTANTS Clients,      \* client ids, "local" among them
          Workers,      \* threads that serve requests
          Sockets,      \* sockets, each with a limiter of its own
          LoginMax, GenMax, SocketMax,
          HttpWindow,   \* the window of both route classes, in ticks
          SocketWindow,
          Stale,        \* STALE
          SweepEvery,   \* SWEEP_EVERY
          Delay,        \* how long a thread may hold a clock reading before the lock
          LastTick      \* bound: the clock of a run

ASSUME LimitsAssumption ==
  /\ {LoginMax, GenMax, SocketMax, SweepEvery} \subseteq Nat \ {0}
  /\ {HttpWindow, SocketWindow, Delay, LastTick, Stale} \subseteq Nat
  /\ Stale > HttpWindow /\ Delay <= HttpWindow

VARIABLES
  tick,     \* the clock
  hits,     \* the timestamps of a bucket, in the order they were pushed
  calls,    \* CALLS, modulo SweepEvery
  read,     \* read[w]: the bucket and the clock reading a thread comes with, or <<>>
  accepted  \* accepted[b]: when the bucket's last requests were let through

limitVars == <<tick, hits, calls, read, accepted>>

\* The keys of the map, and the limiter of each socket.
Buckets == ({"login", "gen"} \X Clients) \cup ({"socket"} \X Sockets)
HttpBuckets == {"login", "gen"} \X Clients

Budget(b) == CASE b[1] = "login" -> LoginMax [] b[1] = "gen" -> GenMax [] OTHER -> SocketMax
Window(b) == IF b[1] = "socket" THEN SocketWindow ELSE HttpWindow

LimitsInit ==
  /\ tick = 0
  /\ hits = [b \in Buckets |-> <<>>]
  /\ calls = 0
  /\ read = [w \in Workers |-> <<>>]
  /\ accepted = [b \in Buckets |-> <<>>]

\* Hits older than the window leave from the front, as far as they are older: a
\* hit pushed late with an earlier reading waits behind a later one.
Trim(h, now, window) ==
  LET live == {i \in 1 .. Len(h) : now - h[i] <= window}
  IN IF live = {} THEN <<>>
     ELSE SubSeq(h, CHOOSE i \in live : \A j \in live : i <= j, Len(h))

\* Mutant: a key is dropped when its oldest hit is stale.
SweepByOldest(h, now) == [b \in Buckets |->
  IF b \in HttpBuckets /\ h[b] # <<>> /\ now - Head(h[b]) >= Stale THEN <<>> ELSE h[b]]

\* The sweep: a key whose last hit is stale is dropped.
Sweep(h, now) == [b \in Buckets |->
  IF b \in HttpBuckets /\ h[b] # <<>> /\ now - Last(h[b]) >= Stale THEN <<>> ELSE h[b]]

\* The history is kept as far as the budget reaches.
Recent(b, times) == IF Len(times) > Budget(b) + 1 THEN Tail(times) ELSE times

\* allow, once the bucket is at hand: whether the request passes, and the hits after.
Count(b, h, now) ==
  LET kept == Trim(h[b], now, Window(b))
      pass == Len(kept) < Budget(b)
  IN /\ hits' = [h EXCEPT ![b] = IF pass THEN Append(kept, now) ELSE kept]
     /\ accepted' = [accepted EXCEPT ![b] = IF pass THEN Recent(b, Append(@, tick)) ELSE @]

-----------------------------------------------------------------------------
\* A request arrives: its route and headers name the bucket; the clock is read.
ReadClock(w, b) ==
  /\ read[w] = <<>>
  /\ read' = [read EXCEPT ![w] = <<b, tick>>]
  /\ UNCHANGED <<tick, hits, calls, accepted>>

\* The thread gets the lock.
Allow(w) ==
  /\ read[w] # <<>>
  /\ LET b == read[w][1]
         now == read[w][2]
     IN Count(b, IF calls = 0 THEN Sweep(hits, now) ELSE hits, now)
  /\ calls' = (calls + 1) % SweepEvery
  /\ read' = [read EXCEPT ![w] = <<>>]
  /\ UNCHANGED tick

\* A frame of a socket: its task does everything in one go.
AllowFrame(s) ==
  /\ Count(<<"socket", s>>, hits, tick)
  /\ UNCHANGED <<tick, calls, read>>

Tick ==
  /\ tick < LastTick
  /\ \A w \in Workers : read[w] # <<>> => tick - read[w][2] < Delay
  /\ tick' = tick + 1
  /\ UNCHANGED <<hits, calls, read, accepted>>

\* The HTTP server, and the sockets: they share nothing but the clock.
HttpNext ==
  \/ \E w \in Workers, b \in HttpBuckets : ReadClock(w, b)
  \/ \E w \in Workers : Allow(w)
  \/ Tick

FrameNext ==
  \/ \E s \in Sockets : AllowFrame(s)
  \/ Tick

LimitsNext == HttpNext \/ FrameNext

LimitsSpec == LimitsInit /\ [][LimitsNext]_limitVars

-----------------------------------------------------------------------------
LimitsTypeOK ==
  /\ tick \in 0 .. LastTick
  /\ hits \in [Buckets -> Seq(0 .. LastTick)]
  /\ calls \in 0 .. SweepEvery - 1
  /\ read \in [Workers -> {<<>>} \cup (HttpBuckets \X (0 .. LastTick))]
  /\ accepted \in [Buckets -> Seq(0 .. LastTick)]

\* In no stretch of a window does a bucket let through more than its budget: whatever
\* the order in which threads with older and newer readings get the lock, and whatever
\* the sweep forgets.  A reading that waited for the lock can cost its delay, so that
\* much is taken off the window of an HTTP bucket; a socket's holds to the tick.
WithinBudget ==
  \A b \in Buckets :
    LET stretch == Window(b) - (IF b[1] = "socket" THEN 0 ELSE Delay)
        times == accepted[b]
    IN \A i \in 1 .. Len(times) - Budget(b) : times[i + Budget(b)] - times[i] > stretch
=============================================================================
