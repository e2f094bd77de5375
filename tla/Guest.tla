-------------------------------- MODULE Guest --------------------------------
(***************************************************************************)
(* The owner's control of the guest machine (handle_executor in            *)
(* src/src/ws.rs over src/src/executor.rs): start, stop and drain-stop,    *)
(* each run by a socket, perhaps by two at once, over a virtual machine    *)
(* that boots and halts in its own time and a guest server whose turns     *)
(* need it.  The machine is seen from here only; of the guest server there *)
(* are its draining flag, its keepers' busy flags, and what sets them.     *)
(***************************************************************************)
EXTENDS Naturals, FiniteSets

CONSTANTS Admins,          \* sockets of the owner
          GuestKeepers,    \* keepers of the guest server
          MaxAsked,        \* bound: prompts of a keeper in a run
          MaxPolls,        \* polls of a drain, 120 in the code
          MaxUnreachable,  \* MAX_UNREACHABLE
          SshPolls,        \* polls of a start, 30 in the code
          AcpiPolls        \* polls of a stop, 5 in the code

ASSUME GuestAssumption ==
  /\ {MaxPolls, MaxUnreachable, SshPolls, AcpiPolls} \subseteq Nat \ {0}
  /\ MaxAsked \in Nat

VARIABLES
  vm,         \* "off", "booting", "up", "halting"
  doing,      \* doing[a]: the step a's handler is at
  polls,      \* polls[a]: polls made in this step
  misses,     \* misses[a]: the local unreachable of handle_drain
  guestDrained,  \* the guest server's draining flag
  prompted, begun, answered,  \* the prompts of a keeper: accepted, taken, done with
  busyFlag,   \* busyFlag[k]: what active_turns counts
  seen,       \* seen[a][k]: the values of the flag while a's poll was on its way,
              \* the pause before it included
  owedTo,     \* history: owedTo[a]: keepers mid-turn when a's drain began, and since
  silent,     \* history: silent[a]: polls in a row that got no answer
  gaveUp      \* history: the drain of a ended by three such, or by its bound

keeperVars == <<prompted, begun, answered, busyFlag>>
drainHistory == <<seen, owedTo, silent, gaveUp>>
serverVars == <<guestDrained, keeperVars>>
guestVars == <<vm, doing, polls, misses, serverVars, drainHistory>>

Busy == {k \in GuestKeepers : busyFlag[k]}
\* No poll is under way; one is sent now.
Unseen == [k \in GuestKeepers |-> {}]
SeenNow == [k \in GuestKeepers |-> {busyFlag[k]}]

GuestInit ==
  /\ vm = "off"
  /\ doing = [a \in Admins |-> "idle"]
  /\ polls = [a \in Admins |-> 0]
  /\ misses = [a \in Admins |-> 0]
  /\ guestDrained = FALSE
  /\ prompted = [k \in GuestKeepers |-> 0] /\ begun = prompted /\ answered = prompted
  /\ busyFlag = [k \in GuestKeepers |-> FALSE]
  /\ seen = [a \in Admins |-> Unseen]
  /\ owedTo = [a \in Admins |-> {}]
  /\ silent = [a \in Admins |-> 0]
  /\ gaveUp = [a \in Admins |-> FALSE]

Goto(a, step) == doing' = [doing EXCEPT ![a] = step] /\ polls' = [polls EXCEPT ![a] = 0]
Again(a) == polls' = [polls EXCEPT ![a] = @ + 1] /\ UNCHANGED doing

-----------------------------------------------------------------------------
(* start.                                                                  *)

\* The snapshot is restored, which only a machine that is off allows.
RestoreClean(a) ==
  /\ doing[a] = "idle" /\ vm = "off"
  /\ Goto(a, "boot")
  /\ UNCHANGED <<vm, misses, serverVars, drainHistory>>

RestoreFails(a) ==
  /\ doing[a] = "idle"
  /\ UNCHANGED guestVars

\* Whether it could be started is not looked at.
StartHeadless(a) ==
  /\ doing[a] = "boot"
  /\ vm' \in IF vm = "off" THEN {"off", "booting"} ELSE {vm}
  /\ Goto(a, "ssh")
  /\ UNCHANGED <<misses, serverVars, drainHistory>>

SshReady(a) ==
  /\ doing[a] = "ssh" /\ vm = "up"
  /\ Goto(a, "undrain")
  /\ UNCHANGED <<vm, misses, serverVars, drainHistory>>

SshNotReady(a) ==
  /\ doing[a] = "ssh"
  /\ IF polls[a] + 1 < SshPolls THEN Again(a) ELSE Goto(a, "idle")
  /\ UNCHANGED <<vm, misses, serverVars, drainHistory>>

\* The guest codes are pushed to the machine (module Seats), and drain/end is posted
\* once; whether either arrives is not looked at.
EndDrain(a) ==
  /\ doing[a] = "undrain"
  /\ guestDrained' \in {FALSE, guestDrained}
  /\ Goto(a, "idle")
  /\ UNCHANGED <<vm, misses, keeperVars, drainHistory>>

-----------------------------------------------------------------------------
(* stop.                                                                   *)

\* The ACPI button: a machine that is on may heed it or not.
PressPower == vm' \in IF vm \in {"booting", "up"} THEN {vm, "halting"} ELSE {vm}

StopVm(a) ==
  /\ doing[a] = "idle"
  /\ PressPower
  /\ Goto(a, "halt")
  /\ UNCHANGED <<misses, serverVars, drainHistory>>

SeesItOff(a) ==
  /\ doing[a] = "halt" /\ vm = "off"
  /\ Goto(a, "idle")
  /\ UNCHANGED <<vm, misses, serverVars, drainHistory>>

SeesItOn(a) ==
  /\ doing[a] = "halt" /\ vm # "off"
  /\ IF polls[a] + 1 < AcpiPolls THEN Again(a) ELSE Goto(a, "plug")
  /\ UNCHANGED <<vm, misses, serverVars, drainHistory>>

PullPlug(a) ==
  /\ doing[a] = "plug"
  /\ vm' \in {vm, "off"}
  /\ Goto(a, "idle")
  /\ UNCHANGED <<misses, serverVars, drainHistory>>

-----------------------------------------------------------------------------
(* drain.                                                                  *)

\* drain/begin is posted once; whether it arrives is not looked at.
BeginDrain(a) ==
  /\ doing[a] = "idle"
  /\ guestDrained' \in {TRUE, guestDrained}
  /\ misses' = [misses EXCEPT ![a] = 0]
  /\ owedTo' = [owedTo EXCEPT ![a] = Busy]
  /\ seen' = [seen EXCEPT ![a] = SeenNow]
  /\ silent' = [silent EXCEPT ![a] = 0]
  /\ gaveUp' = [gaveUp EXCEPT ![a] = FALSE]
  /\ Goto(a, "wait")
  /\ UNCHANGED <<vm, keeperVars>>

\* A poll that lets the loop go on, the last one included.
PollAgain(a) ==
  IF polls[a] + 1 < MaxPolls
  THEN Again(a) /\ seen' = [seen EXCEPT ![a] = SeenNow] /\ UNCHANGED gaveUp
  ELSE /\ Goto(a, "app")
       /\ seen' = [seen EXCEPT ![a] = Unseen]
       /\ gaveUp' = [gaveUp EXCEPT ![a] = TRUE]

\* active_turns reads one flag after the other while they change, and its answer is on
\* its way for a while: every keeper was idle at some moment of the poll.
PollZero(a) ==
  /\ doing[a] = "wait" /\ \A k \in GuestKeepers : FALSE \in seen[a][k]
  /\ Goto(a, "app")
  /\ seen' = [seen EXCEPT ![a] = Unseen]
  /\ silent' = [silent EXCEPT ![a] = 0]
  /\ UNCHANGED <<vm, misses, serverVars, owedTo, gaveUp>>

\* Mutant: an answer does not reset the count of missing ones.
PollBusyOnly(a) ==
  /\ doing[a] = "wait" /\ \E k \in GuestKeepers : TRUE \in seen[a][k]
  /\ PollAgain(a)
  /\ silent' = [silent EXCEPT ![a] = 0]
  /\ UNCHANGED <<vm, misses, serverVars, owedTo>>

PollBusy(a) ==
  /\ doing[a] = "wait" /\ \E k \in GuestKeepers : TRUE \in seen[a][k]
  /\ misses' = [misses EXCEPT ![a] = 0]
  /\ PollAgain(a)
  /\ silent' = [silent EXCEPT ![a] = 0]
  /\ UNCHANGED <<vm, serverVars, owedTo>>

\* No answer: the third in a row ends the waiting.
PollLost(a) ==
  /\ doing[a] = "wait"
  /\ silent' = [silent EXCEPT ![a] = @ + 1]
  /\ misses' = [misses EXCEPT ![a] = @ + 1]
  /\ IF misses[a] + 1 >= MaxUnreachable
     THEN /\ Goto(a, "app")
          /\ seen' = [seen EXCEPT ![a] = Unseen]
          /\ gaveUp' = [gaveUp EXCEPT ![a] = silent[a] + 1 >= MaxUnreachable]
     ELSE PollAgain(a)
  /\ UNCHANGED <<vm, serverVars, owedTo>>

\* The app on the machine is stopped over SSH, then the machine.  What the drain knew
\* ends here.
StopAppAndVm(a) ==
  /\ doing[a] = "app"
  /\ PressPower
  /\ Goto(a, "halt")
  /\ misses' = [misses EXCEPT ![a] = 0]
  /\ owedTo' = [owedTo EXCEPT ![a] = {}]
  /\ silent' = [silent EXCEPT ![a] = 0]
  /\ gaveUp' = [gaveUp EXCEPT ![a] = FALSE]
  /\ UNCHANGED <<seen, serverVars>>

-----------------------------------------------------------------------------
(* The machine (external), and the keepers of the guest server.            *)

VmBoots == vm = "booting" /\ vm' = "up"
VmHalts == vm = "halting" /\ vm' = "off"

\* The flag of a keeper is set; every poll under way may have read it before or after.
SetFlag(k, value) ==
  /\ busyFlag' = [busyFlag EXCEPT ![k] = value]
  /\ seen' = [a \in Admins |->
       IF doing[a] = "wait" THEN [seen[a] EXCEPT ![k] = @ \cup {value}] ELSE seen[a]]
  /\ owedTo' = [a \in Admins |-> IF value THEN owedTo[a] ELSE owedTo[a] \ {k}]

GuestAccepts(k) ==
  /\ prompted[k] < MaxAsked /\ ~guestDrained
  /\ prompted' = [prompted EXCEPT ![k] = @ + 1]
  /\ UNCHANGED <<begun, answered, busyFlag, seen, owedTo>>

\* A prompt accepted before the drain may begin after it, and one of a CLI keeper while
\* another runs.
GuestBegins(k) ==
  /\ begun[k] < prompted[k]
  /\ begun' = [begun EXCEPT ![k] = @ + 1]
  /\ SetFlag(k, TRUE)
  /\ UNCHANGED <<prompted, answered>>

\* The first result clears the flag, whatever else the child was given.
GuestResult(k) ==
  /\ answered[k] < begun[k]
  /\ answered' = [answered EXCEPT ![k] = @ + 1]
  /\ SetFlag(k, FALSE)
  /\ UNCHANGED <<prompted, begun>>

\* The keeper finishes or is removed, and its prompts with it: it is no longer counted.
GuestLeaves(k) ==
  /\ prompted' = [prompted EXCEPT ![k] = MaxAsked]
  /\ begun' = [begun EXCEPT ![k] = MaxAsked]
  /\ answered' = [answered EXCEPT ![k] = MaxAsked]
  /\ SetFlag(k, FALSE)

World ==
  \/ /\ VmBoots \/ VmHalts
     /\ UNCHANGED <<doing, polls, misses, serverVars, drainHistory>>
  \/ /\ \E k \in GuestKeepers :
          GuestAccepts(k) \/ GuestBegins(k) \/ GuestResult(k) \/ GuestLeaves(k)
     /\ UNCHANGED <<vm, doing, polls, misses, guestDrained, silent, gaveUp>>

GuestNext ==
  \/ \E a \in Admins :
       \/ RestoreClean(a) \/ RestoreFails(a) \/ StartHeadless(a)
       \/ SshReady(a) \/ SshNotReady(a) \/ EndDrain(a)
       \/ StopVm(a) \/ SeesItOff(a) \/ SeesItOn(a) \/ PullPlug(a)
       \/ BeginDrain(a) \/ PollZero(a) \/ PollBusy(a) \/ PollLost(a) \/ StopAppAndVm(a)
  \/ World

GuestSpec == GuestInit /\ [][GuestNext]_guestVars

-----------------------------------------------------------------------------
GuestTypeOK ==
  /\ vm \in {"off", "booting", "up", "halting"}
  /\ doing \in [Admins -> {"idle", "boot", "ssh", "undrain", "halt", "plug", "wait", "app"}]
  /\ polls \in [Admins -> Nat] /\ misses \in [Admins -> 0 .. MaxUnreachable]
  /\ guestDrained \in BOOLEAN
  /\ {prompted, begun, answered} \subseteq [GuestKeepers -> 0 .. MaxAsked]
  /\ busyFlag \in [GuestKeepers -> BOOLEAN]
  /\ seen \in [Admins -> [GuestKeepers -> SUBSET BOOLEAN]]
  /\ owedTo \in [Admins -> SUBSET GuestKeepers]
  /\ silent \in [Admins -> Nat] /\ gaveUp \in [Admins -> BOOLEAN]

\* A drain goes on to stop the machine only when every keeper that was mid-turn as it
\* began has been reported otherwise since, or after its last poll, or after as many
\* polls in a row without an answer as it allows: a guest server that answers now and
\* then is waited for.  It holds although drain/begin may be lost, a start may end the
\* drain meanwhile, flags change while they are counted and answers come late, and
\* prompts that were accepted before it begin their turns after it.  It promises nothing
\* to those, nor to the second prompt of a keeper whose first result has cleared its flag
\* (module Drain has both).
DrainWaitsForTurns ==
  \A a \in Admins : doing[a] = "app" /\ ~gaveUp[a] => owedTo[a] = {}
=============================================================================
