-------------------------------- MODULE Seats --------------------------------
(***************************************************************************)
(* Guest access (src/src/auth.rs): the codes that the owner mints and      *)
(* revokes, by the routes and by the `guest` command, the copy of them     *)
(* that the routes push to the guest machine, logins there, the signed     *)
(* cookie with an expiry of its own, and the gate in front of every route. *)
(* One clock; its readings are seconds.                                    *)
(***************************************************************************)
EXTENDS Naturals, FiniteSets

CONSTANTS Codes,       \* codes, each with a label of its own
          Editors,     \* handlers and commands of the owner that are under way
          Browsers,    \* guests
          Lives,       \* times to live a code is minted with
          LastSecond,  \* bound: the clock of a run
          MaxPause     \* seconds that may pass within one login

ASSUME SeatsAssumption == Lives \subseteq Nat /\ LastSecond \in Nat \ {0} /\ MaxPause \in Nat

VARIABLES
  now,       \* the clock
  hostCodes, \* guest_tokens.json of the owner's server
  lastsTo,   \* lastsTo[k]: when the code expires; 0 before it is minted
  withdrawn, \* codes whose revocation found them
  undone,    \* a file read before a revocation was written after it
  edit,      \* edit[e]: what the editor is about, and the codes it has in hand
  vmRuns,    \* the machine is up
  vmCodes,   \* guest_tokens.json of the machine
  astray,    \* the machine was not told of a revocation: it was a command's, or its
             \* push failed or was overtaken by an older one
  entering,  \* entering[g]: what verify_code has found for a login under way
  cookie     \* cookie[g]: the session cookie the browser holds

seatVars == <<now, hostCodes, lastsTo, withdrawn, undone, edit, vmRuns, vmCodes, astray,
              entering, cookie>>
ownerVars == <<hostCodes, lastsTo, withdrawn, undone>>
vmVars == <<edit, vmRuns, vmCodes, astray>>
loginVars == <<entering, cookie>>

Absent == [code |-> "none"]

\* An editor has read the store, has written it and is to push it, or pushes a copy.
Idle == [at |-> "idle", codes |-> {}]
Doing(at, codes) == [at |-> at, codes |-> codes]

SeatsInit ==
  /\ now = 1
  /\ hostCodes = {} /\ withdrawn = {} /\ undone = FALSE
  /\ lastsTo = [k \in Codes |-> 0]
  /\ edit = [e \in Editors |-> Idle]
  /\ vmRuns = FALSE /\ vmCodes = {} /\ astray = FALSE
  /\ entering = [g \in Browsers |-> Absent]
  /\ cookie = [g \in Browsers |-> Absent]

-----------------------------------------------------------------------------
(* The owner.                                                              *)

\* The store is a file without a lock: it is read, changed and written.
ReadStore(e) ==
  /\ edit[e] = Idle
  /\ edit' = [edit EXCEPT ![e] = Doing("read", hostCodes)]
  /\ UNCHANGED <<now, ownerVars, vmRuns, vmCodes, astray, loginVars>>

\* Mutant: a route takes its copy before it writes.
CopyThenWrite(e, codes, by) ==
  /\ hostCodes' = codes
  /\ undone' = (undone \/ codes \cap withdrawn' # {})
  /\ edit' = [edit EXCEPT ![e] = IF by = "route" THEN Doing("push", hostCodes) ELSE Idle]

\* A route goes on to push what it has written; the command of that name ends.
SaveStore(e, codes, by) ==
  /\ hostCodes' = codes
  /\ undone' = (undone \/ codes \cap withdrawn' # {})
  /\ edit' = [edit EXCEPT ![e] = IF by = "route" THEN Doing("saved", {}) ELSE Idle]

\* links_create and `guest new`: expired codes are dropped on the way.
MintCode(e, k, life, by) ==
  /\ edit[e].at = "read" /\ lastsTo[k] = 0
  /\ lastsTo' = [lastsTo EXCEPT ![k] = now + life]
  /\ withdrawn' = withdrawn
  /\ SaveStore(e, {j \in edit[e].codes : lastsTo[j] > now} \cup {k}, by)
  /\ UNCHANGED <<now, vmRuns, vmCodes, astray, loginVars>>

\* links_revoke and `guest revoke`.  Cookies that were issued for the code live on.
RevokeCode(e, k, by) ==
  /\ edit[e].at = "read"
  /\ withdrawn' = withdrawn \cup ({k} \cap edit[e].codes)
  /\ SaveStore(e, edit[e].codes \ {k}, by)
  /\ astray' = (astray \/ (by = "command" /\ k \in edit[e].codes))
  /\ UNCHANGED <<now, lastsTo, vmRuns, vmCodes, loginVars>>

\* sync_to_executor takes a copy of the store.  Alone on its way it will tell the
\* machine all; copies under way together may arrive in either order.
CopyStore(e) ==
  /\ edit[e].at = "saved"
  /\ edit' = [edit EXCEPT ![e] = Doing("push", hostCodes)]
  /\ astray' = \E f \in Editors : edit[f].at = "push"
  /\ UNCHANGED <<now, ownerVars, vmRuns, vmCodes, loginVars>>

\* A push replaces the machine's file, if the machine is up and SSH works.
PushArrives(e) ==
  /\ edit[e].at = "push"
  /\ edit' = [edit EXCEPT ![e] = Idle]
  /\ \/ vmRuns /\ vmCodes' = edit[e].codes /\ UNCHANGED astray
     \/ vmCodes' = vmCodes /\ astray' = TRUE
  /\ UNCHANGED <<now, ownerVars, vmRuns, loginVars>>

\* Start restores the snapshot, which has no codes, and pushes the store.
VmStarts(e) ==
  /\ edit[e] = Idle /\ ~vmRuns
  /\ vmRuns' = TRUE /\ vmCodes' = {}
  /\ edit' = [edit EXCEPT ![e] = Doing("saved", {})]
  /\ UNCHANGED <<now, ownerVars, astray, loginVars>>

VmStops ==
  /\ vmRuns /\ vmRuns' = FALSE
  /\ UNCHANGED <<now, ownerVars, edit, vmCodes, astray, loginVars>>

-----------------------------------------------------------------------------
(* Guests.                                                                 *)

\* The machine's copy of the store may be old, or the store itself was set back.
CopyIsOld == astray \/ undone \/ \E e \in Editors : edit[e].at \in {"saved", "push"}

\* claim_seat: verify_code reads the store and the clock ...
VerifyCode(g, k) ==
  /\ vmRuns /\ entering[g] = Absent
  /\ k \in vmCodes /\ lastsTo[k] > now
  /\ entering' = [entering EXCEPT ![g] =
       [code |-> k, ttl |-> lastsTo[k] - now, at |-> now,
        stale |-> CopyIsOld, revoked |-> k \in withdrawn]]
  /\ UNCHANGED <<now, ownerVars, vmVars, cookie>>

\* A code that is unknown to the machine or has expired gets the login page again.
InvalidCode(g, k) ==
  /\ vmRuns /\ entering[g] = Absent
  /\ k \in vmCodes => lastsTo[k] <= now
  /\ UNCHANGED seatVars

\* ... and seat_cookie reads the clock again.
SeatExpiry(e) == now + e.ttl

GrantSeat(g) ==
  /\ entering[g] # Absent
  /\ cookie' = [cookie EXCEPT ![g] =
       [code |-> entering[g].code, exp |-> SeatExpiry(entering[g]),
        stale |-> entering[g].stale, revoked |-> entering[g].revoked]]
  /\ entering' = [entering EXCEPT ![g] = Absent]
  /\ UNCHANGED <<now, ownerVars, vmVars>>

SecondPasses ==
  /\ now < LastSecond
  /\ \A g \in Browsers : entering[g] # Absent => now - entering[g].at < MaxPause
  /\ now' = now + 1
  /\ UNCHANGED <<ownerVars, vmVars, entering, cookie>>

\* The gate: a public path, or a cookie that is signed and not past its expiry; if not,
\* calls are refused and pages go to the login page.
SessionActive(g) == cookie[g] # Absent /\ cookie[g].exp > now
Gate(g, path) ==
  IF path = "public" \/ SessionActive(g) THEN "served"
  ELSE IF path = "api" THEN "unauthorized" ELSE "login"

SeatsNext ==
  \/ \E e \in Editors :
       \/ ReadStore(e) \/ CopyStore(e) \/ PushArrives(e) \/ VmStarts(e)
       \/ \E k \in Codes, by \in {"route", "command"} :
            (\E life \in Lives : MintCode(e, k, life, by)) \/ RevokeCode(e, k, by)
  \/ VmStops
  \/ \E g \in Browsers : (\E k \in Codes : VerifyCode(g, k) \/ InvalidCode(g, k)) \/ GrantSeat(g)
  \/ SecondPasses

SeatsSpec == SeatsInit /\ [][SeatsNext]_seatVars

-----------------------------------------------------------------------------
Seated == [code : Codes, exp : Nat, stale : BOOLEAN, revoked : BOOLEAN]
Entering == [code : Codes, ttl : Nat, at : Nat, stale : BOOLEAN, revoked : BOOLEAN]

SeatsTypeOK ==
  /\ now \in 1 .. LastSecond
  /\ hostCodes \subseteq Codes /\ withdrawn \subseteq Codes /\ vmCodes \subseteq Codes
  /\ lastsTo \in [Codes -> Nat]
  /\ edit \in [Editors -> [at : {"idle", "read", "saved", "push"}, codes : SUBSET Codes]]
  /\ {vmRuns, astray, undone} \subseteq BOOLEAN
  /\ \A g \in Browsers : cookie[g] = Absent \/ cookie[g] \in Seated
  /\ \A g \in Browsers : entering[g] = Absent \/ entering[g] \in Entering

\* A gated page is served only while the code of its session lasts, give or take the
\* time its login took, and only for a code that was not revoked before the login.  The
\* exceptions: the revocation was a command's, which tells the machine nothing, and no
\* route or start has pushed since; a push was under way, had failed, or had been
\* overtaken by an older one; or the store had been set back by an edit that overlapped
\* a revocation.
ServedHadCode ==
  \A g \in Browsers :
    Gate(g, "page") = "served" =>
      /\ now < lastsTo[cookie[g].code] + MaxPause
      /\ cookie[g].revoked => cookie[g].stale
=============================================================================
