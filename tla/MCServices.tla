----------------------------- MODULE MCServices -----------------------------
(***************************************************************************)
(* Model-checking instance for the parts of the server that share no       *)
(* state: their behaviours are explored one part at a time, so the states  *)
(* of the parts add up.                                                    *)
(***************************************************************************)
EXTENDS Permission, Party, Limits, Tokens, Seats, Meta, Mcp, Guest,
        Gemini, History, Shell

VARIABLE part  \* the part whose behaviour this is

\* Two people may ask for one name, and for one that reads like a guest's.
MCWishes == {<<"anna">>, <<"guest", 1>>}

Parts == {"permission", "party", "http", "frames", "tokens", "seats", "meta", "mcp", "guest",
          "gemini", "transcript", "listing", "shell"}

Init ==
  /\ part \in Parts
  /\ PermissionInit /\ PartyInit /\ LimitsInit /\ TokensInit
  /\ SeatsInit /\ McpInit /\ GuestInit /\ MetaInit
  /\ GeminiInit /\ HistoryInit /\ ShellInit
  \* Only its own part starts in more than one way.
  /\ part # "meta" => files = {}
  /\ part # "gemini" => talk = <<>>
  /\ part # "shell" => ~wholeTree

\* The variables of the parts, in two halves.
aVars == <<permissionVars, partyVars, limitVars, tokenVars, seatVars, metaVars>>
bVars == <<mcpVars, guestVars, geminiVars, historyVars, shellVars>>

Next ==
  /\ UNCHANGED part
  /\ \/ /\ part = "permission" /\ PermissionNext
        /\ UNCHANGED <<partyVars, limitVars, tokenVars, seatVars, metaVars, bVars>>
     \/ /\ part = "party" /\ PartyNext
        /\ UNCHANGED <<permissionVars, limitVars, tokenVars, seatVars, metaVars, bVars>>
     \/ /\ part = "http" /\ HttpNext
        /\ UNCHANGED <<permissionVars, partyVars, tokenVars, seatVars, metaVars, bVars>>
     \/ /\ part = "frames" /\ FrameNext
        /\ UNCHANGED <<permissionVars, partyVars, tokenVars, seatVars, metaVars, bVars>>
     \/ /\ part = "tokens" /\ TokensNext
        /\ UNCHANGED <<permissionVars, partyVars, limitVars, seatVars, metaVars, bVars>>
     \/ /\ part = "seats" /\ SeatsNext
        /\ UNCHANGED <<permissionVars, partyVars, limitVars, tokenVars, metaVars, bVars>>
     \/ /\ part = "meta" /\ MetaNext
        /\ UNCHANGED <<permissionVars, partyVars, limitVars, tokenVars, seatVars, bVars>>
     \/ /\ part = "mcp" /\ McpNext
        /\ UNCHANGED <<guestVars, geminiVars, historyVars, shellVars, aVars>>
     \/ /\ part = "guest" /\ GuestNext
        /\ UNCHANGED <<mcpVars, geminiVars, historyVars, shellVars, aVars>>
     \/ /\ part = "gemini" /\ GeminiNext
        /\ UNCHANGED <<mcpVars, guestVars, historyVars, shellVars, aVars>>
     \/ /\ part = "transcript" /\ LogNext
        /\ UNCHANGED <<mcpVars, guestVars, geminiVars, shellVars, aVars>>
     \/ /\ part = "listing" /\ ListNext
        /\ UNCHANGED <<mcpVars, guestVars, geminiVars, shellVars, aVars>>
     \/ /\ part = "shell" /\ ShellNext
        /\ UNCHANGED <<mcpVars, guestVars, geminiVars, historyVars, aVars>>

vars == <<part, aVars, bVars>>
Spec == Init /\ [][Next]_vars

\* Every variable of every part has its type.
TypeOK ==
  /\ part \in Parts
  /\ PermissionTypeOK /\ PartyTypeOK /\ LimitsTypeOK /\ TokensTypeOK
  /\ SeatsTypeOK /\ MetaTypeOK /\ McpTypeOK /\ GuestTypeOK
  /\ GeminiTypeOK /\ HistoryTypeOK /\ ShellTypeOK
=============================================================================
