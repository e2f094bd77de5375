------------------------------ MODULE MCEngine ------------------------------
(* Instances of Engine for TLC, and sanitize_messages checked against a loop *)
(* over the messages, as the code has it.                                    *)
EXTENDS Engine

RECURSIVE SanitizeFrom(_, _)
SanitizeFrom(h, i) == IF i > Len(h) THEN h ELSE SanitizeFrom(SanitizeRound(h, i), i + 1)

\* Every history of up to three messages, legacy and damaged ones included.
SomeMessages ==
  {UserMessage(TRUE)} \union {ResultsMessage(R) : R \in SUBSET Calls}
    \union {AssistantMessage([text |-> FALSE, calls |-> C]) : C \in SUBSET Calls}

ASSUME SanitizeIsTheLoop ==
  \A h \in BoundedSeq(SomeMessages, 3) : Sanitize(h) = SanitizeFrom(h, 1)

=============================================================================
