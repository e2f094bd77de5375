------------------------------ MODULE MCGemini ------------------------------
(* Small instance of Gemini: a new chat and one that was begun before, with *)
(* two tools.                                                               *)
EXTENDS Gemini

MCToolNames == {"Read", "Bash"}
=============================================================================
