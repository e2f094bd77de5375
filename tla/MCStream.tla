------------------------------ MODULE MCStream ------------------------------
(* A small instance of Stream: two viewers, a scrollback shorter than the   *)
(* log (so that it is trimmed) and a ring shorter than the channel (so that *)
(* a viewer lags).                                                          *)
EXTENDS Stream
=============================================================================
