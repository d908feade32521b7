-------------------------- MODULE MC_StreamManager --------------------------
(***************************************************************************)
(* A board of two tasks and the streams it opens.                          *)
(***************************************************************************)
EXTENDS StreamManager

CONSTANTS t1, t2, s1, s2
=============================================================================
