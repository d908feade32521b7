--------------------------- MODULE MC_PollManager ---------------------------
(***************************************************************************)
(* Two visits, to the same collection or to different ones, two edits.     *)
(***************************************************************************)
EXTENDS PollManager, TLC

CONSTANTS a, b, ta, tb, w1, w2

Home == ta :> a @@ tb :> b
=============================================================================
