----------------------------- MODULE MC_MultiStore -----------------------------
(* Requests that resolve one external collection, with symmetric names. *)
EXTENDS MultiStore, TLC

Names == Permutations(Requests) \cup Permutations(Tasks)
=============================================================================
