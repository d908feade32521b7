----------------------------- MODULE MC_TaskGraph -----------------------------
(* Four tasks, one of them closed, and every graph of a few edges. *)
EXTENDS TaskGraph, TLC

CONSTANT MaxEdges
SmallGraphs == {g \in SUBSET {e \in Tasks \X Tasks : e[1] # e[2]} : Cardinality(g) <= MaxEdges}
Symmetric == Permutations(OpenTasks)
=============================================================================
