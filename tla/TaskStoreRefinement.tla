------------------------- MODULE TaskStoreRefinement -------------------------
(***************************************************************************)
(* EntStore implements the task board: the tables are the board, and each  *)
(* request takes effect at the statement that commits its row.             *)
(***************************************************************************)
EXTENDS TaskStore

Board == INSTANCE TaskBoard WITH board <- rows, links <- rels

\* A request that reads a row, decides, and writes it statements later does
\* what the operation would have done to the row it overwrites, all at once,
\* or nothing: no stale read, merge in memory or retry shows in the tables.
ActsAtOnce == Board!Spec
=============================================================================
