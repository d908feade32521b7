--------------------------- MODULE MC_WatchTasks ---------------------------
(***************************************************************************)
(* Small instances of WatchTasks: two tasks, up to three mutating RPCs and *)
(* two streams.  The channel holds one event so that it fills up.          *)
(***************************************************************************)
EXTENDS WatchTasks, TLC

CONSTANTS t1, t2, m1, m2, m3, w1, w2

Symmetric == Permutations(Mutators)

Create(t) == [creates |-> <<t>>, updates |-> <<>>, targets |-> <<>>]
Write(t) == [creates |-> <<>>, updates |-> <<t>>, targets |-> <<>>]

\* One task, written again and again.
OneTask == {Create(t1), Write(t1)}

\* An insert of t1 behind t2, and an edge between the two.
InsertAndLink == {[creates |-> <<t1>>, updates |-> <<t2>>, targets |-> <<>>],
                  [creates |-> <<>>, updates |-> <<t2>>, targets |-> <<t1>>]}

\* One stream asks for open tasks only.
AllPhases == [w \in Watchers |-> Phases]
FirstOpen == [w \in Watchers |-> IF w = w1 THEN {"open"} ELSE Phases]
=============================================================================
