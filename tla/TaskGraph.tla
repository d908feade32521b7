------------------------------ MODULE TaskGraph ------------------------------
(***************************************************************************)
(* The graph queries of internal/server/server.go that walk the blocks     *)
(* edges one GetTask at a time: GetDependencyTree (buildDependencyNode),   *)
(* GetCriticalPath (findLongestBlocksChain) and GetBottlenecks             *)
(* (countDownstream).  The recursion is a stack of frames; a frame holds   *)
(* the edges its task had when it was read, so requests that write edges   *)
(* between two reads are seen in part.                                     *)
(*                                                                         *)
(* An edge <<a, b>> says that a blocks b, in whichever of its two forms it *)
(* is stored.  The order in which the database returns edges and tasks is  *)
(* left open.                                                              *)
(***************************************************************************)
EXTENDS Naturals, FiniteSets, Sequences, SequencesExt

CONSTANTS
  Tasks,          \* tasks of the collection
  OpenTasks,      \* those that are not closed
  Graphs,         \* the blocks edges a query may find: sets of pairs of tasks
  Depths,         \* values of max_depth in requests
  MaxGraphDepth,  \* maxGraphDepth
  MaxChanges      \* bound: edges written and reads failed while the query runs

ASSUME GraphAssumption ==
  /\ IsFiniteSet(Tasks) /\ OpenTasks \subseteq Tasks
  /\ MaxGraphDepth \in Nat \ {0} /\ MaxChanges \in Nat
  /\ Depths \subseteq 1..20 /\ \A g \in Graphs : g \subseteq Tasks \X Tasks

VARIABLES
  edges,      \* the blocks edges in the database
  query,      \* the request: [kind, down, up, depth], depth is its limit
  todo,       \* start tasks that are left
  stack,      \* the calls in progress, the innermost first
  visited,    \* visited, or onStack for the critical path
  attached,   \* tree: the child nodes, as <<parent, child, direction>>
  best,       \* critical path: the longest path so far
  counts,     \* bottlenecks: tasks counted downstream of each start task
  at,         \* "idle", "walk", "done" or "failed"
  changes,    \* edges written and reads failed so far
  ever        \* history: edges there were at some time since the query began

vars == <<edges, query, todo, stack, visited, attached, best, counts, at, changes, ever>>

NoQuery == [kind |-> "none", down |-> FALSE, up |-> FALSE, depth |-> 0, starts |-> {}]

Init ==
  /\ edges \in Graphs /\ ever = edges
  /\ query = NoQuery /\ todo = {} /\ stack = <<>> /\ visited = {}
  /\ attached = {} /\ best = <<>> /\ counts = [t \in Tasks |-> {}]
  /\ at = "idle" /\ changes = 0

Top == Head(stack)

\* GetTask: the edges of t that the query follows.  up is used when down is empty.
Read(t) == [task |-> t,
            down |-> IF query.down THEN {b \in Tasks : <<t, b>> \in edges} ELSE {},
            up   |-> IF query.up THEN {b \in Tasks : <<b, t>> \in edges} ELSE {},
            best |-> <<>>]

----------------------------------------------------------------------------
(* Requests, and the writes they race with *)

Ask(kind, down, up, depth, starts) ==
  /\ at = "idle" /\ at' = "walk"
  /\ query' = [kind |-> kind, down |-> down, up |-> up, depth |-> depth, starts |-> starts]
  /\ todo' = starts
  /\ UNCHANGED <<edges, stack, visited, attached, best, counts, changes, ever>>

GetDependencyTree ==
  \E t \in Tasks, dir \in {"down", "up", "both"}, d \in Depths :
    Ask("tree", dir # "up", dir # "down", d, {t})

\* From one root, closed or not, or from every task that is not closed.
GetCriticalPath ==
  \E starts \in {{t} : t \in Tasks} \cup {OpenTasks} :
    Ask("path", TRUE, FALSE, MaxGraphDepth - 1, starts)

\* Only tasks that block another one are collected.
GetBottlenecks ==
  Ask("count", TRUE, FALSE, MaxGraphDepth,
      {t \in OpenTasks : \E b \in Tasks : <<t, b>> \in edges})

\* Another request adds or removes an edge.
Write(e) ==
  /\ at = "walk" /\ changes < MaxChanges
  /\ changes' = changes + 1
  /\ edges' = IF e \in edges THEN edges \ {e} ELSE edges \cup {e}
  /\ ever' = ever \cup edges'
  /\ UNCHANGED <<query, todo, stack, visited, attached, best, counts, at>>

----------------------------------------------------------------------------
(* The walk *)

\* Whether the call for task t goes on, at the depth of a call from the stack.
Enters_NotMarked(t, d) == d <= query.depth
Enters_OffByOne(t, d) == t \notin visited /\ d < query.depth
Enters(t, d) == t \notin visited /\ d <= query.depth

\* The call for the next start task, with a visited set of its own.
StartMark_Unmarked(t) == IF query.kind = "count" THEN {} ELSE {t}
StartMark(t) == {t}

Start ==
  /\ at = "walk" /\ stack = <<>>
  /\ \E t \in todo :
       /\ todo' = todo \ {t}
       /\ visited' = StartMark(t)
       /\ stack' = <<Read(t)>>
  /\ UNCHANGED <<edges, query, attached, best, counts, at, changes, ever>>

\* GetTask of a start task fails: nothing is behind it.
StartFails ==
  /\ at = "walk" /\ stack = <<>> /\ changes < MaxChanges
  /\ \E t \in todo : todo' = todo \ {t} /\ visited' = StartMark(t)
  /\ at' = IF query.kind = "tree" THEN "failed" ELSE at
  /\ changes' = changes + 1
  /\ UNCHANGED <<edges, query, stack, attached, best, counts, ever>>

\* The frame of the caller, once the call for neighbour n is made.
Called(f, n) == IF f.down # {} THEN [f EXCEPT !.down = @ \ {n}] ELSE [f EXCEPT !.up = @ \ {n}]

Neighbours(f) == IF f.down # {} THEN f.down ELSE f.up
Direction(f) == IF f.down # {} THEN "blocks" ELSE "blocked_by"

\* What the caller notes of neighbour n.
Counted(n) == IF query.kind = "count" THEN [counts EXCEPT ![Last(stack).task] = @ \cup {n}]
              ELSE counts
Attached(n) == IF query.kind = "tree" THEN attached \cup {<<Top.task, n, Direction(Top)>>}
               ELSE attached

\* The loop over the edges of the innermost call.
Visit ==
  /\ at = "walk" /\ stack # <<>>
  /\ \E n \in Neighbours(Top) :
       LET caller == [stack EXCEPT ![1] = Called(Top, n)]
       IN IF Enters(n, Len(stack))
          THEN /\ visited' = visited \cup {n}
               /\ stack' = <<Read(n)>> \o caller
               /\ attached' = Attached(n) /\ counts' = Counted(n)
          ELSE stack' = caller /\ UNCHANGED <<visited, attached, counts>>
  /\ UNCHANGED <<edges, query, todo, best, at, changes, ever>>

\* GetTask of the neighbour fails: the tree is given up, a path ends at the
\* caller, and a count has the neighbour without what is behind it.
ReadFails ==
  /\ at = "walk" /\ stack # <<>> /\ changes < MaxChanges
  /\ \E n \in Neighbours(Top) :
       /\ Enters(n, Len(stack))
       /\ at' = IF query.kind = "tree" THEN "failed" ELSE at
       /\ stack' = [stack EXCEPT ![1] = Called(Top, n)]
       /\ visited' = IF query.kind = "path" THEN visited ELSE visited \cup {n}
       /\ counts' = Counted(n)
  /\ changes' = changes + 1
  /\ UNCHANGED <<edges, query, todo, attached, best, ever>>

\* The innermost call returns; findLongestBlocksChain takes its task off
\* onStack and hands its path to the caller, which keeps the longest.
Longer(p, q) == IF Len(p) > Len(q) THEN p ELSE q
Leave_StaysMarked(t) == visited
Leave(t) == IF query.kind = "path" THEN visited \ {t} ELSE visited

Return ==
  LET path == <<Top.task>> \o Top.best
  IN /\ at = "walk" /\ stack # <<>> /\ Top.down = {} /\ Top.up = {}
     /\ visited' = Leave(Top.task)
     /\ IF query.kind # "path" THEN stack' = Tail(stack) /\ UNCHANGED best
        ELSE IF Len(stack) = 1 THEN stack' = <<>> /\ best' = Longer(path, best)
        ELSE /\ stack' = [Tail(stack) EXCEPT ![1].best = Longer(path, @)]
             /\ UNCHANGED best
     /\ UNCHANGED <<edges, query, todo, attached, counts, at, changes, ever>>

Answer ==
  /\ at = "walk" /\ stack = <<>> /\ todo = {}
  /\ at' = "done"
  /\ UNCHANGED <<edges, query, todo, stack, visited, attached, best, counts, changes, ever>>

Next ==
  \/ GetDependencyTree \/ GetCriticalPath \/ GetBottlenecks
  \/ \E e \in Tasks \X Tasks : Write(e)
  \/ Start \/ StartFails \/ Visit \/ ReadFails \/ Return \/ Answer

Spec == Init /\ [][Next]_vars

----------------------------------------------------------------------------
(* Properties *)

\* The edges as the query follows them, and what is within n steps of t.
Followed == (IF query.down THEN edges ELSE {})
              \cup (IF query.up THEN {<<e[2], e[1]>> : e \in edges} ELSE {})
Within(t, relation) ==
  LET w[n \in 0..Cardinality(Tasks)] ==
        IF n = 0 THEN {t} ELSE w[n-1] \cup {e[2] : e \in {x \in relation : x[1] \in w[n-1]}}
  IN w
Everything == Cardinality(Tasks)

Undisturbed(kind) == at = "done" /\ query.kind = kind /\ changes = 0

\* A tree that nothing disturbed holds the direct neighbours of its root, nothing
\* beyond max_depth, and everything there is to reach when max_depth allows it.
TreeComplete ==
  Undisturbed("tree") =>
    \A root \in query.starts :
      LET near == Within(root, Followed)
      IN /\ near[1] \subseteq visited
         /\ query.depth < Everything => visited \subseteq near[query.depth]
         /\ query.depth >= Everything - 1 => visited = near[Everything]

\* A critical path that nothing disturbed is a longest chain of different tasks
\* among those that begin at a start task, up to maxGraphDepth.
Chains(starts) ==
  {c \in UNION {[1..n -> Tasks] : n \in 1..MaxGraphDepth} :
     /\ c[1] \in starts /\ IsInjective(c)
     /\ \A k \in 1..Len(c)-1 : <<c[k], c[k+1]>> \in edges}
CriticalPathLongest ==
  Undisturbed("path") /\ query.starts # {} =>
    /\ best \in Chains(query.starts)
    /\ \A c \in Chains(query.starts) : Len(c) <= Len(best)

\* Bottlenecks that nothing disturbed are counted with every task downstream, on
\* cycles too, and never with themselves.
BottlenecksCounted ==
  Undisturbed("count") /\ Everything <= MaxGraphDepth + 1 =>
    \A t \in query.starts : counts[t] = Within(t, edges)[Everything] \ {t}

\* Whatever is written or fails meanwhile, an answer has no task twice and only
\* steps that were edges at some time since the query began.
AnswersAreReal ==
  at = "done" =>
  /\ IsInjective(best) /\ \A k \in 1..Len(best)-1 : <<best[k], best[k+1]>> \in ever
  /\ \A x \in attached : IF x[3] = "blocks" THEN <<x[1], x[2]>> \in ever
                         ELSE <<x[2], x[1]>> \in ever
  /\ IsInjective([x \in attached |-> x[2]])
  /\ \A t \in Tasks : counts[t] \subseteq Within(t, ever)[Everything] \ {t}
=============================================================================
