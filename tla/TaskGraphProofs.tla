--------------------------- MODULE TaskGraphProofs ---------------------------
(***************************************************************************)
(* Theorems about TaskGraph for every finite set of tasks, every graph and *)
(* any depth: the answers of the three graph queries.                      *)
(***************************************************************************)
EXTENDS TaskGraph, FiniteSetTheorems, SequenceTheorems, WellFoundedInduction, TLAPS

-----------------------------------------------------------------------------
(* The state of a walk, its calls counted from the start task's *)

Depth == Len(stack)
Call(i) == stack[Depth + 1 - i]

\* The steps a query could have followed since it began.
Steps == (IF query.down THEN ever ELSE {})
           \cup (IF query.up THEN {<<e[2], e[1]>> : e \in ever} ELSE {})

Frame == [task : Tasks, down : SUBSET Tasks, up : SUBSET Tasks, best : Seq(Tasks)]

TypeInv ==
    /\ edges \subseteq ever /\ ever \subseteq Tasks \X Tasks
    /\ changes \in Nat /\ (changes = 0 => ever = edges)
    /\ query \in [kind : {"none", "tree", "path", "count"}, down : BOOLEAN, up : BOOLEAN,
                  depth : Nat, starts : SUBSET Tasks]
    /\ todo \subseteq query.starts /\ visited \subseteq Tasks
    /\ stack \in Seq(Frame)
    /\ attached \subseteq Tasks \X Tasks \X {"blocks", "blocked_by"}
    /\ best \in Seq(Tasks) /\ counts \in [Tasks -> SUBSET Tasks]
    /\ at \in {"idle", "walk", "done", "failed"}

\* What each kind of query asks for, and where a query begins and ends.
QueryInv ==
    /\ query.kind = "tree" => query.depth # 0 /\ \E t \in Tasks : query.starts = {t}
    /\ query.kind \in {"path", "count"} => query.down /\ ~query.up
    /\ query.kind = "path" => query.depth = MaxGraphDepth - 1
    /\ query.kind = "count" => query.depth = MaxGraphDepth
    /\ at = "idle" => /\ todo = {} /\ stack = <<>> /\ visited = {} /\ attached = {}
                      /\ best = <<>> /\ counts = [t \in Tasks |-> {}]
    /\ at = "done" => todo = {} /\ stack = <<>>

\* The calls in progress are a path of different tasks, each visited, and what
\* a call has left are neighbours of its task.
CallOK(i) ==
    /\ Call(i).task \in visited
    /\ \A n \in Call(i).down : query.down /\ <<Call(i).task, n>> \in ever
    /\ \A n \in Call(i).up : query.up /\ <<n, Call(i).task>> \in ever

CallsInv ==
    /\ Depth <= query.depth + 1
    /\ Depth > 0 => Call(1).task \in query.starts \ todo
    /\ \A i \in 1..Depth : CallOK(i)
    /\ \A i, j \in 1..Depth : /\ Call(i).task = Call(j).task => i = j
                              /\ j = i + 1 => <<Call(i).task, Call(j).task>> \in Steps

\* The nodes of a tree are different visited tasks, each behind an edge.
TreeInv ==
    /\ query.kind # "tree" \/ todo # {} => attached = {}
    /\ \A x \in attached : /\ x[2] \in visited
                           /\ IF x[3] = "blocks" THEN <<x[1], x[2]>> \in ever
                              ELSE <<x[2], x[1]>> \in ever
    /\ \A x, y \in attached : x[2] = y[2] => x = y

\* The tasks behind a: those in every set that has a and follows the relation.
Follows(S, R) == \A x \in S, y \in Tasks : <<x, y>> \in R => y \in S
Behind(a, R) == {b \in Tasks : \A S \in SUBSET Tasks : a \in S /\ Follows(S, R) => b \in S}

\* A count has the tasks visited behind its start task.
CountInv ==
    /\ query.kind # "count" => \A t \in Tasks : counts[t] = {}
    /\ \A t \in todo : counts[t] = {}
    /\ query.kind = "count" /\ Depth > 0 =>
          /\ visited \subseteq Behind(Call(1).task, ever)
          /\ counts[Call(1).task] = visited \ {Call(1).task}
    /\ \A t \in Tasks : counts[t] \subseteq Behind(t, ever) \ {t}

\* A path of different tasks.
PathOf(p, R) == /\ \A j, k \in 1..Len(p) : p[j] = p[k] => j = k
                /\ \A k \in 1..Len(p) - 1 : <<p[k], p[k+1]>> \in R

\* The best of a call goes on from its task and meets no task of the calls.
BestOK(i) ==
    LET b == Call(i).best
    IN /\ PathOf(b, ever)
       /\ b # <<>> => <<Call(i).task, b[1]>> \in ever
       /\ \A j \in 1..i, k \in 1..Len(b) : Call(j).task # b[k]
       /\ query.kind = "path" => i + Len(b) <= MaxGraphDepth
PathInv ==
    /\ \A i \in 1..Depth : BestOK(i)
    /\ PathOf(best, ever)
    /\ best # <<>> => best[1] \in query.starts
    /\ Len(best) <= MaxGraphDepth

-----------------------------------------------------------------------------
(* Undisturbed walks *)

\* A visited task has its neighbours visited or left in its call, where the
\* depth does not stop the walk.
Deep(v) == \/ query.kind \in {"tree", "count"} /\ query.depth >= Everything - 1
           \/ query.kind = "tree" /\ v \in query.starts
ClosedInv ==
    changes = 0 =>
      \A v \in visited, n \in Tasks : Deep(v) /\ <<v, n>> \in Steps =>
         \/ n \in visited
         \/ \E i \in 1..Depth : Call(i).task = v /\ n \in Call(i).down \cup Call(i).up

TreeWalkInv ==
    query.kind = "tree" /\ changes = 0 => \A root \in query.starts :
      /\ todo = {} => root \in visited
      /\ todo # {} => visited = {}
      /\ visited \subseteq Behind(root, Steps)
      /\ query.depth < Everything =>
           /\ visited \subseteq Within(root, Steps)[query.depth]
           /\ \A i \in 1..Depth : Call(i).task \in Within(root, Steps)[i - 1]

CountWalkInv ==
    query.kind = "count" /\ changes = 0 /\ Everything <= MaxGraphDepth + 1 =>
      \A t \in query.starts \ todo : \/ Depth > 0 /\ Call(1).task = t
                                     \/ counts[t] = Behind(t, ever) \ {t}

\* Each chain is still to be walked, or is no longer than a path there is.
ChainAt(c, i) ==
    /\ i <= Len(c) /\ \A j \in 1..i : c[j] = Call(j).task
    /\ \/ Len(c) <= i + Len(Call(i).best)
       \/ i < Len(c) /\ c[i + 1] \in Call(i).down
ChainOK(c) == c[1] \in todo \/ Len(c) <= Len(best) \/ \E i \in 1..Depth : ChainAt(c, i)
PathWalkInv ==
    query.kind = "path" /\ changes = 0 =>
      /\ visited = {Call(i).task : i \in 1..Depth}
      /\ \A c \in Chains(query.starts) : ChainOK(c)

-----------------------------------------------------------------------------
(* What is within n steps *)

\* A set of naturals that is not empty has a least member.
LEMMA LeastNatural ==
    ASSUME NEW T, T \subseteq Nat, T # {}
    PROVE  \E x \in T : \A y \in T : x <= y
  <1>1. PICK x \in T : \A y \in T : ~(<<y, x>> \in OpToRel(<, Nat))
    BY NatLessThanWellFounded, WFMin
  <1>2. ASSUME NEW y \in T, ~(x <= y) PROVE <<y, x>> \in OpToRel(<, Nat)
    <2>1. y \in Nat /\ x \in Nat /\ y < x
      BY <1>2
    <2> QED BY <2>1, Zenon DEF OpToRel
  <1> QED BY <1>1, <1>2

\* What holds of 0 and goes from each number to the next, up to K, holds up to K:
\* T is the set of the numbers it holds of.
LEMMA UpTo ==
    ASSUME NEW K \in Nat, NEW T, 0 \in T, \A n \in 1..K : n - 1 \in T => n \in T
    PROVE  \A n \in 0..K : n \in T
  <1> DEFINE U == {n \in 0..K : n \notin T}
  <1> SUFFICES ASSUME U # {} PROVE FALSE
    OBVIOUS
  <1>1. PICK x \in U : \A y \in U : x <= y
    <2>1. U \subseteq Nat
      OBVIOUS
    <2> HIDE DEF U
    <2> QED BY <2>1, LeastNatural
  <1>2. x \in 1..K
    BY <1>1
  <1>3. x - 1 \notin U
    BY <1>1, <1>2
  <1>4. x - 1 \in 0..K
    BY <1>2
  <1> QED BY <1>2, <1>3, <1>4

\* A function is defined by its value at 0 and a rule from each value to the next.
Iterates(w, K, x0, g) == w[0] = x0 /\ \A n \in 1..K : w[n] = g[w[n - 1]]
\* A rule on a set, from a value of that set, has the function it defines, up to any number of steps.
LEMMA Iteration ==
    ASSUME NEW K, K \in Nat, NEW x0, NEW S, x0 \in S, NEW g, \A x \in S : g[x] \in S
    PROVE  \E w \in [0..K -> S] : Iterates(w, K, x0, g)
  <1> USE DEF Iterates
  <1> DEFINE T == {k \in Nat : \E w \in [0..k -> S] : Iterates(w, k, x0, g)}
  <1>1. 0 \in T
    <2> DEFINE v == [n \in 0..0 |-> x0]
    <2>1. v \in [0..0 -> S] /\ v[0] = x0 /\ \A n \in 1..0 : v[n] = g[v[n - 1]]
      OBVIOUS
    <2> HIDE DEF v
    <2> QED BY <2>1
  <1>2. ASSUME NEW k \in 1..K, k - 1 \in T PROVE k \in T
    <2>1. PICK w \in [0..k - 1 -> S] : Iterates(w, k - 1, x0, g)
      BY <1>2
    <2> DEFINE v == [n \in 0..k |-> IF n < k THEN w[n] ELSE g[w[k - 1]]]
    <2>2. v \in [0..k -> S] /\ v[0] = x0
      BY <2>1
    <2>3. ASSUME NEW n \in 1..k PROVE v[n] = g[v[n - 1]]
      <3>1. v[n - 1] = w[n - 1]
        OBVIOUS
      <3>2. CASE n < k
        <4>1. v[n] = w[n] /\ n \in 1..k - 1
          BY <3>2
        <4> QED BY <2>1, <3>1, <4>1
      <3>3. CASE n = k
        BY <3>1, <3>3
      <3> QED BY <3>2, <3>3
    <2> HIDE DEF v
    <2> QED BY <2>2, <2>3
  <1> HIDE DEF T
  <1>3. K \in T
    BY <1>1, <1>2, UpTo
  <1> QED BY <1>3 DEF T

\* There are finitely many tasks.
LEMMA EverythingType == Everything \in Nat /\ IsFiniteSet(Tasks)
  BY GraphAssumption, FS_CardinalityType DEF Everything

\* What one step more reaches.
Onward(S, R) == S \cup {e[2] : e \in {x \in R : x[1] \in S}}

\* Within is what its recursion says.
LEMMA WithinDef ==
    ASSUME NEW t \in Tasks, NEW R, R \subseteq Tasks \X Tasks
    PROVE  /\ Within(t, R) \in [0..Everything -> SUBSET Tasks]
           /\ Within(t, R)[0] = {t}
           /\ \A n \in 1..Everything : Within(t, R)[n] = Onward(Within(t, R)[n - 1], R)
  <1> DEFINE g == [S \in SUBSET Tasks |-> Onward(S, R)]
             K == Everything
             Rule(w) == [n \in 0..K |-> IF n = 0 THEN {t} ELSE Onward(w[n - 1], R)]
  <1>1. K \in Nat
    BY EverythingType
  <1>2. g \in [SUBSET Tasks -> SUBSET Tasks]
    <2>1. ASSUME NEW S \in SUBSET Tasks PROVE Onward(S, R) \in SUBSET Tasks
      BY DEF Onward
    <2> QED BY <2>1
  <1>3. PICK w \in [0..K -> SUBSET Tasks] :
           w[0] = {t} /\ \A n \in 1..K : w[n] = g[w[n - 1]]
    <2> HIDE DEF g, K
    <2>1. PICK V, x0, h, L : V = SUBSET Tasks /\ x0 = {t} /\ h = g /\ L = K
      OBVIOUS
    <2>2. x0 \in V /\ L \in Nat /\ \A x \in V : h[x] \in V
      BY <1>1, <1>2, <2>1
    <2>3. \E w \in [0..L -> V] : Iterates(w, L, x0, h)
      BY <2>2, Iteration
    <2> QED BY <2>1, <2>3 DEF Iterates
  <1>4. w = Rule(w)
    <2>1. ASSUME NEW n \in 0..K PROVE w[n] = IF n = 0 THEN {t} ELSE Onward(w[n - 1], R)
      <3>1. CASE n = 0
        BY <1>3, <3>1
      <3>2. CASE n # 0
        <4>1. n \in 1..K /\ n - 1 \in 0..K
          BY <1>1, <3>2
        <4>2. w[n] = g[w[n - 1]] /\ w[n - 1] \in SUBSET Tasks
          BY <1>3, <4>1
        <4> QED BY <3>2, <4>2
      <3> QED BY <3>1, <3>2
    <2> HIDE DEF K
    <2> QED BY <1>3, <2>1
  <1>5. Within(t, R) = CHOOSE v : v = Rule(v)
    BY DEF Within, Everything, Onward
  <1> DEFINE v == Within(t, R)
  <1>6. v = Rule(v)
    <2> HIDE DEF Rule
    <2> QED BY <1>4, <1>5
  <1> HIDE DEF v
  <1>7. v[0] = {t} /\ \A n \in 1..K : v[n] = Onward(v[n - 1], R)
    <2>1. ASSUME NEW n \in 0..K PROVE v[n] = IF n = 0 THEN {t} ELSE Onward(v[n - 1], R)
      BY <1>6
    <2> QED BY <1>1, <2>1
  <1>8. v \in [0..K -> SUBSET Tasks]
    <2> DEFINE T == {n \in 0..K : v[n] \in SUBSET Tasks}
    <2>1. 0 \in T
      BY <1>1, <1>7
    <2>2. ASSUME NEW n \in 1..K, n - 1 \in T PROVE n \in T
      BY <1>7, <2>2 DEF Onward
    <2> HIDE DEF T
    <2>3. \A n \in 0..K : n \in T
      BY <1>1, <2>1, <2>2, UpTo
    <2> QED BY <1>6, <2>3 DEF T
  <1> QED BY <1>7, <1>8 DEF v

\* What is within some steps are tasks.
LEMMA WithinTasks ==
    ASSUME NEW t \in Tasks, NEW R, R \subseteq Tasks \X Tasks
    PROVE  \A n \in 0..Everything : Within(t, R)[n] \subseteq Tasks
  <1> DEFINE w == Within(t, R)
  <1>1. w \in [0..Everything -> SUBSET Tasks]
    BY WithinDef
  <1> HIDE DEF w
  <1>2. \A n \in 0..Everything : w[n] \subseteq Tasks
    BY <1>1
  <1> QED BY <1>2 DEF w

\* Each step further has what the ones before have.
LEMMA WithinGrows ==
    ASSUME NEW t \in Tasks, NEW R, R \subseteq Tasks \X Tasks,
           NEW i \in 0..Everything, NEW j \in i..Everything
    PROVE  Within(t, R)[i] \subseteq Within(t, R)[j]
  <1> DEFINE w == Within(t, R)
             T == {n \in 0..Everything - i : w[i] \subseteq w[n + i]}
  <1>1. 0 \in T /\ Everything - i \in Nat
    BY EverythingType
  <1>2. ASSUME NEW n \in 1..Everything - i, n - 1 \in T PROVE n \in T
    <2>1. /\ n + i \in 1..Everything /\ (n + i) - 1 = (n - 1) + i
          /\ n \in 0..Everything - i
      BY EverythingType
    <2>2. w[n + i] = Onward(w[(n - 1) + i], R)
      BY <2>1, WithinDef
    <2> HIDE DEF w
    <2> QED BY <1>2, <2>1, <2>2 DEF Onward
  <1>3. j - i \in 0..Everything - i /\ (j - i) + i = j
    BY EverythingType
  <1> HIDE DEF T
  <1>4. j - i \in T
    BY <1>1, <1>2, <1>3, UpTo
  <1> QED BY <1>3, <1>4 DEF T

\* A set that has the start and follows the relation has all that is within.
LEMMA WithinIsBehind ==
    ASSUME NEW t \in Tasks, NEW R, R \subseteq Tasks \X Tasks, NEW n \in 0..Everything
    PROVE  Within(t, R)[n] \subseteq Behind(t, R)
  <1> DEFINE w == Within(t, R)
  <1> SUFFICES ASSUME NEW S \in SUBSET Tasks, t \in S, Follows(S, R)
               PROVE  w[n] \subseteq S
    <2>1. w[n] \subseteq Tasks
      BY WithinTasks
    <2> QED BY <2>1 DEF Behind
  <1> DEFINE T == {k \in 0..Everything : w[k] \subseteq S}
  <1>1. 0 \in T
    BY EverythingType, WithinDef
  <1>2. ASSUME NEW k \in 1..Everything, k - 1 \in T PROVE k \in T
    <2>1. w[k] = Onward(w[k - 1], R)
      BY WithinDef
    <2> HIDE DEF w
    <2> QED BY <1>2, <2>1, EverythingType DEF Onward, Follows
  <1> HIDE DEF T
  <1>3. n \in T
    BY <1>1, <1>2, EverythingType, UpTo
  <1> QED BY <1>3 DEF T

\* Each step finds another task until nothing is left to find.
LEMMA WithinSaturates ==
    ASSUME NEW t \in Tasks, NEW R, R \subseteq Tasks \X Tasks
    PROVE  Follows(Within(t, R)[Everything], R)
  <1> DEFINE w == Within(t, R)
             T == {n \in 0..Everything :
                     Follows(w[n], R) \/ Cardinality(w[n]) >= n + 1}
  <1>0. \A n \in 0..Everything : /\ w[n] \subseteq Tasks /\ IsFiniteSet(w[n])
                                 /\ Cardinality(w[n]) \in Nat
                                 /\ Cardinality(w[n]) <= Everything
    <2>1. \A n \in 0..Everything : w[n] \subseteq Tasks
      BY WithinTasks
    <2> HIDE DEF w
    <2> QED BY <2>1, EverythingType, FS_Subset, FS_CardinalityType DEF Everything
  <1>1. 0 \in T
    <2>1. w[0] = {t}
      BY WithinDef
    <2>2. Cardinality({t}) = 1
      BY FS_Singleton
    <2> HIDE DEF w
    <2> QED BY <2>1, <2>2, EverythingType
  <1>2. ASSUME NEW n \in 1..Everything, n - 1 \in T PROVE n \in T
    <2>1. w[n] = Onward(w[n - 1], R)
      BY WithinDef
    <2>2. n - 1 \in 0..Everything /\ n \in 0..Everything
      BY EverythingType
    <2> HIDE DEF w
    <2>3. CASE Follows(w[n - 1], R)
      <3>1. w[n] = w[n - 1]
        <4>1. \A x \in R : x[1] \in w[n - 1] => x[2] \in w[n - 1]
          BY <2>3 DEF Follows
        <4> QED BY <2>1, <4>1 DEF Onward
      <3> QED BY <2>2, <2>3, <3>1
    <2>4. CASE ~Follows(w[n - 1], R) /\ Cardinality(w[n - 1]) >= n
      <3>1. w[n - 1] \subseteq w[n] /\ w[n - 1] # w[n]
        BY <2>1, <2>4 DEF Onward, Follows
      <3>2. Cardinality(w[n - 1]) < Cardinality(w[n])
        BY <1>0, <2>2, <3>1, FS_Subset
      <3> QED BY <1>0, <2>2, <2>4, <3>2
    <2> QED BY <1>2, <2>3, <2>4
  <1> HIDE DEF T
  <1>3. Everything \in T
    BY <1>1, <1>2, EverythingType, UpTo
  <1> HIDE DEF w
  <1>4. ~(Cardinality(w[Everything]) >= Everything + 1)
    BY <1>0, EverythingType
  <1> QED BY <1>3, <1>4 DEF T, w

\* What is behind a task is what is within as many steps as there are tasks.
LEMMA BehindIsWithin ==
    ASSUME NEW t \in Tasks, NEW R, R \subseteq Tasks \X Tasks
    PROVE  Behind(t, R) = Within(t, R)[Everything]
  <1> DEFINE W == Within(t, R)[Everything]
  <1>1. W \subseteq Tasks
    BY WithinDef, EverythingType
  <1>2. t \in W
    <2>1. Within(t, R)[0] \subseteq W
      BY WithinGrows, EverythingType
    <2> QED BY <2>1, WithinDef
  <1>3. Follows(W, R)
    BY WithinSaturates
  <1>4. W \subseteq Behind(t, R)
    BY WithinIsBehind, EverythingType
  <1> HIDE DEF W
  <1>5. Behind(t, R) \subseteq W
    BY <1>1, <1>2, <1>3 DEF Behind
  <1> QED BY <1>4, <1>5 DEF W

\* A task is behind itself, what follows it is behind it, and edges that come
\* leave everything behind.
LEMMA BehindItself == ASSUME NEW t \in Tasks, NEW R PROVE t \in Behind(t, R)
  BY DEF Behind

\* What is reached keeps what follows it.
LEMMA BehindFollows == ASSUME NEW t, NEW R PROVE Follows(Behind(t, R), R)
  BY DEF Behind, Follows

\* With more edges more is reached.
LEMMA BehindGrows ==
    ASSUME NEW t, NEW R, NEW Q, R \subseteq Q
    PROVE  Behind(t, R) \subseteq Behind(t, Q)
  BY DEF Behind, Follows

\* A set with the task, which keeps what follows, has all that is reached.
LEMMA BehindLeast ==
    ASSUME NEW t, NEW R, NEW S \in SUBSET Tasks, t \in S, Follows(S, R)
    PROVE  Behind(t, R) \subseteq S
  BY DEF Behind

-----------------------------------------------------------------------------
(* The stack *)

\* The calls are frames; the innermost is the last of them.
LEMMA CallsType ==
    ASSUME TypeInv
    PROVE  /\ Depth \in Nat /\ (stack = <<>> <=> Depth = 0)
           /\ \A i \in 1..Depth : Call(i) \in Frame
           /\ Depth > 0 => Top = Call(Depth) /\ Last(stack) = Call(1)
  <1>1. stack \in Seq(Frame)
    BY DEF TypeInv
  <1>2. /\ Len(stack) \in Nat /\ (stack = <<>> <=> Len(stack) = 0)
        /\ \A k \in 1..Len(stack) : stack[k] \in Frame
    BY <1>1, EmptySeq, LenProperties
  <1>3. \A i \in 1..Depth : Call(i) \in Frame
    BY <1>2 DEF Depth, Call
  <1>4. Depth > 0 => Top = Call(Depth) /\ Last(stack) = Call(1)
    <2> HAVE Depth > 0
    <2>1. Top = stack[1]
      BY DEF Top
    <2>2. Call(Depth) = stack[1] /\ Call(1) = stack[Len(stack)]
      BY <1>2 DEF Call, Depth
    <2> QED BY <2>1, <2>2 DEF Last
  <1> QED BY <1>2, <1>3, <1>4 DEF Depth

\* What GetTask gives the call for a task.
LEMMA ReadType ==
    ASSUME TypeInv, NEW n \in Tasks
    PROVE  /\ Read(n) \in Frame /\ Read(n).task = n /\ Read(n).best = <<>>
           /\ \A m \in Read(n).down : query.down /\ <<n, m>> \in edges
           /\ \A m \in Read(n).up : query.up /\ <<m, n>> \in edges
           /\ \A m \in Tasks : query.down /\ <<n, m>> \in edges => m \in Read(n).down
           /\ \A m \in Tasks : query.up /\ <<m, n>> \in edges => m \in Read(n).up
  <1>1. <<>> \in Seq(Tasks)
    BY EmptySeq
  <1> QED BY <1>1 DEF Read, Frame

\* What a call has left after one of its neighbours.
LEMMA CalledType ==
    ASSUME NEW f \in Frame, NEW n \in Neighbours(f)
    PROVE  /\ n \in Tasks /\ n \in f.down \cup f.up
           /\ Called(f, n) \in Frame
           /\ Called(f, n).task = f.task /\ Called(f, n).best = f.best
           /\ Called(f, n).down \subseteq f.down /\ Called(f, n).up \subseteq f.up
           /\ \A m \in f.down : m # n => m \in Called(f, n).down
           /\ \A m \in f.up : m # n => m \in Called(f, n).up
           /\ IF f.down # {} THEN n \in f.down ELSE n \in f.up
  <1>1. f.down \in SUBSET Tasks /\ f.up \in SUBSET Tasks
    BY DEF Frame
  <1>2. CASE f.down # {}
    <2>1. Called(f, n) = [f EXCEPT !.down = f.down \ {n}]
      BY <1>2 DEF Called
    <2> QED BY <1>1, <1>2, <2>1 DEF Frame, Neighbours
  <1>3. CASE f.down = {}
    <2>1. Called(f, n) = [f EXCEPT !.up = f.up \ {n}]
      BY <1>3 DEF Called
    <2> QED BY <1>1, <1>3, <2>1 DEF Frame, Neighbours
  <1> QED BY <1>2, <1>3

\* The innermost call goes on to its next neighbour, ...
TopMoves(d, n) ==
    /\ d > 0 /\ Depth = d /\ n \in Neighbours(Call(d))
    /\ Depth' = d /\ stack' \in Seq(Frame)
    /\ Call(d)' = Called(Call(d), n)
    /\ \A i \in 1..d - 1 : Call(i)' = Call(i)

\* The innermost call takes a neighbour off its list and no other call changes.
LEMMA TopMovesOn ==
    ASSUME TypeInv, NEW d, d = Depth, d > 0, NEW n \in Neighbours(Top),
           stack' = [stack EXCEPT ![1] = Called(Top, n)]
    PROVE  TopMoves(d, n)
  <1>1. stack \in Seq(Frame) /\ d \in Nat /\ Top = Call(d) /\ Top \in Frame
    BY CallsType DEF TypeInv
  <1>2. Called(Top, n) \in Frame
    BY <1>1, CalledType
  <1>3. /\ stack' \in Seq(Frame) /\ Len(stack') = d
        /\ stack'[1] = Called(Top, n) /\ \A k \in 2..d : stack'[k] = stack[k]
    <2> DEFINE g == Called(Top, n)
    <2>1. 1 \in 1..Len(stack)
      BY <1>1 DEF Depth
    <2>2. g \in Frame /\ stack' = [stack EXCEPT ![1] = g]
      BY <1>2
    <2> HIDE DEF g
    <2>3. /\ stack' \in Seq(Frame) /\ Len(stack') = Len(stack)
          /\ \A j \in 1..Len(stack) : stack'[j] = IF j = 1 THEN g ELSE stack[j]
      BY <1>1, <2>1, <2>2, ExceptSeq
    <2> QED BY <1>1, <2>3 DEF g, Depth
  <1>4. Depth' = d
    BY <1>3 DEF Depth
  <1>5. Call(d)' = stack'[1]
    BY <1>1, <1>3 DEF Call, Depth
  <1>6. ASSUME NEW i \in 1..d - 1 PROVE Call(i)' = Call(i)
    <2>1. d + 1 - i \in 2..d
      BY <1>1
    <2> QED BY <1>3, <2>1 DEF Call, Depth
  <1> QED BY <1>1, <1>3, <1>4, <1>5, <1>6 DEF TopMoves

\* ... and into the call for it.
Pushes(d, n) ==
    /\ d > 0 /\ Depth = d /\ n \in Neighbours(Call(d))
    /\ Depth' = d + 1 /\ stack' \in Seq(Frame)
    /\ Call(d + 1)' = Read(n) /\ Call(d)' = Called(Call(d), n)
    /\ \A i \in 1..d - 1 : Call(i)' = Call(i)

\* A call for a neighbour goes on top of the calls in progress.
LEMMA PushesCall ==
    ASSUME TypeInv, NEW d, d = Depth, d > 0, NEW n \in Neighbours(Top),
           stack' = <<Read(n)>> \o [stack EXCEPT ![1] = Called(Top, n)]
    PROVE  Pushes(d, n)
  <1>1. stack \in Seq(Frame) /\ d \in Nat /\ Top = Call(d) /\ Top \in Frame
    BY CallsType DEF TypeInv
  <1>2. Called(Top, n) \in Frame /\ Read(n) \in Frame
    BY <1>1, CalledType, ReadType
  <1> DEFINE f == Read(n)
             g == Called(Top, n)
             caller == [stack EXCEPT ![1] = g]
  <1>3. /\ caller \in Seq(Frame) /\ Len(caller) = d
        /\ \A j \in 1..d : caller[j] = IF j = 1 THEN g ELSE stack[j]
    <2>1. 1 \in 1..Len(stack) /\ g \in Frame
      BY <1>1, <1>2 DEF Depth
    <2> HIDE DEF g
    <2> QED BY <1>1, <2>1, ExceptSeq DEF Depth
  <1>4. stack' = <<f>> \o caller /\ f \in Frame
    BY <1>2
  <1> HIDE DEF f, caller
  <1>5. /\ stack' \in Seq(Frame) /\ Len(stack') = d + 1 /\ stack'[1] = f
        /\ \A k \in 2..d + 1 : stack'[k] = caller[k - 1]
    <2>1. <<f>> \in Seq(Frame) /\ Len(<<f>>) = 1 /\ <<f>>[1] = f
      BY <1>4
    <2> DEFINE one == <<f>>
    <2>2. one \in Seq(Frame) /\ Len(one) = 1 /\ one[1] = f /\ stack' = one \o caller
      BY <1>4, <2>1
    <2> HIDE DEF one
    <2>3. /\ stack' \in Seq(Frame) /\ Len(stack') = 1 + d
          /\ \A i \in 1..1 + d : stack'[i] = IF i <= 1 THEN one[i] ELSE caller[i - 1]
      <3>1. /\ one \o caller \in Seq(Frame) /\ Len(one \o caller) = Len(one) + Len(caller)
            /\ \A i \in 1..Len(one) + Len(caller) :
                  (one \o caller)[i] = IF i <= Len(one) THEN one[i] ELSE caller[i - Len(one)]
        BY <1>3, <2>2, ConcatProperties
      <3> QED BY <1>3, <2>2, <3>1
    <2> QED BY <1>1, <2>2, <2>3
  <1>6. Depth' = d + 1
    BY <1>5 DEF Depth
  <1>7. Call(d + 1)' = f
    <2>1. Call(d + 1)' = stack'[1]
      BY <1>1, <1>5 DEF Call, Depth
    <2> QED BY <1>5, <2>1
  <1>8. Call(d)' = g
    <2>1. Call(d)' = stack'[2]
      BY <1>1, <1>5 DEF Call, Depth
    <2>2. stack'[2] = caller[1] /\ caller[1] = g
      BY <1>1, <1>3, <1>5
    <2> QED BY <2>1, <2>2
  <1>9. ASSUME NEW i \in 1..d - 1 PROVE Call(i)' = Call(i)
    <2>1. Call(i)' = stack'[d + 2 - i] /\ Call(i) = stack[d + 1 - i]
      BY <1>1, <1>5 DEF Call, Depth
    <2>2. d + 2 - i \in 2..d + 1 /\ (d + 2 - i) - 1 = d + 1 - i /\ d + 1 - i \in 2..d
      BY <1>1
    <2>3. stack'[d + 2 - i] = caller[d + 1 - i]
      BY <1>5, <2>2
    <2>4. caller[d + 1 - i] = stack[d + 1 - i]
      BY <1>3, <2>2
    <2> QED BY <2>1, <2>3, <2>4
  <1> QED BY <1>1, <1>5, <1>6, <1>7, <1>8, <1>9 DEF Pushes, f

\* The innermost call returns to the one before, which may note its path.
Pops(d, noted) ==
    /\ d > 0 /\ Depth = d /\ Depth' = d - 1 /\ stack' \in Seq(Frame)
    /\ \A i \in 1..d - 2 : Call(i)' = Call(i)
    /\ d > 1 => Call(d - 1)' = [Call(d - 1) EXCEPT !.best = noted]

\* The innermost call returns and the other calls are as they were.
LEMMA PopsCall ==
    ASSUME TypeInv, NEW d, d = Depth, d > 0, stack' = Tail(stack)
    PROVE  /\ Depth' = d - 1 /\ stack' \in Seq(Frame)
           /\ \A i \in 1..d - 1 : Call(i)' = Call(i)
           /\ \A k \in 1..d - 1 : stack'[k] = stack[k + 1]
  <1>1. stack \in Seq(Frame) /\ d \in Nat /\ stack # <<>> /\ Len(stack) = d
    BY CallsType DEF TypeInv, Depth
  <1>2. /\ stack' \in Seq(Frame) /\ Len(stack') = d - 1
        /\ \A k \in 1..d - 1 : stack'[k] = stack[k + 1]
    <2>1. /\ Tail(stack) \in Seq(Frame) /\ Len(Tail(stack)) = Len(stack) - 1
          /\ \A k \in 1..Len(Tail(stack)) : Tail(stack)[k] = stack[k + 1]
      BY <1>1, HeadTailProperties
    <2> QED BY <1>1, <2>1
  <1>3. ASSUME NEW i \in 1..d - 1 PROVE Call(i)' = Call(i)
    <2>1. Call(i)' = stack'[d - i] /\ Call(i) = stack[d + 1 - i]
      BY <1>1, <1>2 DEF Call, Depth
    <2>2. d - i \in 1..d - 1 /\ (d - i) + 1 = d + 1 - i
      BY <1>1
    <2> QED BY <1>2, <2>1, <2>2
  <1> QED BY <1>2, <1>3 DEF Depth

\* The first of a sequence is replaced.
LEMMA SetFirst ==
    ASSUME NEW S, NEW s \in Seq(S), Len(s) > 0, NEW g \in S, NEW r, r = [s EXCEPT ![1] = g]
    PROVE  /\ r \in Seq(S) /\ Len(r) = Len(s)
           /\ \A j \in 1..Len(s) : r[j] = IF j = 1 THEN g ELSE s[j]
  <1>1. 1 \in 1..Len(s)
    BY LenProperties
  <1> QED BY <1>1, ExceptSeq

\* The innermost call returns and its caller notes what it found.
LEMMA PopsAndNotes ==
    ASSUME TypeInv, NEW d, d = Depth, d > 1, NEW B \in Seq(Tasks), NEW rest \in Seq(Frame),
           Len(rest) = d - 1, \A k \in 1..d - 1 : rest[k] = stack[k + 1],
           stack' = [rest EXCEPT ![1].best = B]
    PROVE  Pops(d, B)
  <1>1. stack \in Seq(Frame) /\ d \in Nat /\ stack # <<>> /\ Len(stack) = d
    BY CallsType DEF TypeInv, Depth
  <1>2. /\ rest \in Seq(Frame) /\ Len(rest) = d - 1
        /\ \A k \in 1..d - 1 : rest[k] = stack[k + 1]
    OBVIOUS
  <1>3. 1 \in 1..d - 1
    BY <1>1
  <1> DEFINE g == [rest[1] EXCEPT !.best = B]
  <1>4. rest[1] \in Frame /\ g \in Frame
    <2>1. rest[1] \in Frame
      BY <1>2, <1>3, ElementOfSeq
    <2> QED BY <2>1 DEF Frame
  <1>5. stack' = [rest EXCEPT ![1] = g]
    OBVIOUS
  <1> HIDE DEF g
  <1>6. /\ stack' \in Seq(Frame) /\ Len(stack') = d - 1
        /\ \A k \in 1..d - 1 : stack'[k] = IF k = 1 THEN g ELSE stack[k + 1]
    <2>1. Len(rest) > 0
      BY <1>1, <1>2
    <2>2. /\ stack' \in Seq(Frame) /\ Len(stack') = Len(rest)
          /\ \A j \in 1..Len(rest) : stack'[j] = IF j = 1 THEN g ELSE rest[j]
      BY <1>2, <1>4, <1>5, <2>1, SetFirst
    <2> QED BY <1>2, <2>2
  <1>7. Depth' = d - 1
    BY <1>6 DEF Depth
  <1>8. ASSUME NEW i \in 1..d - 2 PROVE Call(i)' = Call(i)
    <2>1. Call(i)' = stack'[d - i] /\ Call(i) = stack[d + 1 - i]
      BY <1>1, <1>6 DEF Call, Depth
    <2>2. d - i \in 2..d - 1 /\ (d - i) + 1 = d + 1 - i
      BY <1>1
    <2> QED BY <1>6, <2>1, <2>2
  <1>9. Call(d - 1)' = [Call(d - 1) EXCEPT !.best = B]
    <2>1. Call(d - 1)' = stack'[1] /\ Call(d - 1) = stack[2]
      <3>1. Len(stack') + 1 - (d - 1) = 1 /\ Len(stack) + 1 - (d - 1) = 2
        BY <1>1, <1>6
      <3> QED BY <3>1 DEF Call, Depth
    <2>2. stack'[1] = g /\ rest[1] = stack[2]
      BY <1>2, <1>3, <1>6
    <2> QED BY <2>1, <2>2 DEF g
  <1> QED BY <1>1, <1>6, <1>7, <1>8, <1>9 DEF Pops

\* The task and the path after it, as a call returns them.
Path(i) == <<Call(i).task>> \o Call(i).best

\* A task before a path: its length and its elements.
LEMMA ConsPath ==
    ASSUME NEW t \in Tasks, NEW b \in Seq(Tasks)
    PROVE  /\ <<t>> \o b \in Seq(Tasks) /\ Len(<<t>> \o b) = Len(b) + 1 /\ Len(b) \in Nat
           /\ (<<t>> \o b)[1] = t
           /\ \A k \in 1..Len(b) : (<<t>> \o b)[k + 1] = b[k]
  <1> DEFINE one == <<t>>
  <1>1. one \in Seq(Tasks) /\ Len(one) = 1 /\ one[1] = t /\ Len(b) \in Nat
    BY LenProperties
  <1> HIDE DEF one
  <1>2. /\ one \o b \in Seq(Tasks) /\ Len(one \o b) = Len(one) + Len(b)
        /\ \A i \in 1..Len(one) + Len(b) :
              (one \o b)[i] = IF i <= Len(one) THEN one[i] ELSE b[i - Len(one)]
    BY <1>1, ConcatProperties
  <1>3. (one \o b)[1] = t
    BY <1>1, <1>2
  <1>4. ASSUME NEW k \in 1..Len(b) PROVE (one \o b)[k + 1] = b[k]
    <2>1. k + 1 \in 1..Len(one) + Len(b) /\ ~(k + 1 <= Len(one)) /\ (k + 1) - Len(one) = k
      BY <1>1
    <2> QED BY <1>2, <2>1
  <1> QED BY <1>1, <1>2, <1>3, <1>4 DEF one

\* The longer of two paths.
LEMMA LongerType ==
    ASSUME NEW p \in Seq(Tasks), NEW q \in Seq(Tasks)
    PROVE  /\ Longer(p, q) \in {p, q} /\ Longer(p, q) \in Seq(Tasks)
           /\ Len(Longer(p, q)) >= Len(p) /\ Len(Longer(p, q)) >= Len(q)
  <1>1. Len(p) \in Nat /\ Len(q) \in Nat
    BY LenProperties
  <1> QED BY <1>1 DEF Longer

\* What the innermost call hands to the one before.
Noted(d) == IF query.kind = "path" THEN Longer(Path(d), Call(d - 1).best) ELSE Call(d - 1).best

\* What a return does to the calls, the marks and the path found.
LEMMA ReturnMoves ==
    ASSUME TypeInv, Return, NEW d, d = Depth
    PROVE  /\ Pops(d, Noted(d)) /\ Call(d).down = {} /\ Call(d).up = {}
           /\ visited' = Leave(Call(d).task)
           /\ best' = IF query.kind = "path" /\ d = 1 THEN Longer(Path(d), best) ELSE best
  <1>1. /\ stack # <<>> /\ Top.down = {} /\ Top.up = {} /\ visited' = Leave(Top.task)
        /\ IF query.kind # "path" THEN stack' = Tail(stack) /\ UNCHANGED best
           ELSE IF Len(stack) = 1 THEN stack' = <<>> /\ best' = Longer(<<Top.task>> \o Top.best, best)
           ELSE /\ stack' = [Tail(stack) EXCEPT ![1].best =
                                Longer(<<Top.task>> \o Top.best, Tail(stack)[1].best)]
                /\ UNCHANGED best
    BY DEF Return
  <1>2. d \in Nat /\ d > 0 /\ Len(stack) = d /\ Top = Call(d) /\ stack \in Seq(Frame)
    BY <1>1, CallsType DEF Depth, TypeInv
  <1>3. Call(d) \in Frame /\ (d > 1 => Call(d - 1) \in Frame)
    BY <1>2, CallsType
  <1>8. /\ Tail(stack) \in Seq(Frame) /\ Len(Tail(stack)) = d - 1
        /\ \A k \in 1..d - 1 : Tail(stack)[k] = stack[k + 1]
    <2>1. /\ Tail(stack) \in Seq(Frame) /\ Len(Tail(stack)) = Len(stack) - 1
          /\ \A k \in 1..Len(Tail(stack)) : Tail(stack)[k] = stack[k + 1]
      BY <1>1, <1>2, HeadTailProperties
    <2> QED BY <1>2, <2>1
  <1>4. Path(d) \in Seq(Tasks) /\ <<Top.task>> \o Top.best = Path(d)
    BY <1>2, <1>3, ConsPath DEF Frame, Path
  <1>5. CASE query.kind # "path"
    <2>1. /\ Depth' = d - 1 /\ stack' \in Seq(Frame)
          /\ \A i \in 1..d - 1 : Call(i)' = Call(i)
      BY <1>1, <1>2, <1>5, PopsCall
    <2>2. d > 1 => Call(d - 1)' = [Call(d - 1) EXCEPT !.best = Call(d - 1).best]
      <3> SUFFICES ASSUME d > 1 PROVE Call(d - 1)' = [Call(d - 1) EXCEPT !.best = Call(d - 1).best]
        OBVIOUS
      <3>1. d - 1 \in 1..d - 1
        BY <1>2
      <3>2. Call(d - 1)' = Call(d - 1)
        BY <2>1, <3>1
      <3> QED BY <1>3, <3>2 DEF Frame
    <2> QED BY <1>1, <1>2, <1>5, <2>1, <2>2 DEF Pops, Noted
  <1>6. CASE query.kind = "path" /\ d = 1
    <2>1. stack' = <<>> /\ Depth' = 0
      BY <1>1, <1>2, <1>6 DEF Depth
    <2>2. stack' \in Seq(Frame)
      BY <2>1, EmptySeq
    <2>3. Pops(d, Noted(d))
      <3>1. Depth' = d - 1 /\ 1..d - 2 = {} /\ ~(d > 1)
        BY <1>6, <2>1
      <3> QED BY <1>2, <2>2, <3>1 DEF Pops
    <2> QED BY <1>1, <1>2, <1>4, <1>6, <2>3
  <1>7. CASE query.kind = "path" /\ d > 1
    <2> DEFINE rest == Tail(stack)
               B == Longer(Path(d), Call(d - 1).best)
    <2>1. rest[1] = Call(d - 1)
      <3>1. rest[1] = stack[2]
        BY <1>1, <1>2, <1>7
      <3>2. Len(stack) + 1 - (d - 1) = 2
        BY <1>2
      <3> QED BY <3>1, <3>2 DEF Call, Depth
    <2>2. Call(d - 1).best \in Seq(Tasks)
      BY <1>3, <1>7 DEF Frame
    <2>3. B \in Seq(Tasks)
      BY <1>4, <2>2, LongerType
    <2>4. stack' = [rest EXCEPT ![1].best = B]
      <3>1. stack' = [rest EXCEPT ![1].best = Longer(Path(d), rest[1].best)]
        <4>1. query.kind = "path" /\ Len(stack) # 1
          BY <1>2, <1>7
        <4>2. stack' = [rest EXCEPT ![1].best = Longer(<<Top.task>> \o Top.best, rest[1].best)]
          BY <1>1, <4>1
        <4> HIDE DEF rest
        <4> QED BY <1>4, <4>2
      <3> HIDE DEF rest
      <3> QED BY <2>1, <3>1
    <2> HIDE DEF B
    <2>5. Pops(d, B)
      <3>1. /\ rest \in Seq(Frame) /\ Len(rest) = d - 1
            /\ \A k \in 1..d - 1 : rest[k] = stack[k + 1]
        BY <1>8
      <3> HIDE DEF rest
      <3> QED BY <1>2, <1>7, <2>3, <2>4, <3>1, PopsAndNotes
    <2> QED BY <1>1, <1>2, <1>7, <2>5 DEF Noted, B
  <1> QED BY <1>2, <1>5, <1>6, <1>7

\* A start task's call begins.
LEMMA StartMoves ==
    ASSUME TypeInv, Start
    PROVE  /\ Depth = 0 /\ Depth' = 1 /\ stack' \in Seq(Frame)
           /\ \E t \in todo : /\ todo' = todo \ {t} /\ visited' = {t}
                              /\ t \in Tasks /\ Call(1)' = Read(t)
  <1>1. stack = <<>> /\ Depth = 0
    BY CallsType DEF Start
  <1>2. PICK t \in todo : todo' = todo \ {t} /\ visited' = {t} /\ stack' = <<Read(t)>>
    BY DEF Start, StartMark
  <1>3. t \in Tasks
    BY DEF TypeInv
  <1>4. Read(t) \in Frame
    BY <1>3, ReadType
  <1> DEFINE f == Read(t)
  <1>5. stack' = <<f>> /\ f \in Frame
    BY <1>2, <1>4
  <1> HIDE DEF f
  <1>6. Depth' = 1 /\ stack' \in Seq(Frame) /\ Call(1)' = f
    BY <1>5 DEF Depth, Call
  <1> QED BY <1>1, <1>2, <1>3, <1>6 DEF f

\* The next neighbour is called or passed over.
LEMMA VisitMoves ==
    ASSUME TypeInv, Visit, NEW d, d = Depth
    PROVE  \E n \in Tasks :
              \/ /\ Pushes(d, n) /\ Enters(n, d) /\ visited' = visited \cup {n}
                 /\ attached' = Attached(n) /\ counts' = Counted(n)
              \/ /\ TopMoves(d, n) /\ ~Enters(n, d) /\ UNCHANGED <<visited, attached, counts>>
  <1>1. /\ d > 0 /\ Len(stack) = d /\ Top = Call(d)
        /\ Call(d) \in Frame
    BY CallsType DEF Visit, Depth
  <1>2. PICK n \in Neighbours(Top) :
          IF Enters(n, d)
          THEN /\ visited' = visited \cup {n}
               /\ stack' = <<Read(n)>> \o [stack EXCEPT ![1] = Called(Top, n)]
               /\ attached' = Attached(n) /\ counts' = Counted(n)
          ELSE /\ stack' = [stack EXCEPT ![1] = Called(Top, n)]
               /\ UNCHANGED <<visited, attached, counts>>
    BY <1>1 DEF Visit
  <1>3. n \in Tasks
    BY <1>1, CalledType
  <1>4. CASE Enters(n, d)
    BY <1>1, <1>2, <1>3, <1>4, PushesCall
  <1>5. CASE ~Enters(n, d)
    BY <1>1, <1>2, <1>3, <1>5, TopMovesOn
  <1> QED BY <1>4, <1>5

\* What a failed read does to the innermost call, the marks and the count.
LEMMA ReadFailsMoves ==
    ASSUME TypeInv, ReadFails, NEW d, d = Depth
    PROVE  \E n \in Tasks :
              /\ TopMoves(d, n) /\ Enters(n, d) /\ counts' = Counted(n)
              /\ visited' = IF query.kind = "path" THEN visited ELSE visited \cup {n}
              /\ at' = IF query.kind = "tree" THEN "failed" ELSE at
  <1>1. /\ d > 0 /\ Len(stack) = d /\ Top = Call(d)
        /\ Call(d) \in Frame
    BY CallsType DEF ReadFails, Depth
  <1>2. PICK n \in Neighbours(Top) :
          /\ Enters(n, d)
          /\ at' = IF query.kind = "tree" THEN "failed" ELSE at
          /\ stack' = [stack EXCEPT ![1] = Called(Top, n)]
          /\ visited' = IF query.kind = "path" THEN visited ELSE visited \cup {n}
          /\ counts' = Counted(n)
    BY <1>1 DEF ReadFails
  <1>3. n \in Tasks
    BY <1>1, CalledType
  <1> QED BY <1>1, <1>2, <1>3, TopMovesOn

-----------------------------------------------------------------------------
(* Types *)

\* A request, which finds nothing in progress.
Asks == \E kind \in {"tree", "path", "count"}, down, up \in BOOLEAN, depth \in Nat,
           starts \in SUBSET Tasks :
          /\ Ask(kind, down, up, depth, starts)
          /\ kind = "tree" => depth # 0 /\ \E t \in Tasks : starts = {t}
          /\ kind \in {"path", "count"} => down /\ ~up
          /\ kind = "path" => depth = MaxGraphDepth - 1
          /\ kind = "count" => depth = MaxGraphDepth

\* Each request asks for a walk of one kind.
LEMMA RequestsAsk == GetDependencyTree \/ GetCriticalPath \/ GetBottlenecks => Asks
  <1>1. ASSUME GetDependencyTree PROVE Asks
    <2>1. PICK t \in Tasks, dir \in {"down", "up", "both"}, d \in Depths :
             Ask("tree", dir # "up", dir # "down", d, {t})
      BY <1>1 DEF GetDependencyTree
    <2>2. d \in Nat /\ d # 0 /\ {t} \in SUBSET Tasks
      BY GraphAssumption
    <2>3. PICK down \in BOOLEAN, up \in BOOLEAN : Ask("tree", down, up, d, {t})
      BY <2>1
    <2> QED BY <2>2, <2>3 DEF Asks
  <1>2. ASSUME GetCriticalPath PROVE Asks
    <2>1. PICK starts \in {{t} : t \in Tasks} \cup {OpenTasks} :
             Ask("path", TRUE, FALSE, MaxGraphDepth - 1, starts)
      BY <1>2 DEF GetCriticalPath
    <2>2. starts \in SUBSET Tasks /\ MaxGraphDepth - 1 \in Nat
      BY GraphAssumption
    <2> QED BY <2>1, <2>2 DEF Asks
  <1>3. ASSUME GetBottlenecks PROVE Asks
    <2> DEFINE starts == {t \in OpenTasks : \E b \in Tasks : <<t, b>> \in edges}
    <2>1. Ask("count", TRUE, FALSE, MaxGraphDepth, starts)
      BY <1>3 DEF GetBottlenecks
    <2>2. starts \in SUBSET Tasks /\ MaxGraphDepth \in Nat
      BY GraphAssumption
    <2> HIDE DEF starts
    <2> QED BY <2>1, <2>2 DEF Asks
  <1> QED BY <1>1, <1>2, <1>3

\* What a call notes of its neighbour.
LEMMA NotesType ==
    ASSUME TypeInv, Depth > 0, NEW n \in Tasks
    PROVE  /\ Attached(n) \subseteq Tasks \X Tasks \X {"blocks", "blocked_by"}
           /\ Counted(n) \in [Tasks -> SUBSET Tasks]
           /\ query.kind # "tree" => Attached(n) = attached
           /\ query.kind # "count" => Counted(n) = counts
           /\ query.kind = "count" => Counted(n) = [counts EXCEPT ![Call(1).task] = @ \cup {n}]
           /\ query.kind = "tree" =>
                 Attached(n) = attached \cup {<<Call(Depth).task, n, Direction(Call(Depth))>>}
  <1>1. Top = Call(Depth) /\ Last(stack) = Call(1) /\ Call(Depth) \in Frame /\ Call(1) \in Frame
    BY CallsType
  <1>2. Top.task \in Tasks /\ Last(stack).task \in Tasks
    BY <1>1 DEF Frame
  <1>3. Direction(Top) \in {"blocks", "blocked_by"}
    BY DEF Direction
  <1>4. Attached(n) \subseteq Tasks \X Tasks \X {"blocks", "blocked_by"}
    BY <1>2, <1>3 DEF Attached, TypeInv
  <1>5. Counted(n) \in [Tasks -> SUBSET Tasks]
    BY <1>2 DEF Counted, TypeInv
  <1> QED BY <1>1, <1>4, <1>5 DEF Attached, Counted

Inv1 == TypeInv /\ QueryInv

\* At the start nothing is asked.
LEMMA TypesInit == Init => Inv1
  <1> SUFFICES ASSUME Init PROVE Inv1
    OBVIOUS
  <1>1. <<>> \in Seq(Frame) /\ <<>> \in Seq(Tasks)
    BY EmptySeq
  <1>2. edges \subseteq Tasks \X Tasks
    BY GraphAssumption DEF Init
  <1>3. TypeInv
    BY <1>1, <1>2 DEF Init, TypeInv, NoQuery
  <1>4. QueryInv
    BY DEF Init, QueryInv, NoQuery
  <1> QED BY <1>3, <1>4 DEF Inv1

\* No step leaves the types.
LEMMA TypesStep == Inv1 /\ [Next]_vars => Inv1'
  <1> SUFFICES ASSUME Inv1, [Next]_vars PROVE Inv1'
    OBVIOUS
  <1> USE DEF Inv1
  <1>1. CASE Asks
    <2>1. PICK kind \in {"tree", "path", "count"}, down \in BOOLEAN, up \in BOOLEAN,
               depth \in Nat, starts \in SUBSET Tasks :
          /\ Ask(kind, down, up, depth, starts)
          /\ kind = "tree" => depth # 0 /\ \E t \in Tasks : starts = {t}
          /\ kind \in {"path", "count"} => down /\ ~up
          /\ kind = "path" => depth = MaxGraphDepth - 1
          /\ kind = "count" => depth = MaxGraphDepth
      BY <1>1 DEF Asks
    <2>2. TypeInv'
      BY <2>1 DEF Ask, TypeInv
    <2>3. QueryInv'
      BY <2>1 DEF Ask, QueryInv
    <2> QED BY <2>2, <2>3
  <1>2. ASSUME NEW e \in Tasks \X Tasks, Write(e) PROVE Inv1'
    <2>1. edges' \subseteq Tasks \X Tasks /\ changes' \in Nat /\ changes' # 0
      BY <1>2 DEF Write, TypeInv
    <2>2. TypeInv'
      BY <1>2, <2>1 DEF Write, TypeInv
    <2>3. QueryInv'
      BY <1>2 DEF Write, QueryInv
    <2> QED BY <2>2, <2>3
  <1>3. CASE Start
    <2>1. TypeInv'
      BY <1>3, StartMoves DEF Start, TypeInv
    <2>2. QueryInv'
      BY <1>3 DEF Start, QueryInv
    <2> QED BY <2>1, <2>2
  <1>4. CASE StartFails
    <2>1. changes' \in Nat /\ changes' # 0
      BY <1>4 DEF StartFails, TypeInv
    <2>2. TypeInv'
      BY <1>4, <2>1 DEF StartFails, StartMark, TypeInv
    <2>3. QueryInv'
      BY <1>4 DEF StartFails, QueryInv
    <2> QED BY <2>2, <2>3
  <1>5. CASE Visit
    <2>0. PICK d : d = Depth
      OBVIOUS
    <2>1. PICK n \in Tasks :
              \/ /\ Pushes(d, n) /\ Enters(n, d) /\ visited' = visited \cup {n}
                 /\ attached' = Attached(n) /\ counts' = Counted(n)
              \/ /\ TopMoves(d, n) /\ ~Enters(n, d) /\ UNCHANGED <<visited, attached, counts>>
      BY <1>5, <2>0, VisitMoves
    <2>2. stack' \in Seq(Frame) /\ d > 0
      BY <2>1 DEF Pushes, TopMoves
    <2>3. /\ visited' \subseteq Tasks /\ counts' \in [Tasks -> SUBSET Tasks]
          /\ attached' \subseteq Tasks \X Tasks \X {"blocks", "blocked_by"}
      BY <2>0, <2>1, <2>2, NotesType DEF TypeInv
    <2>4. TypeInv'
      BY <1>5, <2>2, <2>3 DEF Visit, TypeInv
    <2>5. QueryInv'
      BY <1>5 DEF Visit, QueryInv
    <2> QED BY <2>4, <2>5
  <1>6. CASE ReadFails
    <2>0. PICK d : d = Depth
      OBVIOUS
    <2>1. PICK n \in Tasks :
              /\ TopMoves(d, n) /\ Enters(n, d) /\ counts' = Counted(n)
              /\ visited' = IF query.kind = "path" THEN visited ELSE visited \cup {n}
              /\ at' = IF query.kind = "tree" THEN "failed" ELSE at
      BY <1>6, <2>0, ReadFailsMoves
    <2>2. stack' \in Seq(Frame) /\ d > 0
      BY <2>1 DEF TopMoves
    <2>3. counts' \in [Tasks -> SUBSET Tasks] /\ visited' \subseteq Tasks
      BY <2>0, <2>1, <2>2, NotesType DEF TypeInv
    <2>4. changes' \in Nat /\ changes' # 0
      BY <1>6 DEF ReadFails, TypeInv
    <2>5. TypeInv'
      BY <1>6, <2>1, <2>2, <2>3, <2>4 DEF ReadFails, TypeInv
    <2>6. QueryInv'
      BY <1>6, <2>1 DEF ReadFails, QueryInv
    <2> QED BY <2>5, <2>6
  <1>7. CASE Return
    <2>0. PICK d : d = Depth
      OBVIOUS
    <2>1. /\ Pops(d, Noted(d)) /\ visited' = Leave(Call(d).task)
          /\ best' = IF query.kind = "path" /\ d = 1 THEN Longer(Path(d), best) ELSE best
      BY <1>7, <2>0, ReturnMoves
    <2>2. d > 0 /\ stack' \in Seq(Frame)
      BY <2>1 DEF Pops
    <2>3. Call(d) \in Frame
      BY <2>0, <2>2, CallsType
    <2>4. Path(d) \in Seq(Tasks) /\ Longer(Path(d), best) \in Seq(Tasks)
      BY <2>3, ConsPath, LongerType DEF Frame, Path, TypeInv
    <2>5. best' \in Seq(Tasks) /\ visited' \subseteq Tasks
      BY <2>1, <2>4 DEF TypeInv, Leave
    <2>6. TypeInv'
      BY <1>7, <2>2, <2>5 DEF Return, TypeInv
    <2>7. QueryInv'
      BY <1>7 DEF Return, QueryInv
    <2> QED BY <2>6, <2>7
  <1>8. CASE Answer
    BY <1>8 DEF Answer, TypeInv, QueryInv
  <1>9. CASE UNCHANGED vars
    BY <1>9 DEF vars, TypeInv, QueryInv
  <1> QED BY <1>1, <1>2, <1>3, <1>4, <1>5, <1>6, <1>7, <1>8, <1>9, RequestsAsk DEF Next

\* The types and the facts of the query hold in every state.
LEMMA TypesAlways == Spec => []Inv1
  BY TypesInit, TypesStep, PTL DEF Spec

-----------------------------------------------------------------------------
(* The calls in progress *)

\* Edges that come leave the steps there are.
LEMMA StepsKept ==
    ASSUME query' = query, ever \subseteq ever'
    PROVE  Steps \subseteq Steps'
  <1>1. {<<e[2], e[1]>> : e \in ever} \subseteq {<<e[2], e[1]>> : e \in ever'}
    OBVIOUS
  <1> QED BY <1>1 DEF Steps

\* What a call has left are steps from its task.
LEMMA LeftAreSteps ==
    ASSUME NEW i, CallOK(i), NEW n \in Call(i).down \cup Call(i).up
    PROVE  <<Call(i).task, n>> \in Steps
  <1>1. CASE n \in Call(i).down
    BY <1>1 DEF CallOK, Steps
  <1>2. CASE n \in Call(i).up
    <2>1. query.up /\ <<n, Call(i).task>> \in ever
      BY <1>2 DEF CallOK
    <2> DEFINE e == <<n, Call(i).task>>
    <2>2. e \in ever /\ <<e[2], e[1]>> = <<Call(i).task, n>>
      BY <2>1
    <2> HIDE DEF e
    <2> QED BY <2>1, <2>2 DEF Steps
  <1> QED BY <1>1, <1>2

\* A call that is still there has the same task and nothing more left.
Stays(i) == /\ Call(i)'.task = Call(i).task
            /\ Call(i)'.down \subseteq Call(i).down /\ Call(i)'.up \subseteq Call(i).up
            /\ Call(i).task \in visited'

\* Calls that stay as they were are still a path, when others have returned.
LEMMA CallsStay ==
    ASSUME CallsInv, Depth \in Nat, Depth' \in 0..Depth, query' = query, todo' = todo,
           ever \subseteq ever', query.depth \in Nat,
           \A i \in 1..Depth' : Stays(i)
    PROVE  CallsInv'
  <1>1. 1..Depth' \subseteq 1..Depth
    OBVIOUS
  <1>2. Depth' <= query'.depth + 1
    BY DEF CallsInv
  <1>3. Depth' > 0 => Call(1)'.task \in query'.starts \ todo'
    BY DEF CallsInv, Stays
  <1>4. \A i \in 1..Depth' : CallOK(i)'
    BY <1>1 DEF CallsInv, CallOK, Stays
  <1>5. \A i, j \in 1..Depth' : /\ Call(i)'.task = Call(j)'.task => i = j
                                /\ j = i + 1 => <<Call(i)'.task, Call(j)'.task>> \in Steps'
    BY <1>1, StepsKept DEF CallsInv, Stays
  <1> QED BY <1>2, <1>3, <1>4, <1>5 DEF CallsInv

\* The calls stay when the innermost goes on, ...
LEMMA StayOnTop ==
    ASSUME Inv1, CallsInv, NEW d, NEW n, TopMoves(d, n), visited \subseteq visited'
    PROVE  Depth' = d /\ \A i \in 1..d : Stays(i)
  <1>1. d \in Nat /\ d > 0 /\ d = Depth /\ n \in Neighbours(Call(d)) /\ Call(d) \in Frame
    BY CallsType DEF TopMoves, Inv1
  <1>2. ASSUME NEW i \in 1..d PROVE Stays(i)
    <2>1. Call(i).task \in visited'
      BY <1>1 DEF CallsInv, CallOK
    <2>2. CASE i = d
      <3>1. Call(i)' = Called(Call(i), n)
        BY <2>2 DEF TopMoves
      <3> QED BY <1>1, <2>1, <2>2, <3>1, CalledType DEF Stays
    <2>3. CASE i # d
      <3>1. i \in 1..d - 1
        BY <1>1, <2>3
      <3>2. Call(i)' = Call(i)
        BY <3>1 DEF TopMoves
      <3> QED BY <2>1, <3>2 DEF Stays
    <2> QED BY <2>2, <2>3
  <1> QED BY <1>2 DEF TopMoves

\* ... and the others when it returns.
LEMMA StayBelow ==
    ASSUME Inv1, CallsInv, NEW d, NEW B, Pops(d, B), visited' = Leave(Call(d).task)
    PROVE  Depth' = d - 1 /\ \A i \in 1..d - 1 : Stays(i)
  <1>1. d \in Nat /\ d > 0 /\ d = Depth
    BY CallsType DEF Pops, Inv1
  <1>2. ASSUME NEW i \in 1..d - 1 PROVE Stays(i)
    <2>1. Call(i).task \in visited /\ Call(i).task # Call(d).task
      <3>1. i \in 1..Depth /\ d \in 1..Depth /\ i # d
        BY <1>1
      <3>2. CallOK(i) /\ (Call(i).task = Call(d).task => i = d)
        BY <3>1 DEF CallsInv
      <3> QED BY <3>1, <3>2 DEF CallOK
    <2>2. Call(i).task \in visited'
      BY <2>1 DEF Leave
    <2>3. CASE i = d - 1
      <3>1. Call(i)' = [Call(i) EXCEPT !.best = B] /\ Call(i) \in Frame
        BY <1>1, <2>3, CallsType DEF Pops, Inv1
      <3>2. /\ [Call(i) EXCEPT !.best = B].task = Call(i).task
            /\ [Call(i) EXCEPT !.best = B].down = Call(i).down
            /\ [Call(i) EXCEPT !.best = B].up = Call(i).up
        BY <3>1 DEF Frame
      <3> QED BY <2>2, <3>1, <3>2 DEF Stays
    <2>4. CASE i # d - 1
      <3>1. i \in 1..d - 2
        BY <1>1, <2>4
      <3>2. Call(i)' = Call(i)
        BY <3>1 DEF Pops
      <3> QED BY <2>2, <3>2 DEF Stays
    <2> QED BY <2>3, <2>4
  <1> QED BY <1>2 DEF Pops

\* A neighbour that is called has not been called before.
LEMMA CallsPush ==
    ASSUME Inv1, CallsInv, NEW d, NEW n \in Tasks, Pushes(d, n), Enters(n, d),
           visited' = visited \cup {n}, UNCHANGED <<edges, query, todo, ever>>
    PROVE  /\ CallsInv' /\ Depth' = d + 1 /\ Call(d + 1)'.task = n
           /\ \A i \in 1..d : Stays(i)
           /\ <<Call(d).task, n>> \in Steps
  <1>1. /\ d \in Nat /\ d > 0 /\ d = Depth /\ n \in Neighbours(Call(d)) /\ Call(d) \in Frame
        /\ query.depth \in Nat /\ edges \subseteq ever
    BY CallsType DEF Pushes, Inv1, TypeInv
  <1>2. n \notin visited /\ d <= query.depth
    BY DEF Enters
  <1>3. /\ Call(d + 1)' = Read(n) /\ Call(d)' = Called(Call(d), n) /\ Depth' = d + 1
        /\ \A i \in 1..d - 1 : Call(i)' = Call(i)
    BY DEF Pushes
  <1>4. Read(n).task = n
    BY ReadType DEF Inv1
  <1>5. ASSUME NEW i \in 1..d PROVE Stays(i) /\ Call(i).task # n
    <2>1. Call(i).task \in visited
      BY <1>1 DEF CallsInv, CallOK
    <2>2. CASE i = d
      BY <1>1, <1>2, <1>3, <2>1, <2>2, CalledType DEF Stays
    <2>3. CASE i # d
      <3>1. i \in 1..d - 1
        BY <1>1, <2>3
      <3> QED BY <1>2, <1>3, <2>1, <3>1 DEF Stays
    <2> QED BY <2>2, <2>3
  <1>6. <<Call(d).task, n>> \in Steps
    <2>1. CallOK(d) /\ n \in Call(d).down \cup Call(d).up
      BY <1>1, CalledType DEF CallsInv
    <2> QED BY <2>1, LeftAreSteps
  <1>7. Steps' = Steps
    BY DEF Steps
  <1>8. ASSUME NEW i \in 1..d + 1 PROVE CallOK(i)'
    <2>1. CASE i = d + 1
      <3>1. /\ \A m \in Read(n).down : query.down /\ <<n, m>> \in edges
            /\ \A m \in Read(n).up : query.up /\ <<m, n>> \in edges
        BY ReadType DEF Inv1
      <3> QED BY <1>1, <1>3, <1>4, <2>1, <3>1 DEF CallOK
    <2>2. CASE i # d + 1
      <3>1. i \in 1..d
        BY <1>1, <2>2
      <3>2. CallOK(i) /\ Stays(i)
        BY <1>1, <1>5, <3>1 DEF CallsInv
      <3> QED BY <3>2 DEF CallOK, Stays
    <2> QED BY <2>1, <2>2
  <1>9. ASSUME NEW i \in 1..d + 1, NEW j \in 1..d + 1
        PROVE  /\ Call(i)'.task = Call(j)'.task => i = j
               /\ j = i + 1 => <<Call(i)'.task, Call(j)'.task>> \in Steps'
    <2>1. CASE i \in 1..d /\ j \in 1..d
      BY <1>1, <1>5, <1>7, <2>1 DEF CallsInv, Stays
    <2>2. CASE i \in 1..d /\ j = d + 1
      <3>1. Call(i)'.task = Call(i).task /\ Call(j)'.task = n /\ Call(i).task # n
        BY <1>3, <1>4, <1>5, <2>2 DEF Stays
      <3>2. j = i + 1 => i = d
        BY <1>1, <2>2
      <3> QED BY <1>6, <1>7, <3>1, <3>2
    <2>3. CASE i = d + 1 /\ j \in 1..d
      <3>1. Call(j)'.task = Call(j).task /\ Call(i)'.task = n /\ Call(j).task # n /\ j # i + 1
        BY <1>1, <1>3, <1>4, <1>5, <2>3 DEF Stays
      <3> QED BY <3>1
    <2>4. CASE i = d + 1 /\ j = d + 1
      BY <1>1, <2>4
    <2> QED BY <1>1, <2>1, <2>2, <2>3, <2>4
  <1>10. Call(1)'.task \in query'.starts \ todo'
    <2>1. Stays(1) /\ Call(1).task \in query.starts \ todo
      BY <1>1, <1>5 DEF CallsInv
    <2> QED BY <2>1 DEF Stays
  <1>11. CallsInv'
    BY <1>1, <1>2, <1>3, <1>8, <1>9, <1>10 DEF CallsInv
  <1> QED BY <1>3, <1>4, <1>5, <1>6, <1>11

\* No call is in progress at the start.
LEMMA CallsInit == Init => CallsInv
  <1> SUFFICES ASSUME Init PROVE CallsInv
    OBVIOUS
  <1>1. Depth = 0 /\ query.depth = 0
    BY EmptySeq DEF Init, Depth, NoQuery
  <1> QED BY <1>1 DEF CallsInv

\* Each step keeps the calls a path.
LEMMA CallsStep == Inv1 /\ CallsInv /\ [Next]_vars => CallsInv'
  <1> SUFFICES ASSUME Inv1, CallsInv, [Next]_vars PROVE CallsInv'
    OBVIOUS
  <1>0. /\ Depth \in Nat /\ query.depth \in Nat /\ edges \subseteq ever
        /\ \A i \in 1..Depth : Call(i).task \in visited
    BY CallsType DEF Inv1, TypeInv, CallsInv, CallOK
  <1>1. CASE Asks
    <2>1. stack' = stack /\ stack = <<>>
      BY <1>1 DEF Asks, Ask, Inv1, QueryInv
    <2>2. Depth' = 0
      BY <2>1 DEF Depth
    <2>3. query'.depth \in Nat
      BY <1>1 DEF Asks, Ask
    <2> QED BY <2>2, <2>3 DEF CallsInv
  <1>2. CASE /\ UNCHANGED <<query, todo, stack, visited>> /\ ever \subseteq ever'
    <2>1. Depth' = Depth /\ \A i \in 1..Depth' : Stays(i)
      BY <1>0, <1>2 DEF Depth, Call, Stays
    <2> QED BY <1>0, <1>2, <2>1, CallsStay
  <1>3. CASE Start
    <2>1. PICK t \in todo : /\ todo' = todo \ {t} /\ visited' = {t}
                            /\ t \in Tasks /\ Call(1)' = Read(t)
      BY <1>3, StartMoves DEF Inv1
    <2>2. Depth' = 1 /\ UNCHANGED <<edges, query, ever>>
      BY <1>3, StartMoves DEF Inv1, Start
    <2>3. Read(t).task = t
      BY <2>1, ReadType DEF Inv1
    <2>4. CallOK(1)'
      <3>1. /\ \A m \in Read(t).down : query.down /\ <<t, m>> \in edges
            /\ \A m \in Read(t).up : query.up /\ <<m, t>> \in edges
        BY <2>1, ReadType DEF Inv1
      <3> QED BY <1>0, <2>1, <2>2, <2>3, <3>1 DEF CallOK
    <2>5. Call(1)'.task \in query'.starts \ todo'
      BY <2>1, <2>2, <2>3 DEF Inv1, TypeInv
    <2> QED BY <1>0, <2>2, <2>4, <2>5 DEF CallsInv
  <1>4. CASE StartFails
    <2>1. Depth' = 0 /\ query' = query
      BY <1>4, EmptySeq DEF StartFails, Depth
    <2> QED BY <1>0, <2>1 DEF CallsInv
  <1>5. CASE Visit
    <2>0. PICK d : d = Depth
      OBVIOUS
    <2>1. PICK n \in Tasks :
              \/ /\ Pushes(d, n) /\ Enters(n, d) /\ visited' = visited \cup {n}
                 /\ attached' = Attached(n) /\ counts' = Counted(n)
              \/ /\ TopMoves(d, n) /\ ~Enters(n, d) /\ UNCHANGED <<visited, attached, counts>>
      BY <1>5, <2>0, VisitMoves DEF Inv1
    <2>2. UNCHANGED <<edges, query, todo, ever>>
      BY <1>5 DEF Visit
    <2>3. CASE TopMoves(d, n) /\ visited' = visited
      <3>1. Depth' = d /\ \A i \in 1..d : Stays(i)
        BY <2>3, StayOnTop
      <3> QED BY <1>0, <2>0, <2>2, <3>1, CallsStay
    <2> QED BY <2>1, <2>2, <2>3, CallsPush
  <1>6. CASE ReadFails
    <2>0. PICK d : d = Depth
      OBVIOUS
    <2>1. PICK n \in Tasks :
              /\ TopMoves(d, n) /\ Enters(n, d) /\ counts' = Counted(n)
              /\ visited' = IF query.kind = "path" THEN visited ELSE visited \cup {n}
              /\ at' = IF query.kind = "tree" THEN "failed" ELSE at
      BY <1>6, <2>0, ReadFailsMoves DEF Inv1
    <2>2. UNCHANGED <<edges, query, todo, ever>>
      BY <1>6 DEF ReadFails
    <2>3. Depth' = d /\ \A i \in 1..d : Stays(i)
      BY <2>1, StayOnTop
    <2> QED BY <1>0, <2>0, <2>2, <2>3, CallsStay
  <1>7. CASE Return
    <2>0. PICK d : d = Depth
      OBVIOUS
    <2>1. Pops(d, Noted(d)) /\ visited' = Leave(Call(d).task)
      BY <1>7, <2>0, ReturnMoves DEF Inv1
    <2>2. UNCHANGED <<edges, query, todo, ever>>
      BY <1>7 DEF Return
    <2>3. d > 0
      BY <2>1 DEF Pops
    <2>4. Depth' = d - 1 /\ \A i \in 1..d - 1 : Stays(i)
      BY <2>1, StayBelow
    <2> QED BY <1>0, <2>0, <2>2, <2>3, <2>4, CallsStay
  <1>8. CASE \E e \in Tasks \X Tasks : Write(e)
    BY <1>2, <1>8 DEF Write
  <1>9. CASE Answer \/ UNCHANGED vars
    BY <1>2, <1>9 DEF Answer, vars
  <1> QED BY <1>1, <1>3, <1>4, <1>5, <1>6, <1>7, <1>8, <1>9, RequestsAsk DEF Next

Inv2 == Inv1 /\ CallsInv

\* The calls in progress are a path in every state.
LEMMA CallsAlways == Spec => []Inv2
  BY TypesAlways, CallsInit, CallsStep, PTL DEF Spec, Inv2

-----------------------------------------------------------------------------
(* What an answer has, whatever is written or fails meanwhile *)

\* The one start task of a tree has begun when a call is in progress.
LEMMA TreeBegun == Inv2 /\ query.kind = "tree" /\ Depth > 0 => todo = {} /\ query.starts = {Call(1).task}
  BY DEF Inv2, Inv1, TypeInv, QueryInv, CallsInv

\* A call's neighbour is the node of a tree that no other node is.
LEMMA TreeNodes ==
    ASSUME Inv2, TreeInv, NEW d, d = Depth, d > 0, NEW n \in Neighbours(Call(d)), n \notin visited,
           attached' = Attached(n), visited' = visited \cup {n}, UNCHANGED <<query, todo, ever>>
    PROVE  TreeInv'
  <1>1. CASE query.kind # "tree"
    <2>1. attached' = {}
      BY <1>1, NotesType DEF TreeInv, Attached
    <2> QED BY <1>1, <2>1 DEF TreeInv
  <1>2. CASE query.kind = "tree"
    <2>1. d \in 1..Depth /\ Call(d) \in Frame /\ CallOK(d)
      BY CallsType DEF Inv2, Inv1, CallsInv
    <2>2. n \in Tasks /\ IF Call(d).down # {} THEN n \in Call(d).down ELSE n \in Call(d).up
      BY <2>1, CalledType
    <2> DEFINE y == <<Call(d).task, n, Direction(Call(d))>>
    <2>3. attached' = attached \cup {y}
      BY <1>2, <2>2, NotesType DEF Inv2, Inv1
    <2>4. y[2] = n /\ IF y[3] = "blocks" THEN <<y[1], y[2]>> \in ever ELSE <<y[2], y[1]>> \in ever
      BY <2>1, <2>2 DEF CallOK, Direction
    <2> HIDE DEF y
    <2>5. todo' = {}
      BY <1>2, TreeBegun
    <2>6. \A x \in attached : x[2] \in visited
      BY DEF TreeInv
    <2>7. \A x \in attached' :
             /\ x[2] \in visited'
             /\ IF x[3] = "blocks" THEN <<x[1], x[2]>> \in ever' ELSE <<x[2], x[1]>> \in ever'
      BY <2>3, <2>4 DEF TreeInv
    <2>8. \A x, z \in attached' : x[2] = z[2] => x = z
      BY <2>3, <2>4, <2>6 DEF TreeInv
    <2> QED BY <1>2, <2>5, <2>7, <2>8 DEF TreeInv
  <1> QED BY <1>1, <1>2

\* No node is attached at the start.
LEMMA TreeInit == Init => TreeInv
  BY DEF Init, TreeInv

\* Each step keeps the nodes of a tree apart.
LEMMA TreeStep == Inv2 /\ TreeInv /\ [Next]_vars => TreeInv'
  <1> SUFFICES ASSUME Inv2, TreeInv, [Next]_vars PROVE TreeInv'
    OBVIOUS
  <1>1. CASE Asks
    <2>1. attached' = {}
      BY <1>1 DEF Asks, Ask, Inv2, Inv1, QueryInv
    <2> QED BY <2>1 DEF TreeInv
  <1>2. CASE /\ UNCHANGED <<query, attached, todo>> /\ ever \subseteq ever'
             /\ query.kind # "tree" \/ visited \subseteq visited'
    <2>1. CASE query.kind # "tree"
      <3>1. attached' = {}
        BY <1>2, <2>1 DEF TreeInv
      <3> QED BY <1>2, <2>1, <3>1 DEF TreeInv
    <2>2. CASE query.kind = "tree"
      <3>1. visited \subseteq visited' /\ attached' = attached
        BY <1>2, <2>2
      <3>2. \A x \in attached' :
               /\ x[2] \in visited'
               /\ IF x[3] = "blocks" THEN <<x[1], x[2]>> \in ever' ELSE <<x[2], x[1]>> \in ever'
        BY <1>2, <3>1 DEF TreeInv
      <3> QED BY <1>2, <3>1, <3>2 DEF TreeInv
    <2> QED BY <2>1, <2>2
  <1>3. CASE Start \/ StartFails
    <2>1. attached' = {}
      BY <1>3 DEF Start, StartFails, TreeInv
    <2> QED BY <2>1 DEF TreeInv
  <1>4. CASE Visit
    <2>0. PICK d : d = Depth
      OBVIOUS
    <2>1. PICK n \in Tasks :
              \/ /\ Pushes(d, n) /\ Enters(n, d) /\ visited' = visited \cup {n}
                 /\ attached' = Attached(n) /\ counts' = Counted(n)
              \/ /\ TopMoves(d, n) /\ ~Enters(n, d) /\ UNCHANGED <<visited, attached, counts>>
      BY <1>4, <2>0, VisitMoves DEF Inv2, Inv1
    <2>2. UNCHANGED <<query, todo, ever>>
      BY <1>4 DEF Visit
    <2>3. CASE /\ Pushes(d, n) /\ Enters(n, d) /\ visited' = visited \cup {n}
               /\ attached' = Attached(n)
      BY <2>2, <2>3, TreeNodes DEF Pushes, Enters
    <2> QED BY <1>2, <2>1, <2>2, <2>3
  <1>5. CASE ReadFails
    <2>1. UNCHANGED <<query, attached, todo, ever>> /\ visited \subseteq visited'
      BY <1>5 DEF ReadFails
    <2> QED BY <1>2, <2>1
  <1>6. CASE Return
    <2>1. UNCHANGED <<query, attached, todo, ever>> /\ (query.kind # "tree" \/ visited' = visited)
      BY <1>6 DEF Return, Leave
    <2> QED BY <1>2, <2>1
  <1>7. CASE \E e \in Tasks \X Tasks : Write(e)
    BY <1>2, <1>7 DEF Write
  <1>8. CASE Answer \/ UNCHANGED vars
    BY <1>2, <1>8 DEF Answer, vars
  <1> QED BY <1>1, <1>3, <1>4, <1>5, <1>6, <1>7, <1>8, RequestsAsk DEF Next

\* A count notes a neighbour that is behind the start task.
LEMMA CountNotes ==
    ASSUME Inv2, CountInv, NEW d, d = Depth, d > 0, NEW n \in Tasks, Enters(n, d),
           <<Call(d).task, n>> \in Steps, Depth' > 0, Call(1)'.task = Call(1).task,
           query.kind = "count" => visited' = visited \cup {n}, counts' = Counted(n),
           UNCHANGED <<query, todo, ever>>
    PROVE  CountInv'
  <1>1. CASE query.kind # "count"
    BY <1>1 DEF CountInv, Counted
  <1>2. CASE query.kind = "count"
    <2> DEFINE r == Call(1).task
    <2>1. d \in Nat /\ Call(1) \in Frame /\ r \in query.starts \ todo /\ r \in visited
      BY CallsType DEF Inv2, Inv1, CallsInv, CallOK
    <2>2. r \in Tasks /\ counts \in [Tasks -> SUBSET Tasks] /\ query.starts \subseteq Tasks
      BY <2>1 DEF Frame, Inv2, Inv1, TypeInv
    <2>3. counts' = [counts EXCEPT ![r] = @ \cup {n}]
      BY <1>2, NotesType DEF Inv2, Inv1
    <2>4. n \in Behind(r, ever)
      <3>1. Call(d).task \in visited
        BY <2>1 DEF Inv2, CallsInv, CallOK
      <3>2. Call(d).task \in Behind(r, ever) /\ <<Call(d).task, n>> \in ever
        BY <1>2, <3>1 DEF CountInv, Inv2, Inv1, QueryInv, Steps
      <3> QED BY <3>2, BehindFollows DEF Follows
    <2>5. n \notin visited /\ n # r
      BY <2>1 DEF Enters
    <2> HIDE DEF r
    <2>6. visited' \subseteq Behind(r, ever) /\ counts'[r] = visited' \ {r}
      BY <1>2, <2>2, <2>3, <2>4, <2>5 DEF CountInv, r
    <2>7. \A t \in todo : counts'[t] = {}
      BY <2>1, <2>2, <2>3 DEF CountInv, Inv2, Inv1, TypeInv
    <2>8. \A t \in Tasks : counts'[t] \subseteq Behind(t, ever) \ {t}
      BY <2>2, <2>3, <2>4, <2>5 DEF CountInv
    <2>9. Call(1)'.task = r
      BY DEF r
    <2> QED BY <1>2, <2>6, <2>7, <2>8, <2>9 DEF CountInv
  <1> QED BY <1>1, <1>2

\* Nothing is counted at the start.
LEMMA CountInit == Init => CountInv
  <1> SUFFICES ASSUME Init PROVE CountInv
    OBVIOUS
  <1>1. Depth = 0
    BY EmptySeq DEF Init, Depth
  <1> QED BY <1>1 DEF Init, CountInv

\* Nothing noted changes, and the start task of the call stays.
LEMMA CountStays ==
    ASSUME CountInv, UNCHANGED <<query, counts, todo>>, ever \subseteq ever', Depth \in Nat,
           Depth' \in Nat, Depth' > 0 => Depth > 0 /\ Call(1)'.task = Call(1).task,
           Depth' > 0 /\ query.kind = "count" => visited' = visited
    PROVE  CountInv'
  <1>1. \A t : Behind(t, ever) \subseteq Behind(t, ever')
    BY BehindGrows
  <1>2. \A t \in Tasks : counts'[t] \subseteq Behind(t, ever') \ {t}
    BY <1>1 DEF CountInv
  <1>3. query'.kind = "count" /\ Depth' > 0 =>
          /\ visited' \subseteq Behind(Call(1)'.task, ever')
          /\ counts'[Call(1)'.task] = visited' \ {Call(1)'.task}
    <2> SUFFICES ASSUME query'.kind = "count", Depth' > 0
                 PROVE  /\ visited' \subseteq Behind(Call(1)'.task, ever')
                        /\ counts'[Call(1)'.task] = visited' \ {Call(1)'.task}
      OBVIOUS
    <2>0. query.kind = "count" /\ counts' = counts
      OBVIOUS
    <2>1. /\ query.kind = "count" /\ Depth > 0 /\ Call(1)'.task = Call(1).task
          /\ visited' = visited /\ counts' = counts
      BY <2>0
    <2>2. /\ visited \subseteq Behind(Call(1).task, ever)
          /\ counts[Call(1).task] = visited \ {Call(1).task}
      BY <2>1 DEF CountInv
    <2>3. visited \subseteq Behind(Call(1).task, ever')
      BY <1>1, <2>2
    <2> QED BY <2>1, <2>2, <2>3
  <1> QED BY <1>2, <1>3 DEF CountInv

\* Each step keeps the counts to what is behind the start tasks.
LEMMA CountStep == Inv2 /\ CountInv /\ [Next]_vars => CountInv'
  <1> SUFFICES ASSUME Inv2, CountInv, [Next]_vars PROVE CountInv'
    OBVIOUS
  <1>0. Depth \in Nat
    BY CallsType DEF Inv2, Inv1
  <1>1. CASE Asks
    <2>1. /\ stack' = <<>> /\ counts' = [t \in Tasks |-> {}] /\ todo' \subseteq Tasks
      BY <1>1 DEF Asks, Ask, Inv2, Inv1, QueryInv
    <2>2. Depth' = 0
      BY <2>1, EmptySeq DEF Depth
    <2> QED BY <2>1, <2>2 DEF CountInv
  <1>2. CASE UNCHANGED <<query, counts, todo, stack, visited>> /\ ever \subseteq ever'
    <2>1. Depth' = Depth /\ Call(1)' = Call(1)
      BY <1>2 DEF Depth, Call
    <2> QED BY <1>0, <1>2, <2>1, CountStays
  <1>3. CASE Start
    <2>1. PICK t \in todo : /\ todo' = todo \ {t} /\ visited' = {t}
                            /\ t \in Tasks /\ Call(1)' = Read(t)
      BY <1>3, StartMoves DEF Inv2, Inv1
    <2>2. Depth' = 1 /\ UNCHANGED <<query, counts, ever>> /\ Read(t).task = t
      BY <1>3, <2>1, StartMoves, ReadType DEF Inv2, Inv1, Start
    <2>3. visited' \subseteq Behind(t, ever) /\ counts[t] = {}
      BY <2>1, BehindItself DEF CountInv
    <2> QED BY <2>1, <2>2, <2>3 DEF CountInv
  <1>4. CASE StartFails
    <2>1. /\ Depth' = 0 /\ UNCHANGED <<query, counts, ever>> /\ todo' \subseteq todo
      BY <1>4, EmptySeq DEF StartFails, Depth
    <2> QED BY <2>1 DEF CountInv
  <1>5. CASE Visit
    <2>0. PICK d : d = Depth
      OBVIOUS
    <2>1. PICK n \in Tasks :
              \/ /\ Pushes(d, n) /\ Enters(n, d) /\ visited' = visited \cup {n}
                 /\ attached' = Attached(n) /\ counts' = Counted(n)
              \/ /\ TopMoves(d, n) /\ ~Enters(n, d) /\ UNCHANGED <<visited, attached, counts>>
      BY <1>5, <2>0, VisitMoves DEF Inv2, Inv1
    <2>2. UNCHANGED <<edges, query, todo, ever>>
      BY <1>5 DEF Visit
    <2>3. CASE /\ Pushes(d, n) /\ Enters(n, d) /\ visited' = visited \cup {n}
               /\ counts' = Counted(n)
      <3>1. d > 0 /\ 1 \in 1..d
        BY <1>0, <2>3 DEF Pushes
      <3>2. Depth' = d + 1 /\ Stays(1) /\ <<Call(d).task, n>> \in Steps
        BY <2>2, <2>3, <3>1, CallsPush DEF Inv2
      <3> QED BY <1>0, <2>0, <2>2, <2>3, <3>1, <3>2, CountNotes DEF Stays
    <2>4. CASE TopMoves(d, n) /\ UNCHANGED <<visited, counts>>
      <3>1. Depth' = d /\ d > 0 /\ Stays(1)
        BY <1>0, <2>4, StayOnTop DEF Inv2, TopMoves
      <3> QED BY <1>0, <2>0, <2>2, <2>4, <3>1, CountStays DEF Stays
    <2> QED BY <2>1, <2>3, <2>4
  <1>6. CASE ReadFails
    <2>0. PICK d : d = Depth
      OBVIOUS
    <2>1. PICK n \in Tasks :
              /\ TopMoves(d, n) /\ Enters(n, d) /\ counts' = Counted(n)
              /\ visited' = IF query.kind = "path" THEN visited ELSE visited \cup {n}
              /\ at' = IF query.kind = "tree" THEN "failed" ELSE at
      BY <1>6, <2>0, ReadFailsMoves DEF Inv2, Inv1
    <2>2. UNCHANGED <<query, todo, ever>>
      BY <1>6 DEF ReadFails
    <2>3. Depth' = d /\ d > 0 /\ Stays(1)
      BY <1>0, <2>1, StayOnTop DEF Inv2, TopMoves
    <2>4. <<Call(d).task, n>> \in Steps
      <3>1. CallOK(d) /\ Call(d) \in Frame /\ n \in Neighbours(Call(d))
        BY <1>0, <2>1, <2>3, CallsType DEF Inv2, Inv1, CallsInv, TopMoves
      <3> QED BY <3>1, CalledType, LeftAreSteps
    <2> QED BY <2>0, <2>1, <2>2, <2>3, <2>4, CountNotes DEF Stays
  <1>7. CASE Return
    <2>0. PICK d : d = Depth
      OBVIOUS
    <2>1. Pops(d, Noted(d)) /\ visited' = Leave(Call(d).task)
      BY <1>7, <2>0, ReturnMoves DEF Inv2, Inv1
    <2>2. UNCHANGED <<query, counts, todo, ever>>
      BY <1>7 DEF Return
    <2>3. d > 0
      BY <2>1 DEF Pops
    <2>4. Depth' = d - 1 /\ \A i \in 1..d - 1 : Stays(i)
      BY <2>1, StayBelow DEF Inv2
    <2>5. Depth' \in Nat /\ (Depth' > 0 => Stays(1))
      BY <1>0, <2>0, <2>3, <2>4
    <2> QED BY <1>0, <2>0, <2>1, <2>2, <2>3, <2>5, CountStays DEF Stays, Leave
  <1>8. CASE \E e \in Tasks \X Tasks : Write(e)
    BY <1>2, <1>8 DEF Write
  <1>9. CASE Answer \/ UNCHANGED vars
    BY <1>2, <1>9 DEF Answer, vars
  <1> QED BY <1>1, <1>3, <1>4, <1>5, <1>6, <1>7, <1>8, <1>9, RequestsAsk DEF Next

\* A task before a path that it is not on is a path.
LEMMA PathGoesOn ==
    ASSUME NEW t \in Tasks, NEW b \in Seq(Tasks), NEW R, PathOf(b, R),
           b # <<>> => <<t, b[1]>> \in R, \A k \in 1..Len(b) : t # b[k]
    PROVE  PathOf(<<t>> \o b, R)
  <1> DEFINE p == <<t>> \o b
  <1>1. /\ p \in Seq(Tasks) /\ Len(p) = Len(b) + 1 /\ Len(b) \in Nat /\ p[1] = t
        /\ \A k \in 1..Len(b) : p[k + 1] = b[k]
    BY ConsPath
  <1>2. Len(b) > 0 => b # <<>>
    BY EmptySeq
  <1> HIDE DEF p
  <1>3. ASSUME NEW j \in 1..Len(p) PROVE j = 1 \/ (j - 1 \in 1..Len(b) /\ p[j] = b[j - 1])
    <2>1. CASE j # 1
      <3>1. j - 1 \in 1..Len(b) /\ (j - 1) + 1 = j
        BY <1>1, <2>1
      <3>2. p[(j - 1) + 1] = b[j - 1]
        BY <1>1, <3>1
      <3> QED BY <3>1, <3>2
    <2> QED BY <2>1
  <1>4. ASSUME NEW j \in 1..Len(p), NEW k \in 1..Len(p), p[j] = p[k] PROVE j = k
    <2>1. CASE j = 1 /\ k = 1
      BY <2>1
    <2>2. CASE j = 1 /\ k # 1
      BY <1>1, <1>3, <1>4, <2>2
    <2>3. CASE j # 1 /\ k = 1
      BY <1>1, <1>3, <1>4, <2>3
    <2>4. CASE j # 1 /\ k # 1
      <3>1. b[j - 1] = b[k - 1] /\ j - 1 \in 1..Len(b) /\ k - 1 \in 1..Len(b)
        BY <1>3, <1>4, <2>4
      <3>2. j - 1 = k - 1
        BY <3>1 DEF PathOf
      <3> QED BY <1>1, <3>2
    <2> QED BY <2>1, <2>2, <2>3, <2>4
  <1>5. ASSUME NEW k \in 1..Len(p) - 1 PROVE <<p[k], p[k + 1]>> \in R
    <2>1. k \in 1..Len(b) /\ p[k + 1] = b[k] /\ Len(b) > 0
      BY <1>1
    <2>2. CASE k = 1
      BY <1>1, <1>2, <2>1, <2>2
    <2>3. CASE k # 1
      <3>1. k \in 1..Len(p) /\ k - 1 \in 1..Len(b) - 1 /\ (k - 1) + 1 = k
        BY <1>1, <2>3
      <3>2. p[k] = b[k - 1]
        BY <1>3, <2>3, <3>1
      <3>3. <<b[k - 1], b[(k - 1) + 1]>> \in R
        BY <3>1 DEF PathOf
      <3> QED BY <2>1, <3>1, <3>2, <3>3
    <2> QED BY <2>2, <2>3
  <1> QED BY <1>4, <1>5 DEF PathOf, p

\* A call hands a path on that begins at its task and avoids the tasks before.
LEMMA PathHanded ==
    ASSUME Inv2, PathInv, NEW i \in 1..Depth
    PROVE  /\ Path(i) \in Seq(Tasks) /\ PathOf(Path(i), ever) /\ Path(i) # <<>>
           /\ Path(i)[1] = Call(i).task /\ Len(Path(i)) = Len(Call(i).best) + 1
           /\ query.kind = "path" => i + Len(Path(i)) <= MaxGraphDepth + 1
           /\ \A j \in 1..i - 1, k \in 1..Len(Path(i)) : Call(j).task # Path(i)[k]
  <1> DEFINE t == Call(i).task
             b == Call(i).best
  <1>1. Depth \in Nat /\ t \in Tasks /\ b \in Seq(Tasks) /\ MaxGraphDepth \in Nat
    BY CallsType, GraphAssumption DEF Inv2, Inv1, Frame
  <1>2. /\ PathOf(b, ever) /\ (b # <<>> => <<t, b[1]>> \in ever)
        /\ \A j \in 1..i, k \in 1..Len(b) : Call(j).task # b[k]
        /\ query.kind = "path" => i + Len(b) <= MaxGraphDepth
    BY DEF PathInv, BestOK
  <1>3. Path(i) = <<t>> \o b
    BY DEF Path
  <1>4. \A j \in 1..i - 1 : j \in 1..i /\ Call(j).task # t
    <2>1. \A j \in 1..i - 1 : j \in 1..i /\ j \in 1..Depth /\ j # i
      BY <1>1
    <2>2. \A j \in 1..Depth : Call(j).task = Call(i).task => j = i
      BY DEF Inv2, CallsInv
    <2> QED BY <2>1, <2>2
  <1>5. \A k \in 1..Len(b) : t # b[k]
    BY <1>1, <1>2
  <1> HIDE DEF b
  <1> HIDE DEF t
  <1>6. PathOf(Path(i), ever)
    BY <1>1, <1>2, <1>3, <1>5, PathGoesOn
  <1>7. /\ Path(i) \in Seq(Tasks) /\ Len(Path(i)) = Len(b) + 1 /\ Len(b) \in Nat
        /\ Path(i)[1] = t /\ \A k \in 1..Len(b) : Path(i)[k + 1] = b[k]
    BY <1>1, <1>3, ConsPath
  <1>8. Path(i) # <<>>
    BY <1>7, EmptySeq
  <1>9. ASSUME NEW j \in 1..i - 1, NEW k \in 1..Len(Path(i)) PROVE Call(j).task # Path(i)[k]
    <2>1. CASE k = 1
      BY <1>4, <1>7, <2>1
    <2>2. CASE k # 1
      <3>1. k - 1 \in 1..Len(b) /\ (k - 1) + 1 = k
        BY <1>7, <2>2
      <3>2. Path(i)[k] = b[k - 1]
        BY <1>7, <3>1
      <3> QED BY <1>2, <1>4, <3>1, <3>2
    <2> QED BY <2>1, <2>2
  <1>10. query.kind = "path" => i + Len(Path(i)) <= MaxGraphDepth + 1
    BY <1>1, <1>2, <1>7
  <1> QED BY <1>6, <1>7, <1>8, <1>9, <1>10 DEF t, b

\* A call that stays keeps its best.
LEMMA BestStays ==
    ASSUME NEW i \in Nat, BestOK(i), \A j \in 1..i : Call(j)'.task = Call(j).task,
           i > 0, Call(i)'.best = Call(i).best, query' = query, ever \subseteq ever'
    PROVE  BestOK(i)'
  <1>1. i \in 1..i /\ Call(i)'.task = Call(i).task
    OBVIOUS
  <1>2. PathOf(Call(i).best, ever')
    BY DEF BestOK, PathOf
  <1> QED BY <1>1, <1>2 DEF BestOK

\* No path is found at the start.
LEMMA PathInit == Init => PathInv
  <1> SUFFICES ASSUME Init PROVE PathInv
    OBVIOUS
  <1>1. Depth = 0 /\ best = <<>> /\ Len(best) = 0
    BY EmptySeq DEF Init, Depth
  <1> QED BY <1>1, GraphAssumption DEF PathInv, PathOf

\* The caller notes the longer of two paths that go on from its task.
LEMMA NotedOK ==
    ASSUME Inv2, PathInv, NEW d \in 2..Depth
    PROVE  LET b == Noted(d)
           IN /\ b \in Seq(Tasks) /\ PathOf(b, ever)
              /\ b # <<>> => <<Call(d - 1).task, b[1]>> \in ever
              /\ \A j \in 1..d - 1, k \in 1..Len(b) : Call(j).task # b[k]
              /\ query.kind = "path" => (d - 1) + Len(b) <= MaxGraphDepth
  <1> DEFINE i == d - 1
             b == Noted(d)
             old == Call(i).best
  <1>1. Depth \in Nat /\ i \in 1..Depth /\ d \in 1..Depth /\ Call(i) \in Frame /\ d = i + 1
    BY CallsType DEF Inv2, Inv1
  <1>2. /\ old \in Seq(Tasks) /\ PathOf(old, ever)
        /\ old # <<>> => <<Call(i).task, old[1]>> \in ever
        /\ \A j \in 1..i, k \in 1..Len(old) : Call(j).task # old[k]
        /\ query.kind = "path" => i + Len(old) <= MaxGraphDepth
    BY <1>1 DEF PathInv, BestOK, Frame
  <1>3. CASE b = old
    <2> HIDE DEF b, old
    <2> QED BY <1>2, <1>3 DEF b
  <1>4. CASE query.kind = "path" /\ b = Path(d)
    <2>1. /\ Path(d) \in Seq(Tasks) /\ PathOf(Path(d), ever)
          /\ Path(d)[1] = Call(d).task
          /\ d + Len(Path(d)) <= MaxGraphDepth + 1 /\ Len(Path(d)) \in Nat
          /\ \A j \in 1..d - 1, k \in 1..Len(Path(d)) : Call(j).task # Path(d)[k]
      BY <1>1, <1>4, PathHanded, LenProperties
    <2>2. <<Call(i).task, Call(d).task>> \in ever
      <3>1. <<Call(i).task, Call(d).task>> \in Steps
        BY <1>1 DEF Inv2, CallsInv
      <3> QED BY <1>4, <3>1 DEF Steps, Inv2, Inv1, QueryInv
    <2>3. (d - 1) + Len(Path(d)) <= MaxGraphDepth
      BY <2>1, GraphAssumption
    <2> QED BY <1>4, <2>1, <2>2, <2>3
  <1>5. b = old \/ (query.kind = "path" /\ b = Path(d))
    BY DEF Noted, Longer
  <1> QED BY <1>3, <1>4, <1>5

\* Each step keeps the paths paths.
LEMMA PathStep == Inv2 /\ PathInv /\ [Next]_vars => PathInv'
  <1> SUFFICES ASSUME Inv2, PathInv, [Next]_vars PROVE PathInv'
    OBVIOUS
  <1>0. Depth \in Nat /\ \A i \in 1..Depth : Call(i) \in Frame
    BY CallsType DEF Inv2, Inv1
  <1>1. ASSUME Depth' \in Nat, \A i \in 1..Depth' : BestOK(i)', best' = best,
               query' = query, ever \subseteq ever'
        PROVE  PathInv'
    BY <1>1 DEF PathInv, PathOf
  <1>2. CASE Asks
    <2>1. best = <<>> /\ stack = <<>> /\ best' = best /\ stack' = stack
      BY <1>2 DEF Asks, Ask, Inv2, Inv1, QueryInv
    <2>2. Depth' = 0 /\ Len(best) = 0
      BY <2>1, EmptySeq DEF Depth
    <2> QED BY <2>1, <2>2, GraphAssumption DEF PathInv, PathOf
  <1>3. CASE UNCHANGED <<query, stack, best>> /\ ever \subseteq ever'
    <2>1. Depth' = Depth /\ \A i \in 1..Depth : Call(i)' = Call(i)
      BY <1>3 DEF Depth, Call
    <2>2. ASSUME NEW i \in 1..Depth PROVE BestOK(i)'
      <3>1. i \in Nat /\ i > 0 /\ 1..i \subseteq 1..Depth /\ i \in 1..i
        BY <1>0
      <3> QED BY <1>3, <2>1, <3>1, BestStays DEF PathInv
    <2> QED BY <1>0, <1>1, <1>3, <2>1, <2>2
  <1>4. ASSUME NEW i \in Nat, Call(i)'.best = <<>>, i <= MaxGraphDepth \/ query'.kind # "path"
        PROVE  BestOK(i)'
    <2> DEFINE b == Call(i)'.best
    <2>1. b = <<>> /\ Len(b) = 0
      BY <1>4, EmptySeq
    <2> HIDE DEF b
    <2>2. PathOf(b, ever') /\ ~(b # <<>>) /\ 1..Len(b) = {}
      BY <2>1 DEF PathOf
    <2>3. query'.kind = "path" => i + Len(b) <= MaxGraphDepth
      BY <1>4, <2>1
    <2> QED BY <2>2, <2>3 DEF BestOK, b
  <1>5. CASE Start
    <2>1. PICK t \in Tasks : Call(1)' = Read(t)
      BY <1>5, StartMoves DEF Inv2, Inv1
    <2>2. Depth' = 1 /\ Call(1)'.best = <<>>
      BY <1>5, <2>1, StartMoves, ReadType DEF Inv2, Inv1
    <2>3. BestOK(1)'
      BY <1>4, <2>2, GraphAssumption
    <2> QED BY <1>1, <1>5, <2>2, <2>3 DEF Start
  <1>6. CASE StartFails
    BY <1>3, <1>6 DEF StartFails
  <1>7. ASSUME NEW d, NEW n, TopMoves(d, n), query' = query, ever \subseteq ever',
               visited \subseteq visited', best' = best
        PROVE  PathInv'
    <2>1. Depth' = d /\ d = Depth /\ \A i \in 1..d : Stays(i)
      BY <1>7, StayOnTop DEF Inv2, TopMoves
    <2>2. ASSUME NEW i \in 1..d PROVE BestOK(i)'
      <3>1. i \in Nat /\ i > 0 /\ 1..i \subseteq 1..d /\ BestOK(i)
        BY <1>0, <2>1 DEF PathInv
      <3>2. Call(i)'.best = Call(i).best
        <4>1. CASE i = d
          BY <1>0, <1>7, <2>1, <4>1, CalledType DEF TopMoves
        <4>2. CASE i # d
          <5>1. i \in 1..d - 1
            BY <1>0, <2>1, <4>2
          <5> QED BY <1>7, <5>1 DEF TopMoves
        <4> QED BY <4>1, <4>2
      <3>3. \A j \in 1..i : Call(j)'.task = Call(j).task
        BY <2>1, <3>1 DEF Stays
      <3> QED BY <1>7, <3>1, <3>2, <3>3, BestStays
    <2> QED BY <1>0, <1>1, <1>7, <2>1, <2>2
  <1>8. CASE Visit
    <2>0. PICK d : d = Depth
      OBVIOUS
    <2>1. PICK n \in Tasks :
              \/ /\ Pushes(d, n) /\ Enters(n, d) /\ visited' = visited \cup {n}
                 /\ attached' = Attached(n) /\ counts' = Counted(n)
              \/ /\ TopMoves(d, n) /\ ~Enters(n, d) /\ UNCHANGED <<visited, attached, counts>>
      BY <1>8, <2>0, VisitMoves DEF Inv2, Inv1
    <2>2. UNCHANGED <<edges, query, todo, ever, best>>
      BY <1>8 DEF Visit
    <2>3. CASE Pushes(d, n) /\ Enters(n, d) /\ visited' = visited \cup {n}
      <3>1. Depth' = d + 1 /\ d > 0 /\ \A i \in 1..d : Stays(i)
        BY <2>2, <2>3, CallsPush DEF Inv2, Pushes
      <3>2. ASSUME NEW i \in 1..d PROVE BestOK(i)'
        <4>1. i \in Nat /\ i > 0 /\ 1..i \subseteq 1..d /\ BestOK(i)
          BY <1>0, <2>0 DEF PathInv
        <4>2. Call(i)'.best = Call(i).best
          <5>1. CASE i = d
            BY <1>0, <2>3, <5>1, CalledType DEF Pushes
          <5>2. CASE i # d
            <6>1. i \in 1..d - 1
              BY <1>0, <2>0, <5>2
            <6> QED BY <2>3, <6>1 DEF Pushes
          <5> QED BY <5>1, <5>2
        <4>3. \A j \in 1..i : Call(j)'.task = Call(j).task
          BY <3>1, <4>1 DEF Stays
        <4> QED BY <2>2, <4>1, <4>2, <4>3, BestStays
      <3>3. BestOK(d + 1)'
        <4>1. Call(d + 1)'.best = <<>>
          BY <2>3, ReadType DEF Pushes, Inv2, Inv1
        <4>2. d + 1 <= MaxGraphDepth \/ query'.kind # "path"
          BY <1>0, <2>0, <2>2, <2>3, GraphAssumption DEF Enters, Inv2, Inv1, QueryInv
        <4> QED BY <1>0, <2>0, <1>4, <4>1, <4>2
      <3>4. \A i \in 1..d + 1 : i \in 1..d \/ i = d + 1
        BY <1>0, <2>0
      <3> QED BY <1>0, <2>0, <1>1, <2>2, <3>1, <3>2, <3>3, <3>4
    <2> QED BY <1>7, <2>1, <2>2, <2>3
  <1>9. CASE ReadFails
    <2>0. PICK d : d = Depth
      OBVIOUS
    <2>1. PICK n \in Tasks :
              /\ TopMoves(d, n) /\ Enters(n, d) /\ counts' = Counted(n)
              /\ visited' = IF query.kind = "path" THEN visited ELSE visited \cup {n}
              /\ at' = IF query.kind = "tree" THEN "failed" ELSE at
      BY <1>9, <2>0, ReadFailsMoves DEF Inv2, Inv1
    <2> QED BY <1>7, <1>9, <2>1 DEF ReadFails
  <1>10. CASE Return
    <2>0. PICK d : d = Depth
      OBVIOUS
    <2>1. /\ Pops(d, Noted(d)) /\ visited' = Leave(Call(d).task)
          /\ best' = IF query.kind = "path" /\ d = 1 THEN Longer(Path(d), best) ELSE best
      BY <1>10, <2>0, ReturnMoves DEF Inv2, Inv1
    <2>2. UNCHANGED <<query, ever>>
      BY <1>10 DEF Return
    <2>3. d > 0
      BY <2>1 DEF Pops
    <2>4. Depth' = d - 1 /\ \A i \in 1..d - 1 : Stays(i)
      BY <2>1, StayBelow DEF Inv2
    <2>5. ASSUME NEW i \in 1..d - 1 PROVE BestOK(i)'
      <3>1. i \in Nat /\ i > 0 /\ 1..i \subseteq 1..d - 1 /\ i \in 1..Depth
        BY <1>0, <2>0
      <3>2. \A j \in 1..i : Call(j)'.task = Call(j).task
        BY <2>4, <3>1 DEF Stays
      <3>3. CASE i = d - 1
        <4> DEFINE b == Noted(d)
        <4>1. d \in 2..Depth
          BY <1>0, <2>0, <3>3
        <4>2. /\ b \in Seq(Tasks) /\ PathOf(b, ever)
              /\ b # <<>> => <<Call(i).task, b[1]>> \in ever
              /\ \A j \in 1..i, k \in 1..Len(b) : Call(j).task # b[k]
              /\ query.kind = "path" => i + Len(b) <= MaxGraphDepth
          BY <3>3, <4>1, NotedOK
        <4> HIDE DEF b
        <4>3. Call(i)'.best = b
          <5>1. Call(i)' = [Call(i) EXCEPT !.best = b] /\ Call(i) \in Frame
            BY <1>0, <2>1, <3>1, <3>3, <4>1 DEF Pops, b
          <5> QED BY <5>1 DEF Frame
        <4>4. i \in 1..i
          BY <3>1
        <4> QED BY <2>2, <3>2, <4>2, <4>3, <4>4 DEF BestOK
      <3>4. CASE i # d - 1
        <4>1. i \in 1..d - 2
          BY <1>0, <2>0, <3>4
        <4>2. Call(i)' = Call(i)
          BY <2>1, <4>1 DEF Pops
        <4> QED BY <2>2, <3>1, <3>2, <4>2, BestStays DEF PathInv
      <3> QED BY <3>3, <3>4
    <2>6. CASE query.kind = "path" /\ d = 1
      <3>1. /\ Path(1) \in Seq(Tasks) /\ PathOf(Path(1), ever)
            /\ Path(1)[1] = Call(1).task /\ Call(1).task \in query.starts
            /\ Len(Path(1)) <= MaxGraphDepth
        <4>1. /\ Path(1) \in Seq(Tasks) /\ PathOf(Path(1), ever)
              /\ Path(1)[1] = Call(1).task
              /\ 1 + Len(Path(1)) <= MaxGraphDepth + 1 /\ Len(Path(1)) \in Nat
          BY <1>0, <2>0, <2>6, PathHanded, LenProperties
        <4> QED BY <2>0, <2>3, <4>1, GraphAssumption DEF Inv2, CallsInv
      <3>2. best' \in {Path(1), best}
        BY <2>1, <2>6 DEF Longer
      <3>3. PathOf(best', ever') /\ (best' # <<>> => best'[1] \in query'.starts)
            /\ Len(best') <= MaxGraphDepth
        BY <2>2, <3>1, <3>2 DEF PathInv
      <3>4. Depth' = 0
        BY <2>4, <2>6
      <3> QED BY <3>3, <3>4 DEF PathInv
    <2>7. CASE ~(query.kind = "path" /\ d = 1)
      <3>1. best' = best /\ Depth' \in Nat
        BY <1>0, <2>0, <2>1, <2>3, <2>4, <2>7
      <3> QED BY <1>1, <2>2, <2>4, <2>5, <3>1
    <2> QED BY <2>6, <2>7
  <1>11. CASE \E e \in Tasks \X Tasks : Write(e)
    BY <1>3, <1>11 DEF Write
  <1>12. CASE Answer \/ UNCHANGED vars
    BY <1>3, <1>12 DEF Answer, vars
  <1> QED BY <1>2, <1>5, <1>6, <1>8, <1>9, <1>10, <1>11, <1>12, RequestsAsk DEF Next

AnswerInv == TreeInv /\ CountInv /\ PathInv

\* What the answers have so far holds in every state.
LEMMA AnswerAlways == Spec => [](Inv2 /\ AnswerInv)
  <1>1. Init => AnswerInv
    BY TreeInit, CountInit, PathInit DEF AnswerInv
  <1>2. Inv2 /\ AnswerInv /\ [Next]_vars => AnswerInv'
    BY TreeStep, CountStep, PathStep DEF AnswerInv
  <1> QED BY <1>1, <1>2, CallsAlways, PTL DEF Spec

\* Whatever edges other requests write and whatever reads fail while a query of
\* the graph runs, its answer has no task twice and only steps that were edges
\* since it began, and counts only tasks that were downstream.
THEOREM AnswersReal == Spec => []AnswersAreReal
  <1>1. Inv2 /\ AnswerInv => AnswersAreReal
    <2> SUFFICES ASSUME Inv2, AnswerInv PROVE AnswersAreReal
      OBVIOUS
    <2>1. IsInjective(best) /\ \A k \in 1..Len(best)-1 : <<best[k], best[k+1]>> \in ever
      <3>1. best \in Seq(Tasks) /\ DOMAIN best = 1..Len(best)
        BY LenProperties DEF Inv2, Inv1, TypeInv
      <3> QED BY <3>1 DEF AnswerInv, PathInv, PathOf, IsInjective
    <2>2. \A x \in attached : IF x[3] = "blocks" THEN <<x[1], x[2]>> \in ever
                              ELSE <<x[2], x[1]>> \in ever
      BY DEF AnswerInv, TreeInv
    <2>3. IsInjective([x \in attached |-> x[2]])
      BY DEF AnswerInv, TreeInv, IsInjective
    <2>4. \A t \in Tasks : counts[t] \subseteq Within(t, ever)[Everything] \ {t}
      <3>1. ever \subseteq Tasks \X Tasks
        BY DEF Inv2, Inv1, TypeInv
      <3> QED BY <3>1, BehindIsWithin DEF AnswerInv, CountInv
    <2> QED BY <2>1, <2>2, <2>3, <2>4 DEF AnswersAreReal
  <1> QED BY <1>1, AnswerAlways, PTL

-----------------------------------------------------------------------------
(* What an undisturbed walk has visited *)

\* When every task is called, every task is visited.
LEMMA AllCalled ==
    ASSUME Inv2, Depth >= Everything, NEW n \in Tasks
    PROVE  n \in visited
  <1> SUFFICES ASSUME n \notin visited PROVE FALSE
    OBVIOUS
  <1> DEFINE S == 1..Depth
             T == Tasks \ {n}
             f == [i \in S |-> Call(i).task]
  <1>1. Depth \in Nat /\ Everything \in Nat /\ IsFiniteSet(Tasks)
    BY CallsType, EverythingType DEF Inv2, Inv1
  <1>2. IsFiniteSet(S) /\ Cardinality(S) = Depth
    BY <1>1, FS_Interval
  <1>3. IsFiniteSet(T) /\ Cardinality(T) = Everything - 1
    BY <1>1, FS_RemoveElement DEF Everything
  <1>4. f \in [S -> T]
    BY CallsType DEF Inv2, Inv1, CallsInv, CallOK, TypeInv
  <1>5. \A i, j \in S : f[i] = f[j] => i = j
    BY DEF Inv2, CallsInv
  <1> HIDE DEF S, T, f
  <1>6. Cardinality(T) < Cardinality(S)
    BY <1>1, <1>2, <1>3
  <1>7. \E i, j \in S : i # j /\ f[i] = f[j]
    BY <1>2, <1>3, <1>4, <1>6, FS_PigeonHole
  <1> QED BY <1>5, <1>7

\* What is read has every step from the task.
LEMMA ReadHasSteps ==
    ASSUME TypeInv, changes = 0, NEW t \in Tasks, NEW n \in Tasks, <<t, n>> \in Steps
    PROVE  n \in Read(t).down \cup Read(t).up
  <1>1. ever = edges
    BY DEF TypeInv
  <1>2. CASE query.down /\ <<t, n>> \in ever
    BY <1>1, <1>2, ReadType
  <1>3. CASE query.up /\ <<t, n>> \in {<<e[2], e[1]>> : e \in ever}
    <2>1. PICK e \in ever : <<t, n>> = <<e[2], e[1]>>
      BY <1>3
    <2>2. e \in Tasks \X Tasks
      BY DEF TypeInv
    <2>3. e = <<n, t>>
      BY <2>1, <2>2
    <2> QED BY <1>1, <1>3, <2>3, ReadType
  <1> QED BY <1>2, <1>3 DEF Steps

\* A call that others return to has left what it had.
LEMMA LeftBelow ==
    ASSUME Inv1, NEW d, NEW B, Pops(d, B), NEW i \in 1..d - 1
    PROVE  /\ Call(i)'.task = Call(i).task
           /\ Call(i)'.down = Call(i).down /\ Call(i)'.up = Call(i).up
  <1>1. d \in Nat /\ d = Depth
    BY CallsType DEF Pops, Inv1
  <1>2. CASE i = d - 1
    <2>1. Call(i)' = [Call(i) EXCEPT !.best = B] /\ Call(i) \in Frame
      BY <1>1, <1>2, CallsType DEF Pops, Inv1
    <2> QED BY <2>1 DEF Frame
  <1>3. CASE i # d - 1
    <2>1. i \in 1..d - 2
      BY <1>1, <1>3
    <2> QED BY <2>1 DEF Pops
  <1> QED BY <1>2, <1>3

\* A call that is left for a neighbour has left the others it had.
LEMMA LeftOnTop ==
    ASSUME Inv1, NEW d, NEW n, Depth = d, d > 0, n \in Neighbours(Call(d)),
           Call(d)' = Called(Call(d), n), \A i \in 1..d - 1 : Call(i)' = Call(i)
    PROVE  \A i \in 1..d : /\ Call(i)'.task = Call(i).task
                           /\ \A m \in Call(i).down : m \in Call(i)'.down \/ (i = d /\ m = n)
                           /\ \A m \in Call(i).up : m \in Call(i)'.up \/ (i = d /\ m = n)
  <1>1. d \in Nat /\ Call(d) \in Frame
    BY CallsType DEF Inv1
  <1> TAKE i \in 1..d
  <1>2. CASE i = d
    BY <1>1, <1>2, CalledType
  <1>3. CASE i # d
    <2>1. i \in 1..d - 1
      BY <1>1, <1>3
    <2> QED BY <2>1
  <1> QED BY <1>2, <1>3

\* A neighbour the depth keeps out of a deep walk has been visited.
LEMMA PassedOver ==
    ASSUME Inv2, NEW d, d = Depth, d > 0, NEW n \in Tasks, ~Enters(n, d), Deep(Call(d).task)
    PROVE  n \in visited
  <1>1. /\ d \in Nat /\ query.depth \in Nat /\ Everything \in Nat /\ d <= query.depth + 1
        /\ 1 \in 1..Depth /\ d \in 1..Depth
    BY CallsType, EverythingType DEF Inv2, Inv1, TypeInv, CallsInv
  <1> SUFFICES ASSUME n \notin visited PROVE FALSE
    OBVIOUS
  <1>2. d > query.depth
    BY <1>1 DEF Enters
  <1>3. CASE query.depth >= Everything - 1
    <2>1. Depth >= Everything
      BY <1>1, <1>2, <1>3
    <2> QED BY <2>1, AllCalled
  <1>4. CASE query.kind = "tree" /\ Call(d).task \in query.starts
    <2>1. Call(d).task = Call(1).task
      BY <1>1, <1>4, TreeBegun
    <2>2. d = 1
      BY <1>1, <2>1 DEF Inv2, CallsInv
    <2> QED BY <1>1, <1>2, <1>4, <2>2 DEF Inv2, Inv1, QueryInv
  <1> QED BY <1>3, <1>4 DEF Deep

\* Each step keeps a visited task's neighbours visited or left in its call.
LEMMA ClosedStep == Inv2 /\ ClosedInv /\ [Next]_vars => ClosedInv'
  <1> SUFFICES ASSUME Inv2, ClosedInv, [Next]_vars, changes' = 0, NEW v \in visited',
                      NEW n \in Tasks, Deep(v)', <<v, n>> \in Steps'
               PROVE  \/ n \in visited'
                      \/ \E i \in 1..Depth' :
                            Call(i)'.task = v /\ n \in Call(i)'.down \cup Call(i)'.up
    BY DEF ClosedInv
  <1>0. /\ Depth \in Nat /\ changes \in Nat /\ visited \subseteq Tasks
        /\ \A i \in 1..Depth : Call(i) \in Frame
    BY CallsType DEF Inv2, Inv1, TypeInv
  <1>1. CASE Asks
    BY <1>1 DEF Asks, Ask, Inv2, Inv1, QueryInv
  <1>2. ASSUME UNCHANGED <<query, ever, changes>>
        PROVE  /\ changes = 0 /\ Deep(v) /\ <<v, n>> \in Steps
               /\ v \in visited => \/ n \in visited
                                   \/ \E i \in 1..Depth : /\ Call(i).task = v
                                                          /\ n \in Call(i).down \cup Call(i).up
    <2>1. changes = 0 /\ Deep(v) /\ <<v, n>> \in Steps
      BY <1>2 DEF Deep, Steps
    <2> QED BY <2>1 DEF ClosedInv
  <1>3. CASE UNCHANGED <<query, ever, changes, stack, visited>>
    <2>1. Depth' = Depth /\ \A i \in 1..Depth : Call(i)' = Call(i)
      BY <1>3 DEF Depth, Call
    <2> QED BY <1>2, <1>3, <2>1
  <1>4. CASE Start
    <2>1. PICK t \in Tasks : visited' = {t} /\ Call(1)' = Read(t)
      BY <1>4, StartMoves DEF Inv2, Inv1
    <2>2. Depth' = 1 /\ UNCHANGED <<query, ever, changes>>
      BY <1>4, StartMoves DEF Inv2, Inv1, Start
    <2>3. v = t /\ Read(t).task = t /\ n \in Read(t).down \cup Read(t).up
      BY <1>2, <2>1, <2>2, ReadType, ReadHasSteps DEF Inv2, Inv1
    <2>4. 1 \in 1..Depth'
      BY <2>2
    <2> QED BY <2>1, <2>3, <2>4
  <1>5. CASE Visit
    <2>0. PICK d : d = Depth
      OBVIOUS
    <2>1. PICK m \in Tasks :
              \/ /\ Pushes(d, m) /\ Enters(m, d) /\ visited' = visited \cup {m}
                 /\ attached' = Attached(m) /\ counts' = Counted(m)
              \/ /\ TopMoves(d, m) /\ ~Enters(m, d) /\ UNCHANGED <<visited, attached, counts>>
      BY <1>5, <2>0, VisitMoves DEF Inv2, Inv1
    <2>2. UNCHANGED <<query, ever, changes>>
      BY <1>5 DEF Visit
    <2>3. \A i \in 1..d : /\ Call(i)'.task = Call(i).task
                          /\ \A k \in Call(i).down : k \in Call(i)'.down \/ (i = d /\ k = m)
                          /\ \A k \in Call(i).up : k \in Call(i)'.up \/ (i = d /\ k = m)
      BY <2>1, LeftOnTop DEF Inv2, Pushes, TopMoves
    <2>4. CASE Pushes(d, m) /\ visited' = visited \cup {m}
      <3>1. Depth' = d + 1 /\ Call(d + 1)' = Read(m)
        BY <2>4 DEF Pushes
      <3>2. CASE v = m
        <4>1. Read(m).task = m /\ n \in Read(m).down \cup Read(m).up
          BY <1>2, <2>2, <3>2, ReadType, ReadHasSteps DEF Inv2, Inv1
        <4>2. d + 1 \in 1..Depth'
          BY <1>0, <2>0, <3>1
        <4> QED BY <3>1, <3>2, <4>1, <4>2
      <3>3. CASE v \in visited
        <4>1. CASE n \in visited
          BY <2>4, <4>1
        <4>2. ASSUME NEW i \in 1..Depth, Call(i).task = v, n \in Call(i).down \cup Call(i).up
              PROVE  \/ n = m
                     \/ i \in 1..Depth' /\ Call(i)'.task = v /\ n \in Call(i)'.down \cup Call(i)'.up
          <5>1. i \in 1..d /\ i \in 1..Depth'
            BY <1>0, <2>0, <3>1
          <5> QED BY <2>3, <4>2, <5>1
        <4> QED BY <1>2, <2>2, <2>4, <3>3, <4>1, <4>2
      <3> QED BY <2>4, <3>2, <3>3
    <2>5. CASE TopMoves(d, m) /\ ~Enters(m, d) /\ visited' = visited
      <3>1. Depth' = d /\ d > 0
        BY <2>5 DEF TopMoves
      <3>2. CASE n \in visited
        BY <2>5, <3>2
      <3>3. ASSUME NEW i \in 1..Depth, Call(i).task = v, n \in Call(i).down \cup Call(i).up
            PROVE  \/ n \in visited
                   \/ i \in 1..Depth' /\ Call(i)'.task = v /\ n \in Call(i)'.down \cup Call(i)'.up
        <4>1. CASE i = d /\ n = m
          <5>1. Deep(Call(d).task)
            BY <1>2, <2>2, <3>3, <4>1
          <5> QED BY <2>0, <2>5, <3>1, <4>1, <5>1, PassedOver
        <4>2. CASE ~(i = d /\ n = m)
          <5>1. i \in 1..d /\ i \in 1..Depth'
            BY <2>0, <3>1
          <5> QED BY <2>3, <3>3, <4>2, <5>1
        <4> QED BY <4>1, <4>2
      <3> QED BY <1>2, <2>2, <2>5, <3>2, <3>3
    <2> QED BY <2>1, <2>4, <2>5
  <1>6. CASE StartFails \/ ReadFails \/ \E e \in Tasks \X Tasks : Write(e)
    BY <1>0, <1>6 DEF StartFails, ReadFails, Write
  <1>7. CASE Return
    <2>0. PICK d : d = Depth
      OBVIOUS
    <2>1. /\ Pops(d, Noted(d)) /\ visited' = Leave(Call(d).task)
          /\ Call(d).down = {} /\ Call(d).up = {}
      BY <1>7, <2>0, ReturnMoves DEF Inv2, Inv1
    <2>2. UNCHANGED <<query, ever, changes>> /\ Depth' = d - 1 /\ d > 0
      BY <1>7, <2>1 DEF Return, Pops
    <2>3. visited' = visited
      BY <1>2, <2>1, <2>2 DEF Deep, Leave
    <2>4. ASSUME NEW i \in 1..Depth, Call(i).task = v, n \in Call(i).down \cup Call(i).up
          PROVE  i \in 1..Depth' /\ Call(i)'.task = v /\ n \in Call(i)'.down \cup Call(i)'.up
      <3>1. i # d
        BY <2>1, <2>4
      <3>2. i \in 1..d - 1
        BY <1>0, <2>0, <3>1
      <3> QED BY <2>1, <2>2, <2>4, <3>2, LeftBelow DEF Inv2
    <2> QED BY <1>2, <2>2, <2>3, <2>4
  <1>8. CASE Answer \/ UNCHANGED vars
    BY <1>3, <1>8 DEF Answer, vars
  <1> QED BY <1>1, <1>4, <1>5, <1>6, <1>7, <1>8, RequestsAsk DEF Next

\* Steps are between tasks.
LEMMA StepsType == TypeInv => Steps \subseteq Tasks \X Tasks
  BY DEF TypeInv, Steps

\* Each step keeps the calls of a tree within as many steps as there are calls.
LEMMA TreeWalkStep == Inv2 /\ TreeWalkInv /\ [Next]_vars => TreeWalkInv'
  <1> DEFINE OK(root) ==
        /\ todo = {} => root \in visited
        /\ todo # {} => visited = {}
        /\ visited \subseteq Behind(root, Steps)
        /\ query.depth < Everything =>
             /\ visited \subseteq Within(root, Steps)[query.depth]
             /\ \A i \in 1..Depth : Call(i).task \in Within(root, Steps)[i - 1]
  <1> SUFFICES ASSUME Inv2, TreeWalkInv, [Next]_vars, query'.kind = "tree", changes' = 0,
                      NEW root \in query'.starts
               PROVE  OK(root)'
    BY DEF TreeWalkInv
  <1>0. /\ Depth \in Nat /\ changes \in Nat /\ todo \subseteq query.starts
        /\ query.starts \subseteq Tasks /\ query.depth \in Nat
        /\ \A i \in 1..Depth : Call(i) \in Frame
    BY CallsType DEF Inv2, Inv1, TypeInv
  <1>1. CASE Asks
    <2>1. visited' = {} /\ stack' = <<>> /\ todo' = query'.starts
      BY <1>1 DEF Asks, Ask, Inv2, Inv1, QueryInv
    <2>2. Depth' = 0
      BY <2>1, EmptySeq DEF Depth
    <2> QED BY <2>1, <2>2
  <1>2. ASSUME UNCHANGED <<query, ever, changes>>
        PROVE  /\ query.kind = "tree" /\ query.starts = {root} /\ root \in Tasks
               /\ OK(root) /\ Steps' = Steps /\ Steps \subseteq Tasks \X Tasks
    <2>1. /\ query.kind = "tree" /\ changes = 0 /\ root \in query.starts /\ root \in Tasks
          /\ Steps' = Steps
      BY <1>0, <1>2 DEF Steps
    <2>2. query.starts = {root}
      BY <2>1 DEF Inv2, Inv1, QueryInv
    <2> QED BY <2>1, <2>2, StepsType DEF TreeWalkInv, Inv2, Inv1
  <1>3. ASSUME UNCHANGED <<query, ever, changes, todo, visited>>, Depth' \in 0..Depth,
               \A i \in 1..Depth' : Stays(i)
        PROVE  OK(root)'
    <2>1. OK(root) /\ Steps' = Steps
      BY <1>2, <1>3
    <2>2. \A i \in 1..Depth' : i \in 1..Depth /\ Call(i)'.task = Call(i).task
      BY <1>0, <1>3 DEF Stays
    <2> QED BY <1>3, <2>1, <2>2
  <1>4. CASE Start
    <2>1. PICK t \in todo : /\ todo' = todo \ {t} /\ visited' = {t}
                            /\ t \in Tasks /\ Call(1)' = Read(t)
      BY <1>4, StartMoves DEF Inv2, Inv1
    <2>2. Depth' = 1 /\ UNCHANGED <<query, ever, changes>>
      BY <1>4, StartMoves DEF Inv2, Inv1, Start
    <2>3. t = root /\ todo' = {} /\ Call(1)'.task = root /\ Steps' = Steps
      BY <1>0, <1>2, <2>1, <2>2, ReadType DEF Inv2, Inv1
    <2>4. root \in Behind(root, Steps)
      BY <1>2, <2>2, BehindItself
    <2> DEFINE w == Within(root, Steps)
    <2>5. w[0] = {root}
      BY <1>2, <2>2, WithinDef
    <2>6. query.depth < Everything => w[0] \subseteq w[query.depth]
      <3>1. query.depth < Everything =>
               /\ 0 \in 0..Everything /\ query.depth \in 0..Everything
        BY <1>0, EverythingType
      <3> QED BY <1>2, <2>2, <3>1, WithinGrows
    <2> HIDE DEF w
    <2> QED BY <2>1, <2>2, <2>3, <2>4, <2>5, <2>6 DEF w
  <1>5. CASE Visit
    <2>0. PICK d : d = Depth
      OBVIOUS
    <2>1. PICK n \in Tasks :
              \/ /\ Pushes(d, n) /\ Enters(n, d) /\ visited' = visited \cup {n}
                 /\ attached' = Attached(n) /\ counts' = Counted(n)
              \/ /\ TopMoves(d, n) /\ ~Enters(n, d) /\ UNCHANGED <<visited, attached, counts>>
      BY <1>5, <2>0, VisitMoves DEF Inv2, Inv1
    <2>2. UNCHANGED <<edges, query, ever, changes, todo>>
      BY <1>5 DEF Visit
    <2>3. CASE Pushes(d, n) /\ Enters(n, d) /\ visited' = visited \cup {n}
      <3>1. /\ Depth' = d + 1 /\ Call(d + 1)'.task = n /\ <<Call(d).task, n>> \in Steps
            /\ \A i \in 1..d : Stays(i)
        BY <2>2, <2>3, CallsPush DEF Inv2
      <3>2. d > 0 /\ d \in 1..Depth /\ d <= query.depth /\ Call(d).task \in visited
        BY <1>0, <2>0, <2>3 DEF Pushes, Enters, Inv2, CallsInv, CallOK
      <3>3. todo = {}
        BY <1>2, <2>0, <2>2, <3>2, TreeBegun
      <3>4. n \in Behind(root, Steps)
        BY <1>2, <2>2, <3>1, <3>2, BehindFollows DEF Follows
      <3> DEFINE w == Within(root, Steps)
      <3>5. ASSUME query.depth < Everything
            PROVE  /\ n \in w[d] /\ n \in w[query.depth]
        <4>1. d \in 1..Everything /\ d \in 0..Everything /\ query.depth \in d..Everything
          BY <1>0, <2>0, <3>2, <3>5, EverythingType
        <4>2. w[d] = Onward(w[d - 1], Steps) /\ w[d] \subseteq w[query.depth]
          BY <1>2, <2>2, <4>1, WithinDef, WithinGrows
        <4>3. Call(d).task \in w[d - 1]
          BY <1>2, <2>0, <2>2, <3>2, <3>5
        <4> HIDE DEF w
        <4>4. n \in Onward(w[d - 1], Steps)
          BY <3>1, <4>3 DEF Onward
        <4> QED BY <4>2, <4>4
      <3>6. ASSUME query.depth < Everything, NEW i \in 1..d + 1
            PROVE  Call(i)'.task \in w[i - 1]
        <4>1. CASE i = d + 1
          BY <1>0, <2>0, <3>1, <3>5, <3>6, <4>1
        <4>2. CASE i # d + 1
          <5>1. i \in 1..d /\ i \in 1..Depth
            BY <1>0, <2>0, <4>2
          <5> QED BY <1>2, <2>2, <3>1, <3>6, <5>1 DEF Stays
        <4> QED BY <4>1, <4>2
      <3>7. OK(root) /\ Steps' = Steps
        BY <1>2, <2>2
      <3>8. w' = w
        BY <3>7
      <3> HIDE DEF w
      <3>9. query.depth < Everything => visited \subseteq w[query.depth]
        BY <3>7 DEF w
      <3>10. query'.depth < Everything =>
               /\ visited' \subseteq w[query'.depth]
               /\ \A i \in 1..Depth' : Call(i)'.task \in w[i - 1]
        BY <2>2, <2>3, <3>1, <3>5, <3>6, <3>9
      <3> QED BY <2>2, <2>3, <3>3, <3>4, <3>7, <3>8, <3>10 DEF w
    <2>4. CASE TopMoves(d, n) /\ visited' = visited
      BY <1>0, <1>3, <2>0, <2>2, <2>4, StayOnTop DEF Inv2
    <2> QED BY <2>1, <2>3, <2>4
  <1>6. CASE StartFails \/ ReadFails \/ \E e \in Tasks \X Tasks : Write(e)
    BY <1>0, <1>6 DEF StartFails, ReadFails, Write
  <1>7. CASE Return
    <2>0. PICK d : d = Depth
      OBVIOUS
    <2>1. Pops(d, Noted(d)) /\ visited' = Leave(Call(d).task)
      BY <1>7, <2>0, ReturnMoves DEF Inv2, Inv1
    <2>2. UNCHANGED <<query, ever, changes, todo>> /\ Depth' = d - 1 /\ d > 0
      BY <1>7, <2>1 DEF Return, Pops
    <2>3. visited' = visited
      BY <1>2, <2>1, <2>2 DEF Leave
    <2>4. Depth' \in 0..Depth /\ \A i \in 1..Depth' : Stays(i)
      BY <1>0, <2>0, <2>1, <2>2, StayBelow DEF Inv2
    <2> QED BY <1>3, <2>2, <2>3, <2>4
  <1>8. CASE Answer \/ UNCHANGED vars
    <2>1. UNCHANGED <<query, ever, changes, todo, visited, stack>>
      BY <1>8 DEF Answer, vars
    <2>2. Depth' = Depth /\ \A i \in 1..Depth' : Stays(i)
      BY <2>1 DEF Depth, Call, Stays, Inv2, CallsInv, CallOK
    <2> QED BY <1>0, <1>3, <2>1, <2>2
  <1> QED BY <1>1, <1>4, <1>5, <1>6, <1>7, <1>8, RequestsAsk DEF Next

\* A path and a count follow the edges.
LEMMA StepsAreEdges == QueryInv /\ query.kind \in {"path", "count"} => Steps = ever
  BY DEF QueryInv, Steps

\* Each step keeps the counts of the start tasks that are done.
LEMMA CountWalkStep ==
    Inv2 /\ CountInv /\ ClosedInv /\ CountWalkInv /\ [Next]_vars => CountWalkInv'
  <1> DEFINE OK(t) == \/ Depth > 0 /\ Call(1).task = t
                      \/ counts[t] = Behind(t, ever) \ {t}
  <1> SUFFICES ASSUME Inv2, CountInv, ClosedInv, CountWalkInv, [Next]_vars,
                      query'.kind = "count", changes' = 0, Everything <= MaxGraphDepth + 1,
                      NEW t \in query'.starts \ todo'
               PROVE  OK(t)'
    BY DEF CountWalkInv
  <1>0. /\ Depth \in Nat /\ changes \in Nat /\ todo \subseteq query.starts
        /\ query.starts \subseteq Tasks /\ \A i \in 1..Depth : Call(i) \in Frame
        /\ counts \in [Tasks -> SUBSET Tasks] /\ Everything \in Nat /\ MaxGraphDepth \in Nat
    BY CallsType, EverythingType, GraphAssumption DEF Inv2, Inv1, TypeInv
  <1>1. CASE Asks
    BY <1>1 DEF Asks, Ask
  <1>2. ASSUME UNCHANGED <<query, ever, changes>>
        PROVE  /\ query.kind = "count" /\ changes = 0 /\ t \in query.starts /\ t \in Tasks
               /\ t \notin todo => OK(t)
    BY <1>0, <1>2 DEF CountWalkInv
  <1>3. ASSUME UNCHANGED <<query, ever, changes, todo>>, Depth' \in Nat,
               Depth > 0 => Depth' > 0 /\ Call(1)'.task = Call(1).task,
               counts' = counts \/ (Depth > 0 /\ \A u \in Tasks : u # Call(1).task => counts'[u] = counts[u])
        PROVE  OK(t)'
    <2>1. t \in Tasks /\ OK(t)
      BY <1>2, <1>3
    <2>2. CASE Depth > 0 /\ Call(1).task = t
      BY <1>3, <2>2
    <2>3. CASE ~(Depth > 0 /\ Call(1).task = t)
      BY <1>3, <2>1, <2>3
    <2> QED BY <2>2, <2>3
  <1>4. CASE Start
    <2>1. PICK u \in todo : /\ todo' = todo \ {u} /\ visited' = {u}
                            /\ u \in Tasks /\ Call(1)' = Read(u)
      BY <1>4, StartMoves DEF Inv2, Inv1
    <2>2. Depth = 0 /\ Depth' = 1 /\ UNCHANGED <<query, ever, changes, counts>>
      BY <1>4, StartMoves DEF Inv2, Inv1, Start
    <2>3. Call(1)'.task = u
      BY <2>1, ReadType DEF Inv2, Inv1
    <2>4. t # u => counts[t] = Behind(t, ever) \ {t}
      BY <1>2, <2>1, <2>2
    <2> QED BY <2>2, <2>3, <2>4
  <1>5. CASE Visit
    <2>0. PICK d : d = Depth
      OBVIOUS
    <2>1. PICK n \in Tasks :
              \/ /\ Pushes(d, n) /\ Enters(n, d) /\ visited' = visited \cup {n}
                 /\ attached' = Attached(n) /\ counts' = Counted(n)
              \/ /\ TopMoves(d, n) /\ ~Enters(n, d) /\ UNCHANGED <<visited, attached, counts>>
      BY <1>5, <2>0, VisitMoves DEF Inv2, Inv1
    <2>2. UNCHANGED <<edges, query, ever, changes, todo>>
      BY <1>5 DEF Visit
    <2>3. CASE /\ Pushes(d, n) /\ Enters(n, d) /\ visited' = visited \cup {n}
               /\ counts' = Counted(n)
      <3>1. d > 0 /\ 1 \in 1..d
        BY <1>0, <2>3 DEF Pushes
      <3>2. Depth' = d + 1 /\ Stays(1)
        BY <2>2, <2>3, <3>1, CallsPush DEF Inv2
      <3>3. counts' = [counts EXCEPT ![Call(1).task] = @ \cup {n}]
        BY <1>2, <2>0, <2>2, <2>3, <3>1, NotesType DEF Inv2, Inv1
      <3>4. \A u \in Tasks : u # Call(1).task => counts'[u] = counts[u]
        BY <1>0, <3>3
      <3> QED BY <1>0, <1>3, <2>0, <2>2, <3>1, <3>2, <3>4 DEF Stays
    <2>4. CASE TopMoves(d, n) /\ UNCHANGED <<visited, counts>>
      <3>1. Depth' = d /\ d > 0 /\ Stays(1)
        BY <1>0, <2>4, StayOnTop DEF Inv2, TopMoves
      <3> QED BY <1>0, <1>3, <2>0, <2>2, <2>4, <3>1 DEF Stays
    <2> QED BY <2>1, <2>3, <2>4
  <1>6. CASE StartFails \/ ReadFails \/ \E e \in Tasks \X Tasks : Write(e)
    BY <1>0, <1>6 DEF StartFails, ReadFails, Write
  <1>7. CASE Return
    <2>0. PICK d : d = Depth
      OBVIOUS
    <2>1. /\ Pops(d, Noted(d)) /\ visited' = Leave(Call(d).task)
          /\ Call(d).down = {} /\ Call(d).up = {}
      BY <1>7, <2>0, ReturnMoves DEF Inv2, Inv1
    <2>2. UNCHANGED <<query, ever, changes, todo, counts>> /\ d > 0
      BY <1>7, <2>1 DEF Return, Pops
    <2>3. Depth' = d - 1 /\ \A i \in 1..d - 1 : Stays(i)
      BY <2>1, StayBelow DEF Inv2
    <2>4. CASE d # 1
      <3>1. Depth' > 0 /\ Depth' \in Nat /\ Stays(1)
        BY <1>0, <2>0, <2>2, <2>3, <2>4
      <3> QED BY <1>3, <2>2, <3>1 DEF Stays
    <2>5. CASE d = 1 /\ Call(1).task # t
      BY <1>2, <2>2, <2>5
    <2>6. CASE d = 1 /\ Call(1).task = t
      <3>1. /\ t \in visited /\ t \in Tasks /\ visited \in SUBSET Tasks
            /\ visited \subseteq Behind(t, ever) /\ counts[t] = visited \ {t}
        BY <1>2, <2>0, <2>2, <2>6 DEF CountInv, Inv2, Inv1, TypeInv, CallsInv, CallOK
      <3>2. Follows(visited, ever)
        <4> SUFFICES ASSUME NEW v \in visited, NEW n \in Tasks, <<v, n>> \in ever
                     PROVE  n \in visited
          BY DEF Follows
        <4>1. <<v, n>> \in Steps
          BY <1>2, <2>2, StepsAreEdges DEF Inv2, Inv1
        <4>2. Deep(v)
          <5>1. query.depth = MaxGraphDepth
            BY <1>2, <2>2 DEF Inv2, Inv1, QueryInv
          <5> QED BY <1>0, <1>2, <2>2, <5>1 DEF Deep
        <4>3. \A i \in 1..Depth : i = d
          BY <2>0, <2>6
        <4> QED BY <1>2, <2>1, <2>2, <4>1, <4>2, <4>3 DEF ClosedInv
      <3>3. Behind(t, ever) \subseteq visited
        BY <3>1, <3>2, BehindLeast
      <3> QED BY <2>2, <3>1, <3>3
    <2> QED BY <2>4, <2>5, <2>6
  <1>8. CASE Answer \/ UNCHANGED vars
    <2>1. UNCHANGED <<query, ever, changes, todo, counts, stack>>
      BY <1>8 DEF Answer, vars
    <2>2. Depth' = Depth /\ Call(1)' = Call(1)
      BY <2>1 DEF Depth, Call
    <2> QED BY <1>0, <1>3, <2>1, <2>2
  <1> QED BY <1>1, <1>4, <1>5, <1>6, <1>7, <1>8, RequestsAsk DEF Next

\* A chain is a sequence of different tasks along the edges.
LEMMA ChainType ==
    ASSUME NEW starts \in SUBSET Tasks, NEW c \in Chains(starts)
    PROVE  /\ c \in Seq(Tasks) /\ Len(c) \in 1..MaxGraphDepth /\ c[1] \in starts
           /\ \A k \in 1..Len(c) : c[k] \in Tasks
           /\ \A j, k \in 1..Len(c) : c[j] = c[k] => j = k
           /\ \A k \in 1..Len(c) - 1 : <<c[k], c[k + 1]>> \in edges
  <1>1. PICK n \in 1..MaxGraphDepth : c \in [1..n -> Tasks]
    BY DEF Chains
  <1>2. /\ c[1] \in starts /\ IsInjective(c)
        /\ \A k \in 1..Len(c) - 1 : <<c[k], c[k + 1]>> \in edges
    BY DEF Chains
  <1>3. n \in Nat /\ DOMAIN c = 1..n
    BY <1>1, GraphAssumption
  <1>4. c \in Seq(Tasks) /\ Len(c) = n
    BY <1>1, <1>3, SeqDef, LenProperties
  <1>5. \A j, k \in 1..n : c[j] = c[k] => j = k
    BY <1>2, <1>3 DEF IsInjective
  <1> QED BY <1>1, <1>2, <1>3, <1>4, <1>5

\* A chain stays with a call that keeps its best and its step.
LEMMA ChainStays ==
    ASSUME NEW c, Len(c) \in Nat, NEW i \in Nat, i > 0, ChainAt(c, i),
           \A j \in 1..i : Call(j)'.task = Call(j).task,
           Len(Call(i).best) \in Nat, Len(Call(i)'.best) \in Nat,
           Len(Call(i)'.best) >= Len(Call(i).best),
           i < Len(c) /\ c[i + 1] \in Call(i).down => c[i + 1] \in Call(i)'.down
    PROVE  ChainAt(c, i)'
  <1>1. i <= Len(c) /\ \A j \in 1..i : c[j] = Call(j)'.task
    BY DEF ChainAt
  <1>2. CASE Len(c) <= i + Len(Call(i).best)
    <2>1. Len(c) <= i + Len(Call(i)'.best)
      BY <1>2
    <2> QED BY <1>1, <2>1 DEF ChainAt
  <1>3. CASE i < Len(c) /\ c[i + 1] \in Call(i).down
    BY <1>1, <1>3 DEF ChainAt
  <1> QED BY <1>2, <1>3 DEF ChainAt

\* A chain goes on with the call that its next task gets.
LEMMA ChainGoesOn ==
    ASSUME TypeInv, query.down, edges = edges', NEW starts \in SUBSET Tasks,
           NEW c \in Chains(starts), NEW i \in 1..Len(c), NEW t \in Tasks, Call(i)' = Read(t),
           c[i] = t, \A j \in 1..i - 1 : c[j] = Call(j)'.task
    PROVE  ChainAt(c, i)'
  <1>1. /\ Len(c) \in Nat /\ i \in Nat /\ \A k \in 1..Len(c) : c[k] \in Tasks
        /\ \A k \in 1..Len(c) - 1 : <<c[k], c[k + 1]>> \in edges
    BY ChainType
  <1>2. Call(i)'.task = t /\ Len(Call(i)'.best) = 0
    BY ReadType, EmptySeq
  <1>3. \A j \in 1..i : c[j] = Call(j)'.task
    BY <1>1, <1>2
  <1>4. CASE i = Len(c)
    BY <1>1, <1>2, <1>3, <1>4 DEF ChainAt
  <1>5. CASE i # Len(c)
    <2>1. i < Len(c) /\ i + 1 \in 1..Len(c) /\ i \in 1..Len(c) - 1
      BY <1>1, <1>5
    <2>2. c[i + 1] \in Tasks /\ <<t, c[i + 1]>> \in edges
      BY <1>1, <2>1
    <2>3. c[i + 1] \in Call(i)'.down
      BY <2>2, ReadType
    <2> QED BY <1>1, <1>3, <2>1, <2>3 DEF ChainAt
  <1> QED BY <1>4, <1>5

\* Each step of a search for paths keeps the tasks of its calls marked.
LEMMA MarkedStep ==
    ASSUME Inv2, PathWalkInv, [Next]_vars, query'.kind = "path", changes' = 0
    PROVE  visited' = {Call(i)'.task : i \in 1..Depth'}
  <1>0. Depth \in Nat /\ changes \in Nat
    BY CallsType DEF Inv2, Inv1, TypeInv
  <1>1. CASE Asks
    <2>1. visited' = {} /\ stack' = <<>>
      BY <1>1 DEF Asks, Ask, Inv2, Inv1, QueryInv
    <2>2. Depth' = 0
      BY <2>1, EmptySeq DEF Depth
    <2> QED BY <2>1, <2>2
  <1>2. ASSUME UNCHANGED <<query, changes>>
        PROVE  query.kind = "path" /\ visited = {Call(i).task : i \in 1..Depth}
    BY <1>2 DEF PathWalkInv
  <1>3. CASE Start
    <2>1. PICK t \in Tasks : visited' = {t} /\ Call(1)' = Read(t)
      BY <1>3, StartMoves DEF Inv2, Inv1
    <2>2. Depth' = 1 /\ Call(1)'.task = t
      BY <1>3, <2>1, StartMoves, ReadType DEF Inv2, Inv1
    <2>3. 1..Depth' = {1}
      BY <2>2
    <2> QED BY <2>1, <2>2, <2>3
  <1>4. CASE Visit
    <2>0. PICK d : d = Depth
      OBVIOUS
    <2>1. PICK n \in Tasks :
              \/ /\ Pushes(d, n) /\ Enters(n, d) /\ visited' = visited \cup {n}
                 /\ attached' = Attached(n) /\ counts' = Counted(n)
              \/ /\ TopMoves(d, n) /\ ~Enters(n, d) /\ UNCHANGED <<visited, attached, counts>>
      BY <1>4, <2>0, VisitMoves DEF Inv2, Inv1
    <2>2. UNCHANGED <<edges, query, todo, ever, changes>>
      BY <1>4 DEF Visit
    <2>3. CASE Pushes(d, n) /\ Enters(n, d) /\ visited' = visited \cup {n}
      <3>1. Depth' = d + 1 /\ Call(d + 1)'.task = n /\ \A i \in 1..d : Call(i)'.task = Call(i).task
        BY <2>2, <2>3, CallsPush DEF Inv2, Stays
      <3>2. 1..d + 1 = (1..d) \cup {d + 1}
        BY <1>0, <2>0
      <3> QED BY <1>2, <2>0, <2>2, <2>3, <3>1, <3>2
    <2>4. CASE TopMoves(d, n) /\ visited' = visited
      <3>1. Depth' = d /\ \A i \in 1..d : Call(i)'.task = Call(i).task
        BY <2>4, StayOnTop DEF Inv2, Stays
      <3> QED BY <1>2, <2>0, <2>2, <2>4, <3>1
    <2> QED BY <2>1, <2>3, <2>4
  <1>5. CASE StartFails \/ ReadFails \/ \E e \in Tasks \X Tasks : Write(e)
    BY <1>0, <1>5 DEF StartFails, ReadFails, Write
  <1>6. CASE Return
    <2>0. PICK d : d = Depth
      OBVIOUS
    <2>1. Pops(d, Noted(d)) /\ visited' = Leave(Call(d).task)
      BY <1>6, <2>0, ReturnMoves DEF Inv2, Inv1
    <2>2. UNCHANGED <<query, changes>> /\ Depth' = d - 1 /\ d > 0
      BY <1>6, <2>1 DEF Return, Pops
    <2>3. \A i \in 1..d - 1 : Call(i)'.task = Call(i).task
      BY <2>1, StayBelow DEF Inv2, Stays
    <2>4. visited' = visited \ {Call(d).task}
      BY <1>2, <2>1, <2>2 DEF Leave
    <2>5. \A i \in 1..d : Call(i).task = Call(d).task => i = d
      <3>1. \A i \in 1..d : i \in 1..Depth /\ d \in 1..Depth
        BY <1>0, <2>0, <2>2
      <3> QED BY <3>1 DEF Inv2, CallsInv
    <2>6. \A i \in 1..d : i \in 1..d - 1 <=> i # d
      BY <1>0, <2>0, <2>2
    <2>7. 1..d - 1 \subseteq 1..d
      BY <1>0, <2>0, <2>2
    <2>8. {Call(i).task : i \in 1..d} \ {Call(d).task} = {Call(i).task : i \in 1..d - 1}
      BY <2>5, <2>6, <2>7
    <2> QED BY <1>2, <2>0, <2>2, <2>3, <2>4, <2>8
  <1>7. CASE Answer \/ UNCHANGED vars
    <2>1. UNCHANGED <<query, changes, visited, stack>>
      BY <1>7 DEF Answer, vars
    <2>2. Depth' = Depth /\ \A i \in 1..Depth : Call(i)' = Call(i)
      BY <2>1 DEF Depth, Call
    <2> QED BY <1>2, <2>1, <2>2
  <1> QED BY <1>1, <1>3, <1>4, <1>5, <1>6, <1>7, RequestsAsk DEF Next

\* Each step keeps every chain to be walked, or no longer than a path there is.
LEMMA ChainsStep ==
    ASSUME Inv2, PathInv, PathWalkInv, [Next]_vars, query'.kind = "path", changes' = 0,
           NEW c \in Chains(query.starts)'
    PROVE  ChainOK(c)'
  <1>0. /\ Depth \in Nat /\ changes \in Nat /\ query.starts \subseteq Tasks
        /\ best \in Seq(Tasks) /\ Len(best) \in Nat
        /\ \A i \in 1..Depth : Call(i) \in Frame /\ Len(Call(i).best) \in Nat
    BY CallsType, LenProperties DEF Inv2, Inv1, TypeInv, Frame
  <1>1. CASE Asks
    <2>1. c[1] \in query'.starts
      BY DEF Chains
    <2> QED BY <1>1, <2>1 DEF Asks, Ask, ChainOK
  <1>2. ASSUME UNCHANGED <<query, edges, changes>>
        PROVE  /\ query.kind = "path" /\ query.down /\ visited = {Call(i).task : i \in 1..Depth}
               /\ c \in Chains(query.starts) /\ ChainOK(c)
               /\ Len(c) \in Nat
    <2>1. c \in Chains(query.starts)
      BY <1>2 DEF Chains
    <2>2. query.kind = "path" /\ query.down
      BY <1>2 DEF Inv2, Inv1, QueryInv
    <2> QED BY <1>0, <1>2, <2>1, <2>2, ChainType DEF PathWalkInv
  <1>3. CASE UNCHANGED <<query, edges, changes, todo, best, stack>>
    <2>1. Depth' = Depth /\ \A i \in 1..Depth : Call(i)' = Call(i)
      BY <1>3 DEF Depth, Call
    <2>2. ASSUME NEW i \in 1..Depth, ChainAt(c, i) PROVE ChainAt(c, i)'
      <3>1. i \in Nat /\ i > 0 /\ 1..i \subseteq 1..Depth
        BY <1>0
      <3>2. Call(i)' = Call(i) /\ \A j \in 1..i : Call(j)'.task = Call(j).task
        BY <2>1, <3>1
      <3>3. Len(c) \in Nat /\ Len(Call(i).best) \in Nat
        BY <1>0, <1>2, <1>3
      <3> QED BY <2>2, <3>1, <3>2, <3>3, ChainStays
    <2> QED BY <1>2, <1>3, <2>1, <2>2 DEF ChainOK
  <1>4. CASE Start
    <2>1. PICK t \in todo : /\ todo' = todo \ {t} /\ t \in Tasks /\ Call(1)' = Read(t)
      BY <1>4, StartMoves DEF Inv2, Inv1
    <2>2. Depth = 0 /\ Depth' = 1 /\ UNCHANGED <<query, edges, changes, best>>
      BY <1>4, StartMoves DEF Inv2, Inv1, Start
    <2>3. CASE c[1] = t
      <3>1. 1 \in 1..Len(c)
        BY <1>0, <1>2, <2>2, ChainType
      <3>2. ChainAt(c, 1)'
        BY <1>0, <1>2, <2>1, <2>2, <2>3, <3>1, ChainGoesOn DEF Inv2, Inv1
      <3> QED BY <2>2, <3>2 DEF ChainOK
    <2>4. CASE c[1] # t
      BY <1>2, <2>1, <2>2, <2>4 DEF ChainOK
    <2> QED BY <2>3, <2>4
  <1>5. CASE Visit
    <2>0. PICK d : d = Depth
      OBVIOUS
    <2>1. PICK n \in Tasks :
              \/ /\ Pushes(d, n) /\ Enters(n, d) /\ visited' = visited \cup {n}
                 /\ attached' = Attached(n) /\ counts' = Counted(n)
              \/ /\ TopMoves(d, n) /\ ~Enters(n, d) /\ UNCHANGED <<visited, attached, counts>>
      BY <1>5, <2>0, VisitMoves DEF Inv2, Inv1
    <2>2. UNCHANGED <<edges, query, todo, ever, best, changes>>
      BY <1>5 DEF Visit
    <2>3. /\ d > 0 /\ n \in Neighbours(Call(d)) /\ Call(d)' = Called(Call(d), n)
          /\ Depth' \in d..d + 1 /\ \A i \in 1..d - 1 : Call(i)' = Call(i)
      BY <1>0, <2>0, <2>1 DEF Pushes, TopMoves
    <2>4. \A i \in 1..d : /\ Call(i)'.task = Call(i).task
                          /\ \A m \in Call(i).down : m \in Call(i)'.down \/ (i = d /\ m = n)
      BY <2>0, <2>3, LeftOnTop DEF Inv2, Inv1
    <2>5. ASSUME NEW i \in 1..Depth, ChainAt(c, i)
          PROVE  ChainAt(c, i)' \/ (i = d /\ d < Len(c) /\ c[d + 1] = n)
      <3>1. i \in Nat /\ i > 0 /\ 1..i \subseteq 1..d
        BY <1>0, <2>0
      <3>2. \A j \in 1..i : Call(j)'.task = Call(j).task
        BY <2>4, <3>1
      <3>3. Call(i)'.best = Call(i).best
        <4>1. CASE i = d
          BY <1>0, <2>0, <2>3, <4>1, CalledType
        <4>2. CASE i # d
          <5>1. i \in 1..d - 1
            BY <1>0, <2>0, <4>2
          <5> QED BY <2>3, <5>1
        <4> QED BY <4>1, <4>2
      <3>4. CASE i = d /\ d < Len(c) /\ c[d + 1] = n
        BY <3>4
      <3>5. CASE ~(i = d /\ d < Len(c) /\ c[d + 1] = n)
        <4>1. i < Len(c) /\ c[i + 1] \in Call(i).down => c[i + 1] \in Call(i)'.down
          BY <2>0, <2>4, <3>5
        <4> QED BY <1>0, <1>2, <2>2, <2>5, <3>1, <3>2, <3>3, <4>1, ChainStays
      <3> QED BY <3>4, <3>5
    <2>6. ASSUME ChainAt(c, d), d < Len(c), c[d + 1] = n
          PROVE  Depth' = d + 1 /\ ChainAt(c, d + 1)'
      <3>1. /\ d + 1 \in 1..Len(c) /\ \A j, k \in 1..Len(c) : c[j] = c[k] => j = k
            /\ Len(c) <= MaxGraphDepth
        BY <1>0, <1>2, <2>0, <2>2, <2>6, ChainType
      <3>2. \A j \in 1..d : c[j] = Call(j).task /\ j \in 1..Len(c) /\ j # d + 1
        BY <1>0, <1>2, <2>0, <2>2, <2>6 DEF ChainAt
      <3>3. n \notin visited
        BY <1>2, <2>0, <2>2, <2>6, <3>1, <3>2
      <3>4. Enters(n, d)
        <4>1. d <= query.depth
          BY <1>0, <1>2, <2>0, <2>2, <2>6, <3>1, GraphAssumption DEF Inv2, Inv1, QueryInv
        <4> QED BY <3>3, <4>1 DEF Enters
      <3>5. Depth' = d + 1 /\ Call(d + 1)' = Read(n)
        BY <2>1, <3>4 DEF Pushes
      <3>6. \A j \in 1..(d + 1) - 1 : c[j] = Call(j)'.task
        BY <1>0, <2>0, <2>4, <3>2
      <3> QED BY <1>0, <1>2, <2>2, <2>6, <3>1, <3>5, <3>6, ChainGoesOn DEF Inv2, Inv1
    <2>7. CASE c[1] \in todo \/ Len(c) <= Len(best)
      BY <2>2, <2>7 DEF ChainOK
    <2>8. ASSUME NEW i \in 1..Depth, ChainAt(c, i) PROVE ChainOK(c)'
      <3>1. CASE ChainAt(c, i)'
        <4>1. i \in 1..Depth'
          BY <1>0, <2>0, <2>3
        <4> QED BY <3>1, <4>1 DEF ChainOK
      <3>2. CASE i = d /\ d < Len(c) /\ c[d + 1] = n
        <4>1. Depth' = d + 1 /\ ChainAt(c, d + 1)' /\ d + 1 \in 1..d + 1
          BY <1>0, <2>0, <2>6, <2>8, <3>2
        <4> QED BY <4>1 DEF ChainOK
      <3> QED BY <2>5, <2>8, <3>1, <3>2
    <2> QED BY <1>2, <2>2, <2>7, <2>8 DEF ChainOK
  <1>6. CASE StartFails \/ ReadFails \/ \E e \in Tasks \X Tasks : Write(e)
    BY <1>0, <1>6 DEF StartFails, ReadFails, Write
  <1>7. CASE Return
    <2>0. PICK d : d = Depth
      OBVIOUS
    <2>1. /\ Pops(d, Noted(d)) /\ visited' = Leave(Call(d).task)
          /\ Call(d).down = {} /\ Call(d).up = {}
          /\ best' = IF query.kind = "path" /\ d = 1 THEN Longer(Path(d), best) ELSE best
      BY <1>7, <2>0, ReturnMoves DEF Inv2, Inv1
    <2>2. UNCHANGED <<query, edges, changes, todo>> /\ Depth' = d - 1 /\ d > 0
      BY <1>7, <2>1 DEF Return, Pops
    <2>3. \A i \in 1..d - 1 : Call(i)'.task = Call(i).task /\ Call(i)'.down = Call(i).down
      BY <2>1, LeftBelow DEF Inv2
    <2>4. /\ Path(d) \in Seq(Tasks) /\ Len(Path(d)) = Len(Call(d).best) + 1
          /\ Len(Path(d)) \in Nat
      BY <1>0, <2>0, <2>2, PathHanded, LenProperties
    <2>5. Len(best') \in Nat /\ Len(best') >= Len(best)
      BY <1>0, <2>1, <2>4, LongerType, LenProperties
    <2>6. ASSUME NEW i \in 1..d - 1
          PROVE  /\ Len(Call(i)'.best) \in Nat /\ Len(Call(i)'.best) >= Len(Call(i).best)
                 /\ i = d - 1 => Len(Call(i)'.best) >= Len(Path(d))
      <3>1. CASE i = d - 1
        <4>1. Noted(d) = Longer(Path(d), Call(i).best) /\ Call(i) \in Frame
          BY <1>0, <1>2, <2>0, <2>2, <3>1 DEF Noted
        <4>2. Call(i)' = [Call(i) EXCEPT !.best = Noted(d)]
          BY <1>0, <2>0, <2>1, <3>1 DEF Pops
        <4>3. Call(i)'.best = Noted(d)
          BY <4>1, <4>2 DEF Frame
        <4> QED BY <2>4, <4>1, <4>3, LongerType, LenProperties DEF Frame
      <3>2. CASE i # d - 1
        <4>1. i \in 1..d - 2 /\ i \in 1..Depth
          BY <1>0, <2>0, <3>2
        <4>2. Call(i)' = Call(i)
          BY <2>1, <4>1 DEF Pops
        <4> QED BY <1>0, <3>2, <4>1, <4>2
      <3> QED BY <3>1, <3>2
    <2>7. ASSUME NEW i \in 1..d - 1, ChainAt(c, i) PROVE ChainOK(c)'
      <3>1. /\ i \in Nat /\ i > 0 /\ 1..i \subseteq 1..d - 1 /\ i \in 1..Depth /\ i \in 1..Depth'
        BY <1>0, <2>0, <2>2
      <3>2. ChainAt(c, i)'
        BY <1>0, <1>2, <2>2, <2>3, <2>6, <2>7, <3>1, ChainStays
      <3> QED BY <3>1, <3>2 DEF ChainOK
    <2>8. ASSUME ChainAt(c, d) PROVE ChainOK(c)'
      <3>1. Len(c) <= d + Len(Call(d).best) /\ d <= Len(c) /\ \A j \in 1..d : c[j] = Call(j).task
        BY <2>1, <2>8 DEF ChainAt
      <3>2. CASE d = 1
        <4>1. best' = Longer(Path(d), best)
          BY <1>2, <2>1, <2>2, <3>2
        <4>2. Len(best') >= Len(Path(d))
          BY <1>0, <2>4, <4>1, LongerType
        <4>3. Len(c) <= Len(best')
          BY <1>0, <1>2, <2>0, <2>2, <2>4, <2>5, <3>1, <3>2, <4>2
        <4> QED BY <4>3 DEF ChainOK
      <3>3. CASE d # 1
        <4> DEFINE i == d - 1
        <4>1. i \in 1..d - 1 /\ i \in 1..Depth' /\ 1..i \subseteq 1..d
          BY <1>0, <2>0, <2>2, <3>3
        <4>2. Len(c) <= i + Len(Call(i)'.best)
          BY <1>0, <1>2, <2>0, <2>2, <2>4, <2>6, <3>1, <4>1
        <4>3. i <= Len(c) /\ \A j \in 1..i : c[j] = Call(j)'.task
          BY <1>0, <1>2, <2>0, <2>2, <2>3, <3>1, <4>1
        <4>4. ChainAt(c, i)'
          BY <4>2, <4>3 DEF ChainAt
        <4> QED BY <4>1, <4>4 DEF ChainOK
      <3> QED BY <3>2, <3>3
    <2>9. CASE c[1] \in todo \/ Len(c) <= Len(best)
      BY <1>0, <1>2, <2>2, <2>5, <2>9 DEF ChainOK
    <2>10. \A i \in 1..Depth : i \in 1..d - 1 \/ i = d
      BY <1>0, <2>0
    <2> QED BY <1>2, <2>2, <2>7, <2>8, <2>9, <2>10 DEF ChainOK
  <1>8. CASE Answer \/ UNCHANGED vars
    BY <1>3, <1>8 DEF Answer, vars
  <1> QED BY <1>1, <1>4, <1>5, <1>6, <1>7, <1>8, RequestsAsk DEF Next

\* Each step keeps the marks and the chains of a path's walk.
LEMMA PathWalkStep == Inv2 /\ PathInv /\ PathWalkInv /\ [Next]_vars => PathWalkInv'
  <1> SUFFICES ASSUME Inv2, PathInv, PathWalkInv, [Next]_vars, query'.kind = "path", changes' = 0
               PROVE  /\ visited' = {Call(i)'.task : i \in 1..Depth'}
                      /\ \A c \in Chains(query.starts)' : ChainOK(c)'
    BY DEF PathWalkInv
  <1> QED BY MarkedStep, ChainsStep

WalkInv == ClosedInv /\ TreeWalkInv /\ CountWalkInv /\ PathWalkInv

\* No walk is under way at the start, and each step keeps the walk what it is.
LEMMA WalkAlways == Spec => [](Inv2 /\ AnswerInv /\ WalkInv)
  <1>1. Init => WalkInv
    <2> SUFFICES ASSUME Init PROVE WalkInv
      OBVIOUS
    <2>1. query.kind = "none" /\ visited = {}
      BY DEF Init, NoQuery
    <2> QED BY <2>1 DEF WalkInv, ClosedInv, TreeWalkInv, CountWalkInv, PathWalkInv
  <1>2. Inv2 /\ AnswerInv /\ WalkInv /\ [Next]_vars => WalkInv'
    BY ClosedStep, TreeWalkStep, CountWalkStep, PathWalkStep DEF WalkInv, AnswerInv
  <1> QED BY <1>1, <1>2, AnswerAlways, PTL DEF Spec

\* An answered query has no start task and no call left.
LEMMA Answered ==
    ASSUME Inv2, at = "done", changes = 0
    PROVE  /\ todo = {} /\ Depth = 0 /\ ever = edges /\ query.starts \subseteq Tasks
           /\ edges \subseteq Tasks \X Tasks
  BY CallsType DEF Inv2, Inv1, TypeInv, QueryInv

\* A dependency tree that nothing disturbed holds the direct neighbours of its
\* root, nothing beyond max_depth, and all there is to reach when max_depth is
\* large enough, in whatever order the edges are read.
THEOREM TreesComplete == Spec => []TreeComplete
  <1>1. Inv2 /\ WalkInv => TreeComplete
    <2> SUFFICES ASSUME Inv2, WalkInv, Undisturbed("tree"), NEW root \in query.starts
                 PROVE  /\ Within(root, Followed)[1] \subseteq visited
                        /\ query.depth < Everything =>
                              visited \subseteq Within(root, Followed)[query.depth]
                        /\ query.depth >= Everything - 1 =>
                              visited = Within(root, Followed)[Everything]
      BY DEF TreeComplete
    <2>0. at = "done" /\ query.kind = "tree" /\ changes = 0
      BY DEF Undisturbed
    <2>1. /\ todo = {} /\ Depth = 0 /\ root \in Tasks /\ Followed = Steps
          /\ Steps \subseteq Tasks \X Tasks /\ visited \in SUBSET Tasks
      BY <2>0, Answered, StepsType DEF Followed, Steps, Inv2, Inv1, TypeInv
    <2>2. /\ root \in visited /\ visited \subseteq Behind(root, Steps)
          /\ query.depth < Everything => visited \subseteq Within(root, Steps)[query.depth]
      BY <2>0, <2>1 DEF WalkInv, TreeWalkInv
    <2>3. ASSUME NEW v \in visited, NEW n \in Tasks, Deep(v), <<v, n>> \in Steps
          PROVE  n \in visited
      <3>1. 1..Depth = {}
        BY <2>1
      <3> QED BY <2>0, <2>3, <3>1 DEF WalkInv, ClosedInv
    <2>4. Within(root, Steps)[1] \subseteq visited
      <3> DEFINE w == Within(root, Steps)
      <3>1. Everything \in Nat /\ Everything # 0
        <4>1. Cardinality({}) = 0 /\ Tasks # {}
          BY <2>1, FS_EmptySet
        <4> QED BY <4>1, <2>1, EverythingType, FS_EmptySet DEF Everything
      <3>2. w[0] = {root} /\ w[1] = Onward(w[0], Steps)
        <4>1. 1 \in 1..Everything /\ 1 - 1 = 0
          BY <3>1
        <4> QED BY <2>1, <4>1, WithinDef
      <3> HIDE DEF w
      <3>3. Deep(root)
        BY <2>0 DEF Deep
      <3>4. \A e \in Steps : e[1] = root => e[2] \in visited
        BY <2>1, <2>2, <2>3, <3>3
      <3>5. w[1] \subseteq visited
        BY <2>2, <3>2, <3>4 DEF Onward
      <3> QED BY <3>5 DEF w
    <2>5. ASSUME query.depth >= Everything - 1
          PROVE  visited = Within(root, Steps)[Everything]
      <3>1. Follows(visited, Steps)
        BY <2>0, <2>3, <2>5 DEF Follows, Deep
      <3>2. Behind(root, Steps) \subseteq visited
        BY <2>1, <2>2, <3>1, BehindLeast
      <3> QED BY <2>1, <2>2, <3>2, BehindIsWithin
    <2> QED BY <2>1, <2>2, <2>4, <2>5
  <1> QED BY <1>1, WalkAlways, PTL

\* Bottlenecks that nothing disturbed are counted with every task downstream of
\* them and never with themselves, on cycles too, and although all the paths
\* from a task share one visited set.
THEOREM BottlenecksComplete == Spec => []BottlenecksCounted
  <1>1. Inv2 /\ WalkInv => BottlenecksCounted
    <2> SUFFICES ASSUME Inv2, WalkInv, Undisturbed("count"), Everything <= MaxGraphDepth + 1,
                        NEW t \in query.starts
                 PROVE  counts[t] = Within(t, edges)[Everything] \ {t}
      BY DEF BottlenecksCounted
    <2>0. at = "done" /\ query.kind = "count" /\ changes = 0
      BY DEF Undisturbed
    <2>1. /\ todo = {} /\ Depth = 0 /\ t \in Tasks /\ ever = edges /\ edges \subseteq Tasks \X Tasks
      BY <2>0, Answered
    <2>2. counts[t] = Behind(t, edges) \ {t}
      BY <2>0, <2>1 DEF WalkInv, CountWalkInv
    <2> QED BY <2>1, <2>2, BehindIsWithin
  <1> QED BY <1>1, WalkAlways, PTL

\* A critical path that nothing disturbed is a chain of different tasks from a
\* start task, and no such chain of at most maxGraphDepth tasks is longer,
\* whatever the order of the edges and on whatever cycles.
THEOREM CriticalPathsLongest == Spec => []CriticalPathLongest
  <1>1. Inv2 /\ AnswerInv /\ WalkInv => CriticalPathLongest
    <2> SUFFICES ASSUME Inv2, AnswerInv, WalkInv, Undisturbed("path"), query.starts # {}
                 PROVE  /\ best \in Chains(query.starts)
                        /\ \A c \in Chains(query.starts) : Len(c) <= Len(best)
      BY DEF CriticalPathLongest
    <2>0. at = "done" /\ query.kind = "path" /\ changes = 0
      BY DEF Undisturbed
    <2>1. todo = {} /\ Depth = 0 /\ ever = edges /\ query.starts \subseteq Tasks
      BY <2>0, Answered
    <2>2. ASSUME NEW c \in Chains(query.starts) PROVE Len(c) <= Len(best)
      <3>1. ChainOK(c)
        BY <2>0 DEF WalkInv, PathWalkInv
      <3> QED BY <2>1, <3>1 DEF ChainOK
    <2>3. /\ best \in Seq(Tasks) /\ Len(best) \in Nat /\ MaxGraphDepth \in Nat \ {0}
          /\ PathOf(best, edges) /\ (best # <<>> => best[1] \in query.starts)
          /\ Len(best) <= MaxGraphDepth
      BY <2>1, LenProperties, GraphAssumption DEF Inv2, Inv1, TypeInv, AnswerInv, PathInv
    <2>4. Len(best) >= 1
      <3>1. PICK s : s \in query.starts
        OBVIOUS
      <3> DEFINE c == [k \in 1..1 |-> s]
      <3>2. c \in [1..1 -> Tasks] /\ c[1] = s /\ IsInjective(c) /\ Len(c) = 1
        BY <2>1, <3>1 DEF IsInjective
      <3> HIDE DEF c
      <3>3. 1 \in 1..MaxGraphDepth /\ 1..Len(c) - 1 = {}
        BY <2>3, <3>2
      <3>4. c \in Chains(query.starts)
        BY <3>1, <3>2, <3>3 DEF Chains
      <3> QED BY <2>2, <3>2, <3>4
    <2>5. best \in [1..Len(best) -> Tasks] /\ Len(best) \in 1..MaxGraphDepth /\ best # <<>>
      BY <2>3, <2>4, LenProperties, EmptySeq
    <2>6. IsInjective(best) /\ \A k \in 1..Len(best) - 1 : <<best[k], best[k + 1]>> \in edges
      <3>1. DOMAIN best = 1..Len(best)
        BY <2>5
      <3> QED BY <2>3, <3>1 DEF PathOf, IsInjective
    <2>7. best \in Chains(query.starts)
      <3>1. best[1] \in query.starts
        BY <2>3, <2>5
      <3> QED BY <2>5, <2>6, <3>1 DEF Chains
    <2> QED BY <2>2, <2>7
  <1> QED BY <1>1, WalkAlways, PTL
==============================================================================
